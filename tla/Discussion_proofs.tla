-------------------------- MODULE Discussion_proofs --------------------------
(* Proofs about Posts and Discussion, for any number of workers, accounts,
   posts and requests.                                                       *)
EXTENDS Discussion, FiniteSetTheorems, WellFoundedInduction, TLAPS

-----------------------------------------------------------------------------
(* Greatest elements.                                                      *)

LEMMA Least ==
    ASSUME NEW T \in SUBSET Nat, T # {}
    PROVE  \E x \in T : \A y \in T : x <= y
<1>1. PICK x \in T : \A y \in T : ~(<<y, x>> \in OpToRel(<, Nat))
  BY NatLessThanWellFounded, WFMin
<1>2. \A y \in T : ~(y < x)
  BY <1>1 DEF OpToRel
<1> QED BY <1>2

LEMMA Greatest ==
    ASSUME NEW S \in SUBSET Nat, S # {}, NEW b \in Nat, \A x \in S : x <= b
    PROVE  Max(S) \in S /\ \A y \in S : y <= Max(S)
<1> DEFINE T == {n \in Nat : \A x \in S : x <= n}
<1>1. PICK m \in T : \A n \in T : m <= n
  <2>1. T # {} /\ T \in SUBSET Nat
    OBVIOUS
  <2> HIDE DEF T
  <2> QED BY <2>1, Least
<1>2. m \in S
  <2> SUFFICES ASSUME m \notin S PROVE FALSE
    OBVIOUS
  <2>1. \A x \in S : x <= m /\ x # m /\ x \in Nat /\ m \in Nat
    OBVIOUS
  <2>2. m # 0
    <3>1. PICK x \in S : TRUE
      OBVIOUS
    <3>2. x <= m /\ x # m /\ x \in Nat
      BY <2>1
    <3> QED BY <3>2
  <2>3. m - 1 \in Nat /\ \A x \in S : x <= m - 1
    BY <2>1, <2>2
  <2>4. m - 1 \in T
    BY <2>3
  <2> QED BY <2>1, <2>4, <1>1
<1>3. \E x \in S : \A y \in S : x >= y
  BY <1>2
<1> QED BY <1>3 DEF Max

LEMMA LargerOf ==
    ASSUME NEW a \in Int, NEW b \in Int
    PROVE  Max({a, b}) = IF a >= b THEN a ELSE b
<1>1. \E x \in {a, b} : \A y \in {a, b} : x >= y
  BY SMT
<1>2. Max({a, b}) \in {a, b} /\ \A y \in {a, b} : Max({a, b}) >= y
  BY <1>1 DEF Max
<1> QED BY <1>2

\* An id that no row has
LEMMA NewId ==
    ASSUME NEW S \in SUBSET Nat, NEW b \in Nat, \A x \in S : x <= b
    PROVE  /\ NextId(S) \in Nat \ {0} /\ NextId(S) \notin S
           /\ \A x \in S : x < NextId(S)
<1>1. S \cup {0} \in SUBSET Nat /\ S \cup {0} # {} /\ \A x \in S \cup {0} : x <= b
  OBVIOUS
<1>2. Max(S \cup {0}) \in S \cup {0} /\ \A y \in S \cup {0} : y <= Max(S \cup {0})
  BY <1>1, Greatest
<1> DEFINE m == Max(S \cup {0})
<1>3. m \in Nat /\ \A y \in S : y \in Nat /\ y <= m
  BY <1>1, <1>2
<1>4. NextId(S) = m + 1
  BY DEF NextId
<1> HIDE DEF m
<1>5. m + 1 \in Nat \ {0} /\ \A y \in S : y < m + 1
  BY <1>3
<1>6. m + 1 \notin S
  BY <1>3, <1>5
<1> QED BY <1>4, <1>5, <1>6

-----------------------------------------------------------------------------
(* Rows.                                                                   *)

LEMMA PostRowIsRow ==
    ASSUME NEW row \in PostRow
    PROVE  row # NoPost
<1>1. row.author \in Users /\ NoPost.author = NoUser
  BY DEF PostRow, NoPost
<1> QED BY <1>1, PostsAssumption

LEMMA MergedPost ==
    ASSUME NEW row \in PostRow, NEW seen \in PostRow, NEW new \in PostRow
    PROVE  /\ Merged(row, seen, new) \in PostRow
           /\ Merged(row, seen, new).author = IF new.author # seen.author THEN new.author ELSE row.author
           /\ Merged(row, seen, new).published =
                IF new.published # seen.published THEN new.published ELSE row.published
           /\ Merged(row, seen, new).draft = IF new.draft # seen.draft THEN new.draft ELSE row.draft
           /\ Merged(row, seen, new).date = IF new.date # seen.date THEN new.date ELSE row.date
           /\ Merged(row, seen, new).text = IF new.text # seen.text THEN new.text ELSE row.text
           /\ Merged(row, seen, new).likes = IF new.likes # seen.likes THEN new.likes ELSE row.likes
           /\ Merged(row, seen, new).asked = IF new.asked # seen.asked THEN new.asked ELSE row.asked
           /\ Merged(row, seen, new).past = IF new.past # seen.past THEN new.past ELSE row.past
BY DEF Merged, PostRow

LEMMA RewrittenUser ==
    ASSUME NEW row \in UserRow, NEW seen \in UserRow, NEW new \in UserRow,
           new.granted >= seen.granted, new.awards >= seen.awards
    PROVE  /\ Rewritten(row, seen, new) \in UserRow
           /\ Rewritten(row, seen, new).xp = IF new.xp # seen.xp THEN new.xp ELSE row.xp
           /\ Rewritten(row, seen, new).level = IF new.level # seen.level THEN new.level ELSE row.level
           /\ Rewritten(row, seen, new).badges = IF new.badges # seen.badges THEN new.badges ELSE row.badges
           /\ Rewritten(row, seen, new).granted = row.granted + (new.granted - seen.granted)
           /\ Rewritten(row, seen, new).awards = row.awards + (new.awards - seen.awards)
<1> DEFINE m == Merged(row, seen, new)
<1>1. /\ m \in UserRow
      /\ m.xp = IF new.xp # seen.xp THEN new.xp ELSE row.xp
      /\ m.level = IF new.level # seen.level THEN new.level ELSE row.level
      /\ m.badges = IF new.badges # seen.badges THEN new.badges ELSE row.badges
  BY DEF Merged, UserRow
<1>2. Rewritten(row, seen, new) =
        [m EXCEPT !.granted = row.granted + (new.granted - seen.granted),
                  !.awards = row.awards + (new.awards - seen.awards)]
  BY DEF Rewritten
<1> HIDE DEF m
<1>3. /\ row.granted + (new.granted - seen.granted) \in Nat
      /\ row.awards + (new.awards - seen.awards) \in Nat
  BY DEF UserRow
<1> QED BY <1>1, <1>2, <1>3 DEF UserRow

-----------------------------------------------------------------------------
(* The invariants.                                                         *)

Bounded(S) == \E b \in Nat : \A n \in S : n <= b

\* What the handlers in flight have read
BadgeTable == {{}, {"legacy"}, {"current"}}
Accounts == [Users -> UserRow \cup {Gone}]
NewsRow == [to: Users, type: {"comment", "reply"}, post: PostIds, comment: CommentIds]
Intact == {row \in CommentRow : ~row.deleted}

Request(op, at, by, p, more) ==
    [op: op, at: at, by: by, number: Nat, post: p, more: more]

CreateJobs ==
    Request({"create"}, {"commit"}, Admins, {NoId}, [form: Forms, new: SUBSET Tags])
EditJobs ==
    Request({"edit"}, {"commit"}, Admins, PostIds, [form: Forms, seen: PostRow, version: Nat \ {0}])
HookJobs ==
    Request({"hook"}, {"commit"}, {NoUser}, {NoId}, UNION {[due -> PostRow] : due \in SUBSET PostIds})
CommentJobs ==
    Request({"comment"}, {"commit"}, Users, PostIds, [parent: {NoId}])
ReplyJobs ==
    Request({"reply"}, {"commit"}, Users, PostIds, [parent: CommentIds])
CreatedJobs ==
    Request({"create"}, {"reward"}, Admins, PostIds, [form: Forms, new: SUBSET Tags])
InsertedJobs ==
    Request({"comment"}, {"reward"}, Users, PostIds, [parent: {NoId}, comment: CommentIds])
    \cup Request({"reply"}, {"reward"}, Users, PostIds, [parent: CommentIds, comment: CommentIds])
AwardJobs ==
    Request({"create", "comment", "reply"}, {"award"}, Users, PostIds,
            [row: UserRow, news: {{}} \cup {{n} : n \in NewsRow}])
EditCommentJobs ==
    Request({"editComment"}, {"commit"}, Users, PostIds, [comment: CommentIds, row: Intact])
DeleteCommentJobs ==
    Request({"deleteComment"}, {"commit"}, Users, {NoId}, [comment: CommentIds])
DeletePostJobs ==
    Request({"deletePost"}, {"commit"}, Users, PostIds, [comments: SUBSET CommentIds])
DeleteUserJobs ==
    Request({"deleteUser"}, {"commit"}, Users, {NoId}, [heir: Admins])
LikeJobs ==
    Request({"like"}, {"commit"}, Users, PostIds,
            [target: Targets, likes: Nat, author: Users \cup {NoUser}, given: SUBSET Like])
InitBadgesJobs ==
    Request({"initBadges"}, {"commit", "create"}, Users, {NoId}, [badge: BadgeTable, user: Accounts])

Jobs ==
    {Idle} \cup CreateJobs \cup EditJobs \cup HookJobs \cup CommentJobs \cup ReplyJobs \cup CreatedJobs
    \cup InsertedJobs \cup AwardJobs \cup EditCommentJobs \cup DeleteCommentJobs \cup DeletePostJobs
    \cup DeleteUserJobs \cup LikeJobs \cup InitBadgesJobs

(* The old name of the badge does not come back, and whoever loaded the table
   before it was replaced will replace it.                                 *)
Renaming ==
    \A w \in Workers : job[w] # Idle /\ job[w].op = "initBadges" /\ "legacy" \in badge =>
        job[w].more.badge = {"legacy"} /\ job[w].at = "commit"

PostsOK ==
    /\ post \in [PostIds -> PostRow \cup {NoPost}] /\ tag \subseteq Tags
    /\ revision \subseteq Revision /\ IsFiniteSet(revision) /\ Bounded({r.version : r \in revision})
CommentsOK == comment \in [CommentIds -> CommentRow \cup {NoComment}]
LikesOK ==
    /\ like \subseteq Like /\ IsFiniteSet(like) /\ Bounded({l.id : l \in like})
    /\ \A k, l \in like : k.id = l.id \/ (k.by = l.by /\ k.target = l.target) => k = l
NoticesOK ==
    /\ notice \subseteq Notice /\ IsFiniteSet(notice) /\ Bounded({n.id : n \in notice})
    /\ \A m, n \in notice : m.id = n.id => m = n
UsersOK == user \in Accounts /\ \A u \in Users : UserExists(u) => user[u].level # 0
BadgesOK == badge \in BadgeTable /\ Renaming
SiteOK ==
    /\ clock \in 0..MaxTime /\ started \in 0..MaxRequests /\ overtaken \in BOOLEAN /\ erased \in Nat
JobsOK == job \in [Workers -> Jobs]

Base ==
    /\ PostsOK /\ CommentsOK /\ LikesOK /\ NoticesOK /\ UsersOK /\ BadgesOK /\ SiteOK /\ JobsOK

-----------------------------------------------------------------------------
(* Requests: their shape, their beginning and their end.                   *)

LEMMA JobShape ==
    ASSUME job \in [Workers -> Jobs], NEW w \in Workers
    PROVE  /\ At(w, "create", "commit") => job[w] \in CreateJobs
           /\ At(w, "edit", "commit") => job[w] \in EditJobs
           /\ At(w, "hook", "commit") => job[w] \in HookJobs
           /\ At(w, "comment", "commit") => job[w] \in CommentJobs
           /\ At(w, "reply", "commit") => job[w] \in ReplyJobs
           /\ job[w] # Idle /\ job[w].at = "reward" => job[w] \in CreatedJobs \cup InsertedJobs
           /\ job[w] # Idle /\ job[w].at = "award" => job[w] \in AwardJobs
           /\ At(w, "editComment", "commit") => job[w] \in EditCommentJobs
           /\ At(w, "deleteComment", "commit") => job[w] \in DeleteCommentJobs
           /\ At(w, "deletePost", "commit") => job[w] \in DeletePostJobs
           /\ At(w, "deleteUser", "commit") => job[w] \in DeleteUserJobs
           /\ At(w, "like", "commit") => job[w] \in LikeJobs
           /\ (\E at : At(w, "initBadges", at)) => job[w] \in InitBadgesJobs
<1>1. job[w] \in Jobs
  OBVIOUS
<1> DEFINE j == job[w]
<1> QED
  BY <1>1 DEF Jobs, At, CreateJobs, EditJobs, HookJobs, CommentJobs, ReplyJobs, CreatedJobs, InsertedJobs,
     AwardJobs, EditCommentJobs, DeleteCommentJobs, DeletePostJobs, DeleteUserJobs, LikeJobs,
     InitBadgesJobs, Request, Idle

LEMMA RequestMoved ==
    ASSUME NEW j, NEW at, NEW more,
           j = [op |-> j.op, at |-> j.at, by |-> j.by, number |-> j.number, post |-> j.post, more |-> j.more]
    PROVE  [j EXCEPT !.at = at, !.more = more] =
              [op |-> j.op, at |-> at, by |-> j.by, number |-> j.number, post |-> j.post, more |-> more]
<1> DEFINE k == [j EXCEPT !.at = at]
<1>1. k = [op |-> j.op, at |-> at, by |-> j.by, number |-> j.number, post |-> j.post, more |-> j.more]
  OBVIOUS
<1>2. [j EXCEPT !.at = at, !.more = more] = [k EXCEPT !.more = more]
  OBVIOUS
<1> HIDE DEF k
<1>3. [k EXCEPT !.more = more] =
        [op |-> j.op, at |-> at, by |-> j.by, number |-> j.number, post |-> j.post, more |-> more]
  BY <1>1
<1> QED BY <1>2, <1>3

LEMMA BeginOK ==
    ASSUME job \in [Workers -> Jobs], started \in 0..MaxRequests, NEW w \in Workers,
           NEW op, NEW at, NEW u, NEW p, NEW more,
           Begin(w, op, at, u, p, more), Job(op, at, u, p, more) \in Jobs
    PROVE  /\ job' \in [Workers -> Jobs] /\ started' \in 0..MaxRequests
           /\ job'[w] = Job(op, at, u, p, more) /\ \A v \in Workers \ {w} : job'[v] = job[v]
<1>1. job' = [job EXCEPT ![w] = Job(op, at, u, p, more)] /\ started' = started + 1 /\ started < MaxRequests
  BY DEF Begin
<1>2. MaxRequests \in Nat
  BY PostsAssumption
<1> QED BY <1>1, <1>2

LEMMA EndOK ==
    ASSUME job \in [Workers -> Jobs], NEW w \in Workers, End(w)
    PROVE  job' \in [Workers -> Jobs] /\ job'[w] = Idle /\ \A v \in Workers \ {w} : job'[v] = job[v]
<1>1. Idle \in Jobs
  BY DEF Jobs
<1> QED BY <1>1 DEF End

-----------------------------------------------------------------------------
(* Which rows exist.                                                       *)

LEMMA PostRows ==
    ASSUME PostsOK, NEW p \in PostIds
    PROVE  /\ post[p] \in PostRow \cup {NoPost}
           /\ PostExists(p) <=> post[p] \in PostRow
           /\ PostExists(p) <=> post[p].author # NoUser
           /\ PostExists(p) => post[p].author \in Users /\ post[p].likes \in Nat
BY PostsAssumption DEF PostsOK, PostExists, PostRow, NoPost

LEMMA CommentRows ==
    ASSUME CommentsOK, NEW c \in CommentIds
    PROVE  /\ comment[c] \in CommentRow \cup {NoComment}
           /\ CommentExists(c) <=> comment[c] \in CommentRow
           /\ CommentExists(c) <=> comment[c].post # NoId
           /\ CommentExists(c) <=> comment[c].post \in PostIds
           /\ CommentExists(c) => comment[c].likes \in Nat /\ comment[c].author \in Users \cup {NoUser}
BY DEF CommentsOK, CommentExists, CommentRow, NoComment, PostIds, NoId

LEMMA UserRows ==
    ASSUME UsersOK, NEW u \in Users
    PROVE  /\ user[u] \in UserRow
           /\ UserExists(u) <=> user[u] # Gone
           /\ UserExists(u) <=> user[u].level # 0
BY DEF UsersOK, Accounts, UserExists, UserRow, Gone

-----------------------------------------------------------------------------
(* Points.                                                                 *)

LEMMA OwedOK ==
    ASSUME NEW u, NEW likes, IsFiniteSet(likes)
    PROVE  Owed(u, likes) \in Nat
<1> DEFINE to == {l \in likes : l.to = u}
           posts == {l \in to : PostTarget(l.target)}
           comments == {l \in to : ~PostTarget(l.target)}
<1>1. IsFiniteSet(posts) /\ IsFiniteSet(comments)
  BY FS_Subset
<1>2. Cardinality(posts) \in Nat /\ Cardinality(comments) \in Nat
  BY <1>1, FS_CardinalityType
<1>3. Owed(u, likes) = PostLike * Cardinality(posts) + CommentLike * Cardinality(comments)
  BY DEF Owed
<1> HIDE DEF posts, comments
<1> QED BY <1>2, <1>3 DEF PostLike, CommentLike

LEMMA GainOK ==
    ASSUME NEW row \in UserRow, NEW points \in Nat
    PROVE  /\ Gain(row, points) \in UserRow
           /\ Gain(row, points).xp = row.xp + points
           /\ Gain(row, points).level \in Nat \ {0}
           /\ Gain(row, points).badges = row.badges
           /\ Gain(row, points).granted = row.granted
           /\ Gain(row, points).awards = row.awards
<1> DEFINE xp == row.xp + points
           level == Max({row.level, xp \div PerLevel + 1})
<1>1. xp \in Nat
  BY DEF UserRow
<1>2. xp \div PerLevel \in Nat
  BY <1>1, DiscussionAssumption
<1>3. row.level \in Nat
  BY DEF UserRow
<1>4. level \in Nat \ {0}
  <2> DEFINE k == xp \div PerLevel + 1
  <2>1. k \in Nat \ {0}
    BY <1>2
  <2> HIDE DEF k
  <2>2. Max({row.level, k}) = IF row.level >= k THEN row.level ELSE k
    BY <1>3, <2>1, LargerOf
  <2>3. Max({row.level, k}) \in Nat \ {0}
    BY <1>3, <2>1, <2>2
  <2> QED BY <2>3 DEF k
<1>5. Gain(row, points) = [row EXCEPT !.xp = xp, !.level = level]
  BY DEF Gain
<1> HIDE DEF xp, level
<1>6. /\ Gain(row, points) \in UserRow
      /\ Gain(row, points).xp = xp /\ Gain(row, points).level = level
      /\ Gain(row, points).badges = row.badges
      /\ Gain(row, points).granted = row.granted
      /\ Gain(row, points).awards = row.awards
  BY <1>1, <1>4, <1>5 DEF UserRow
<1> QED BY <1>4, <1>6 DEF xp

LEMMA GrantedOK ==
    ASSUME NEW row \in UserRow, NEW points \in Nat
    PROVE  /\ Granted(row, points) \in UserRow
           /\ Granted(row, points).xp = row.xp + points
           /\ Granted(row, points).level \in Nat \ {0}
           /\ Granted(row, points).badges = row.badges
           /\ Granted(row, points).granted = row.granted + points
           /\ Granted(row, points).awards = row.awards
<1> DEFINE g == Gain(row, points)
<1>1. /\ g \in UserRow /\ g.xp = row.xp + points /\ g.level \in Nat \ {0} /\ g.badges = row.badges
      /\ g.granted = row.granted /\ g.awards = row.awards
  BY GainOK
<1>2. Granted(row, points) = [g EXCEPT !.granted = @ + points]
  BY DEF Granted
<1> HIDE DEF g
<1> QED BY <1>1, <1>2 DEF UserRow

\* A reward: its points, and perhaps the badge with its own
LEMMA AwardedOK ==
    ASSUME NEW row \in UserRow, NEW u, row.level # 0, badge \in SUBSET BadgeNames
    PROVE  /\ Awarded(row, u) \in UserRow
           /\ Awarded(row, u).level # 0
           /\ \/ Awarded(row, u) = row
              \/ /\ ~(badge \subseteq row.badges)
                 /\ Awarded(row, u).badges = row.badges \cup badge
                 /\ Awarded(row, u).awards = row.awards + 1
                 /\ Awarded(row, u).xp - row.xp = Awarded(row, u).granted - row.granted
                 /\ Awarded(row, u).granted >= row.granted
<1> DEFINE g == Granted(row, BadgePoints)
           new == [g EXCEPT !.badges = @ \cup badge, !.awards = @ + 1]
<1>1. /\ g \in UserRow /\ g.xp = row.xp + 30 /\ g.level # 0 /\ g.badges = row.badges
      /\ g.granted = row.granted + 30 /\ g.awards = row.awards
  <2>1. BadgePoints \in Nat /\ BadgePoints = 30
    BY DEF BadgePoints
  <2> QED BY <2>1, GrantedOK
<1>2. Awarded(row, u) = row \/ (Awarded(row, u) = new /\ ~(badge \subseteq row.badges))
  BY DEF Awarded
<1> HIDE DEF g
<1>3. /\ new \in UserRow /\ new.level # 0 /\ new.badges = row.badges \cup badge
      /\ new.awards = row.awards + 1
      /\ new.xp = row.xp + 30 /\ new.granted = row.granted + 30
  <2> DEFINE held == g.badges \cup badge
  <2>1. held \in SUBSET BadgeNames
    BY <1>1 DEF UserRow
  <2>2. new = [g EXCEPT !.badges = held, !.awards = g.awards + 1]
    OBVIOUS
  <2>3. held = row.badges \cup badge
    BY <1>1
  <2> HIDE DEF held, new
  <2>4. g \in UserRow
    BY <1>1
  <2>5. g.awards + 1 \in Nat
    BY <2>4 DEF UserRow
  <2>6. new \in UserRow
    BY <2>4, <2>5, <2>1, <2>2 DEF UserRow
  <2>7. /\ new.level = g.level /\ new.badges = held
        /\ new.awards = g.awards + 1 /\ new.xp = g.xp /\ new.granted = g.granted
    BY <2>4, <2>2 DEF UserRow
  <2> QED BY <1>1, <2>3, <2>6, <2>7
<1> HIDE DEF new
<1>4. row.xp \in Nat /\ row.granted \in Nat
  BY DEF UserRow
<1>5. CASE Awarded(row, u) = row
  BY <1>5
<1>6. CASE Awarded(row, u) = new /\ ~(badge \subseteq row.badges)
  BY <1>3, <1>4, <1>6
<1> QED BY <1>2, <1>5, <1>6

\* Accounts whose likes went stay as they are, but for what they keep
LEMMA KeptOK ==
    ASSUME UsersOK, NEW likes, IsFiniteSet(likes)
    PROVE  /\ Kept(user, likes) \in Accounts
           /\ \A u \in Users :
                /\ Kept(user, likes)[u].level = user[u].level
                /\ Kept(user, likes)[u].xp = user[u].xp
                /\ Kept(user, likes)[u].badges = user[u].badges
                /\ Kept(user, likes)[u].awards = user[u].awards
                /\ UserExists(u) => Kept(user, likes)[u].granted = user[u].granted + Owed(u, likes)
                /\ UserExists(u) <=> Kept(user, likes)[u] # Gone
<1>1. SUFFICES ASSUME NEW u \in Users
      PROVE  LET row == Kept(user, likes)[u] IN
                /\ row \in UserRow
                /\ row.level = user[u].level
                /\ row.xp = user[u].xp /\ row.badges = user[u].badges /\ row.awards = user[u].awards
                /\ UserExists(u) => row.granted = user[u].granted + Owed(u, likes)
                /\ UserExists(u) <=> row # Gone
  <2>1. Kept(user, likes) = [u \in Users |-> Kept(user, likes)[u]]
    BY DEF Kept
  <2> QED BY <1>1, <2>1 DEF Accounts
<1> DEFINE row == user[u]
           new == [row EXCEPT !.granted = @ + Owed(u, likes)]
<1>2. Kept(user, likes)[u] = IF row = Gone THEN Gone ELSE new
  BY DEF Kept
<1>3. row \in UserRow /\ (UserExists(u) <=> row # Gone) /\ (UserExists(u) <=> row.level # 0)
  BY UserRows
<1>4. Owed(u, likes) \in Nat
  BY OwedOK
<1>5. /\ new \in UserRow /\ new.level = row.level /\ new.xp = row.xp /\ new.badges = row.badges
      /\ new.awards = row.awards /\ new.granted = row.granted + Owed(u, likes)
  BY <1>3, <1>4 DEF UserRow
<1>6. Gone.level = 0
  BY DEF Gone
<1> HIDE DEF row, new
<1>7. QED BY <1>2, <1>3, <1>5, <1>6 DEF row

-----------------------------------------------------------------------------
(* The types are kept, action by action.                                   *)

\* What a step that only begins, or ends, a request leaves alone
Tables == <<postVars, siteVars, overtaken, threadVars>>

LEMMA TablesKept ==
    ASSUME Base, UNCHANGED Tables, started' \in 0..MaxRequests
    PROVE  PostsOK' /\ CommentsOK' /\ LikesOK' /\ NoticesOK' /\ UsersOK' /\ SiteOK' /\ badge' \in BadgeTable
BY DEF Base, Tables, postVars, siteVars, threadVars, PostsOK, CommentsOK, LikesOK, NoticesOK, UsersOK,
   SiteOK, BadgesOK, Revisions, UserExists

\* The badges while other requests than init_badges come and go
LEMMA RenamingKept ==
    ASSUME Base, badge' = badge, NEW w \in Workers,
           job'[w] # Idle /\ job'[w].op = "initBadges" =>
              job'[w].at = "commit" /\ job'[w].more.badge = badge,
           \A v \in Workers \ {w} : job'[v] = job[v]
    PROVE  BadgesOK'
<1>1. SUFFICES ASSUME NEW v \in Workers, job'[v] # Idle, job'[v].op = "initBadges", "legacy" \in badge
      PROVE  job'[v].more.badge = {"legacy"} /\ job'[v].at = "commit"
  BY <1>1 DEF BadgesOK, Renaming, Base
<1>2. CASE v = w
  BY <1>1, <1>2 DEF Base, BadgesOK, BadgeTable
<1>3. CASE v # w
  BY <1>1, <1>3 DEF Base, BadgesOK, Renaming
<1> QED BY <1>2, <1>3

LEMMA BeginBase ==
    ASSUME Base, NEW w \in Workers, NEW op, NEW at, NEW u, NEW p, NEW more,
           Begin(w, op, at, u, p, more), Job(op, at, u, p, more) \in Jobs, UNCHANGED Tables,
           op = "initBadges" => at = "commit" /\ more.badge = badge
    PROVE  Base'
<1>1. /\ JobsOK' /\ started' \in 0..MaxRequests
      /\ job'[w] = Job(op, at, u, p, more) /\ \A v \in Workers \ {w} : job'[v] = job[v]
  BY BeginOK DEF Base, JobsOK, SiteOK
<1>2. BadgesOK'
  <2>1. job'[w].op = op /\ job'[w].at = at /\ job'[w].more = more
    BY <1>1 DEF Job
  <2>2. badge' = badge
    BY DEF Tables, threadVars
  <2> QED BY <1>1, <2>1, <2>2, RenamingKept
<1> QED BY <1>1, <1>2, TablesKept DEF Base

LEMMA NumberOK ==
    ASSUME Base
    PROVE  started + 1 \in Nat
BY PostsAssumption DEF Base, SiteOK

LEMMA RevisionVersion ==
    ASSUME PostsOK, NEW p \in PostIds
    PROVE  /\ Max({r.version : r \in Revisions(p)} \cup {0}) + 1 \in Nat \ {0}
           /\ NextId({r.version : r \in Revisions(p)}) = Max({r.version : r \in Revisions(p)} \cup {0}) + 1
<1> DEFINE S == {r.version : r \in Revisions(p)}
<1>1. PICK b \in Nat : \A n \in {r.version : r \in revision} : n <= b
  BY DEF PostsOK, Bounded
<1>2. S \in SUBSET Nat /\ \A n \in S : n <= b
  BY <1>1 DEF PostsOK, Revision, Revisions
<1>3. NextId(S) = Max(S \cup {0}) + 1
  BY DEF NextId
<1> HIDE DEF S
<1>4. NextId(S) \in Nat \ {0}
  BY <1>2, NewId
<1> QED BY <1>3, <1>4 DEF S

LEMMA BeginPosts ==
    ASSUME Base, NEW w \in Workers, NEW u, NEW form, NEW p,
           \/ form \in Forms /\ BeginCreate(w, u, form)
           \/ form \in Forms /\ p \in PostIds /\ BeginEdit(w, u, p, form)
           \/ BeginHook(w),
           UNCHANGED threadVars
    PROVE  Base'
<1> USE NumberOK
<1>1. CASE form \in Forms /\ BeginCreate(w, u, form)
  <2> DEFINE more == [form |-> form, new |-> form.tags \ tag]
  <2>1. Begin(w, "create", "commit", u, NoId, more) /\ UNCHANGED Tables /\ u \in Admins
    BY <1>1 DEF BeginCreate, Tables
  <2>2. form.tags \in SUBSET Tags
    BY <1>1, PostsAssumption DEF Form
  <2>3. more \in [form: Forms, new: SUBSET Tags]
    BY <1>1, <2>2
  <2>4. Job("create", "commit", u, NoId, more) \in CreateJobs
    BY <2>1, <2>3 DEF CreateJobs, Request, Job
  <2> QED BY <2>1, <2>4, BeginBase DEF Jobs
<1>2. CASE form \in Forms /\ p \in PostIds /\ BeginEdit(w, u, p, form)
  <2> DEFINE version == Max({r.version : r \in Revisions(p)} \cup {0}) + 1
             more == [form |-> form, seen |-> post[p], version |-> version]
  <2>1. /\ Begin(w, "edit", "commit", u, p, more) /\ UNCHANGED Tables
        /\ u \in Admins /\ PostExists(p)
    BY <1>2 DEF BeginEdit, Tables
  <2>2. version \in Nat \ {0} /\ post[p] \in PostRow
    BY <1>2, <2>1, RevisionVersion, PostRows DEF Base
  <2>3. more \in [form: Forms, seen: PostRow, version: Nat \ {0}]
    BY <1>2, <2>2
  <2>4. Job("edit", "commit", u, p, more) \in EditJobs
    BY <1>2, <2>1, <2>3 DEF EditJobs, Request, Job
  <2> QED BY <2>1, <2>4, BeginBase DEF Jobs
<1>3. CASE BeginHook(w)
  <2> DEFINE due == {q \in ExistingPosts : Due(post[q])}
             more == [q \in due |-> post[q]]
  <2>1. Begin(w, "hook", "commit", NoUser, NoId, more) /\ UNCHANGED Tables
    BY <1>3 DEF BeginHook, Tables
  <2>2. due \in SUBSET PostIds /\ \A q \in due : post[q] \in PostRow
    BY PostRows DEF Base, ExistingPosts
  <2> HIDE DEF due
  <2>3. more \in [due -> PostRow]
    BY <2>2
  <2>4. more \in UNION {[d -> PostRow] : d \in SUBSET PostIds}
    BY <2>2, <2>3
  <2>5. Job("hook", "commit", NoUser, NoId, more) \in HookJobs
    BY <2>4 DEF HookJobs, Request, Job
  <2> QED BY <2>1, <2>5, BeginBase DEF Jobs
<1> QED BY <1>1, <1>2, <1>3

LEMMA BeginThreads ==
    ASSUME Base, NEW w \in Workers, NEW u \in Users, NEW p, NEW c,
           \/ p \in PostIds /\ BeginComment(w, u, p)
           \/ p \in PostIds /\ c \in CommentIds /\ BeginReply(w, u, p, c)
           \/ p \in PostIds /\ BeginDeletePost(w, u, p)
           \/ c \in CommentIds /\ BeginEditComment(w, u, c)
           \/ c \in CommentIds /\ BeginDeleteComment(w, u, c)
    PROVE  Base'
<1> USE NumberOK
<1>1. CASE p \in PostIds /\ BeginComment(w, u, p)
  <2>1. Begin(w, "comment", "commit", u, p, [parent |-> NoId]) /\ UNCHANGED Tables
    BY <1>1 DEF BeginComment, Tables
  <2>2. Job("comment", "commit", u, p, [parent |-> NoId]) \in CommentJobs
    BY <1>1 DEF CommentJobs, Request, Job
  <2> QED BY <2>1, <2>2, BeginBase DEF Jobs
<1>2. CASE p \in PostIds /\ c \in CommentIds /\ BeginReply(w, u, p, c)
  <2>1. Begin(w, "reply", "commit", u, p, [parent |-> c]) /\ UNCHANGED Tables
    BY <1>2 DEF BeginReply, Tables
  <2>2. Job("reply", "commit", u, p, [parent |-> c]) \in ReplyJobs
    BY <1>2 DEF ReplyJobs, Request, Job
  <2> QED BY <2>1, <2>2, BeginBase DEF Jobs
<1>3. CASE p \in PostIds /\ BeginDeletePost(w, u, p)
  <2>1. Begin(w, "deletePost", "commit", u, p, [comments |-> CommentsOf(p)]) /\ UNCHANGED Tables
    BY <1>3 DEF BeginDeletePost, Tables
  <2>2. CommentsOf(p) \in SUBSET CommentIds
    BY DEF CommentsOf, ExistingComments
  <2>3. Job("deletePost", "commit", u, p, [comments |-> CommentsOf(p)]) \in DeletePostJobs
    BY <1>3, <2>2 DEF DeletePostJobs, Request, Job
  <2> QED BY <2>1, <2>3, BeginBase DEF Jobs
<1>4. CASE c \in CommentIds /\ BeginEditComment(w, u, c)
  <2> DEFINE more == [comment |-> c, row |-> comment[c]]
             q == comment[c].post
  <2>1. /\ Begin(w, "editComment", "commit", u, q, more) /\ UNCHANGED Tables
        /\ CommentExists(c) /\ ~comment[c].deleted
    BY <1>4 DEF BeginEditComment, Tables, MayChange
  <2>2. q \in PostIds /\ comment[c] \in Intact
    BY <1>4, <2>1, CommentRows DEF Base, Intact
  <2>3. more \in [comment: CommentIds, row: Intact]
    BY <1>4, <2>2
  <2> HIDE DEF q, more
  <2>4. Job("editComment", "commit", u, q, more) \in EditCommentJobs
    BY <2>2, <2>3 DEF EditCommentJobs, Request, Job
  <2> QED BY <2>1, <2>4, BeginBase DEF Jobs
<1>5. CASE c \in CommentIds /\ BeginDeleteComment(w, u, c)
  <2>1. Begin(w, "deleteComment", "commit", u, NoId, [comment |-> c]) /\ UNCHANGED Tables
    BY <1>5 DEF BeginDeleteComment, Tables
  <2>2. Job("deleteComment", "commit", u, NoId, [comment |-> c]) \in DeleteCommentJobs
    BY <1>5 DEF DeleteCommentJobs, Request, Job
  <2> QED BY <2>1, <2>2, BeginBase DEF Jobs
<1> QED BY <1>1, <1>2, <1>3, <1>4, <1>5

\* The target of a like
LEMMA TargetRow ==
    ASSUME PostsOK, CommentsOK, NEW t \in Targets
    PROVE  /\ PostTarget(t) => t[2] \in PostIds
           /\ ~PostTarget(t) => t[2] \in CommentIds
           /\ t = IF PostTarget(t) THEN <<"post", t[2]>> ELSE <<"comment", t[2]>>
           /\ TargetExists(t) => /\ TargetPost(t) \in PostIds /\ TargetLikes(t) \in Nat
                                 /\ TargetAuthor(t) \in Users \cup {NoUser}
<1>1. /\ PostTarget(t) => t[2] \in PostIds
      /\ ~PostTarget(t) => t[2] \in CommentIds
      /\ t = IF PostTarget(t) THEN <<"post", t[2]>> ELSE <<"comment", t[2]>>
  BY DEF Targets, PostTarget
<1>2. CASE PostTarget(t)
  BY <1>1, <1>2, PostRows DEF TargetExists, TargetPost, TargetLikes, TargetAuthor
<1>3. CASE ~PostTarget(t)
  BY <1>1, <1>3, CommentRows DEF TargetExists, TargetPost, TargetLikes, TargetAuthor
<1> QED BY <1>1, <1>2, <1>3

LEMMA BeginOthers ==
    ASSUME Base, NEW w \in Workers, NEW u \in Users, NEW t, NEW heir,
           \/ t \in Targets /\ BeginLike(w, u, t)
           \/ heir \in Admins /\ BeginDeleteUser(w, u, heir)
           \/ BeginInitBadges(w, u)
    PROVE  Base'
<1> USE NumberOK
<1>1. CASE t \in Targets /\ BeginLike(w, u, t)
  <2> DEFINE given == {l \in LikesOf(t) : l.by = u}
             q == TargetPost(t)
             likes == TargetLikes(t)
             author == TargetAuthor(t)
             more == [target |-> t, likes |-> likes, author |-> author, given |-> given]
  <2>1. Begin(w, "like", "commit", u, q, more) /\ UNCHANGED Tables /\ TargetExists(t)
    BY <1>1 DEF BeginLike, Tables
  <2>2. q \in PostIds /\ likes \in Nat /\ author \in Users \cup {NoUser}
    BY <1>1, <2>1, TargetRow DEF Base
  <2>3. given \in SUBSET Like
    BY DEF Base, LikesOK, LikesOf
  <2> HIDE DEF q, likes, author, given
  <2>4. more \in [target: Targets, likes: Nat, author: Users \cup {NoUser}, given: SUBSET Like]
    BY <1>1, <2>2, <2>3
  <2> HIDE DEF more
  <2>5. Job("like", "commit", u, q, more) \in LikeJobs
    BY <2>2, <2>4 DEF LikeJobs, Request, Job
  <2> QED BY <2>1, <2>5, BeginBase DEF Jobs
<1>2. CASE heir \in Admins /\ BeginDeleteUser(w, u, heir)
  <2>1. Begin(w, "deleteUser", "commit", u, NoId, [heir |-> heir]) /\ UNCHANGED Tables
    BY <1>2 DEF BeginDeleteUser, Tables
  <2>2. Job("deleteUser", "commit", u, NoId, [heir |-> heir]) \in DeleteUserJobs
    BY <1>2 DEF DeleteUserJobs, Request, Job
  <2> QED BY <2>1, <2>2, BeginBase DEF Jobs
<1>3. CASE BeginInitBadges(w, u)
  <2> DEFINE more == [badge |-> badge, user |-> user]
  <2>1. Begin(w, "initBadges", "commit", u, NoId, more) /\ UNCHANGED Tables
    BY <1>3 DEF BeginInitBadges, Tables
  <2>2. more \in [badge: BadgeTable, user: Accounts] /\ more.badge = badge
    BY DEF Base, BadgesOK, UsersOK
  <2> HIDE DEF more
  <2>3. Job("initBadges", "commit", u, NoId, more) \in InitBadgesJobs
    BY <2>2 DEF InitBadgesJobs, Request, Job
  <2> QED BY <2>1, <2>2, <2>3, BeginBase DEF Jobs
<1> QED BY <1>1, <1>2, <1>3

LEMMA EndBase ==
    ASSUME Base, NEW w \in Workers, End(w), started' = started, badge' = badge, clock' = clock
    PROVE  JobsOK' /\ BadgesOK' /\ clock' \in 0..MaxTime /\ started' \in 0..MaxRequests
<1>1. job' \in [Workers -> Jobs] /\ job'[w] = Idle /\ \A v \in Workers \ {w} : job'[v] = job[v]
  BY EndOK DEF Base, JobsOK
<1>2. BadgesOK'
  BY <1>1, RenamingKept
<1> QED BY <1>1, <1>2 DEF JobsOK, Base, SiteOK

LEMMA NewPostOK ==
    ASSUME NEW u \in Users, NEW form \in Forms, NEW n \in Nat
    PROVE  NewPost(u, form, n) \in PostRow
<1>1. form \in Form
  BY PostsAssumption
<1>2. IsDraft(form) \in BOOLEAN
  BY DEF IsDraft
<1> QED BY <1>1, <1>2 DEF NewPost, PostRow, Form

\* What a form assigns, as a row
LEMMA EditedOK ==
    ASSUME NEW seen \in PostRow, NEW form \in Forms, NEW n \in Nat
    PROVE  /\ Edited(seen, form, n) \in PostRow
           /\ Edited(seen, form, n).author = seen.author
           /\ Edited(seen, form, n).published = form.published
           /\ Edited(seen, form, n).draft = IsDraft(form)
           /\ Edited(seen, form, n).date = form.date
           /\ Edited(seen, form, n).text = n
           /\ Edited(seen, form, n).likes = seen.likes
           /\ Edited(seen, form, n).asked = seen.asked
           /\ Edited(seen, form, n).past = seen.past
<1>1. form.published \in BOOLEAN /\ form.date \in NoDate..MaxTime
  BY PostsAssumption DEF Form
<1>2. IsDraft(form) \in BOOLEAN
  BY DEF IsDraft
<1> QED BY <1>1, <1>2 DEF Edited, PostRow

LEMMA CommitCreateBase ==
    ASSUME Base, NEW w \in Workers, CommitCreate(w), UNCHANGED threadVars
    PROVE  Base'
<1> DEFINE j == job[w]
           p == NextId(ExistingPosts)
<1>1. j \in CreateJobs
  BY JobShape DEF CommitCreate, Base, JobsOK
<1>2. /\ j.by \in Admins /\ j.number \in Nat /\ j.more.form \in Forms /\ j.by \in Users
      /\ j.more.form.tags \in SUBSET Tags /\ j.op = "create"
  BY <1>1, PostsAssumption DEF CreateJobs, Request, Form
<1>3. CASE End(w) /\ UNCHANGED postVars
  <2>1. UNCHANGED Tables /\ started' = started
    BY <1>3 DEF CommitCreate, Tables
  <2> QED BY <1>3, <2>1, EndBase, TablesKept DEF Base, Tables, siteVars, threadVars, SiteOK
<1>4. CASE /\ p \in PostIds
           /\ post' = [post EXCEPT ![p] = NewPost(j.by, j.more.form, j.number)]
           /\ tag' = tag \cup j.more.form.tags
           /\ job' = [job EXCEPT ![w].at = "reward", ![w].post = p]
           /\ UNCHANGED revision
  <2>1. PostsOK'
    <3>1. NewPost(j.by, j.more.form, j.number) \in PostRow
      BY <1>2, NewPostOK
    <3> HIDE DEF p, j
    <3>2. post' \in [PostIds -> PostRow \cup {NoPost}]
      BY <3>1, <1>4 DEF Base, PostsOK
    <3>3. tag' \subseteq Tags
      BY <1>2, <1>4 DEF Base, PostsOK
    <3> QED BY <3>2, <3>3, <1>4 DEF Base, PostsOK
  <2>2. /\ CommentsOK' /\ LikesOK' /\ NoticesOK' /\ UsersOK' /\ SiteOK' /\ badge' = badge
    BY DEF Base, CommitCreate, siteVars, threadVars, CommentsOK, LikesOK, NoticesOK, UsersOK, SiteOK,
       UserExists
  <2>3. job'[w] \in CreatedJobs /\ job'[w].op = "create"
    <3> HIDE DEF p
    <3>1. job'[w] = [j EXCEPT !.at = "reward", !.post = p]
      BY <1>4 DEF Base, JobsOK
    <3>2. p \in PostIds
      BY <1>4
    <3> HIDE DEF j
    <3>3. job'[w] = [op |-> j.op, at |-> "reward", by |-> j.by, number |-> j.number, post |-> p,
                     more |-> j.more]
      BY <3>1, <1>1 DEF CreateJobs, Request
    <3>4. j.op = "create" /\ j.by \in Admins /\ j.number \in Nat /\ j.more \in [form: Forms, new: SUBSET Tags]
      BY <1>1 DEF CreateJobs, Request
    <3> QED BY <3>2, <3>3, <3>4 DEF CreatedJobs, Request
  <2>4. \A v \in Workers \ {w} : job'[v] = job[v]
    BY <1>4 DEF Base, JobsOK
  <2>5. JobsOK'
    <3>1. job'[w] \in Jobs
      BY <2>3 DEF Jobs
    <3>2. job' = [v \in Workers |-> job'[v]]
      BY <1>4 DEF Base, JobsOK
    <3> HIDE DEF p, j
    <3>3. \A v \in Workers : job'[v] \in Jobs
      BY <2>4, <3>1 DEF Base, JobsOK
    <3> QED BY <3>2, <3>3 DEF JobsOK
  <2>6. BadgesOK'
    BY <2>2, <2>3, <2>4, RenamingKept
  <2> QED BY <2>1, <2>2, <2>5, <2>6 DEF Base
<1> QED BY <1>3, <1>4 DEF CommitCreate

LEMMA CommitEditBase ==
    ASSUME Base, NEW w \in Workers, CommitEdit(w), UNCHANGED threadVars
    PROVE  Base'
<1> DEFINE j == job[w]
           p == j.post
           seen == j.more.seen
           new == Edited(seen, j.more.form, j.number)
           row == Merged(post[p], seen, new)
           rev == [post |-> p, version |-> j.more.version, text |-> Archived(seen, row)]
<1>1. j \in EditJobs
  BY JobShape DEF CommitEdit, Base, JobsOK
<1>2. /\ j.number \in Nat /\ j.more.form \in Forms /\ j.more.form \in Form
      /\ p \in PostIds /\ seen \in PostRow /\ j.more.version \in Nat \ {0}
      /\ j.more.form.tags \in SUBSET Tags
  BY <1>1, PostsAssumption DEF EditJobs, Request, Form
<1>3. /\ JobsOK' /\ BadgesOK'
      /\ CommentsOK' /\ LikesOK' /\ NoticesOK' /\ UsersOK'
  <2>1. End(w) /\ started' = started /\ badge' = badge /\ clock' = clock
    BY DEF CommitEdit, siteVars, threadVars
  <2>2. CommentsOK' /\ LikesOK' /\ NoticesOK' /\ UsersOK'
    BY DEF Base, threadVars, CommentsOK, LikesOK, NoticesOK, UsersOK, UserExists
  <2> QED BY <2>1, <2>2, EndBase
<1>4. CASE UNCHANGED <<postVars, overtaken>>
  <2>1. PostsOK' /\ SiteOK'
    BY <1>4 DEF Base, CommitEdit, postVars, siteVars, threadVars, PostsOK, SiteOK
  <2> QED BY <1>3, <2>1 DEF Base
<1>5. CASE /\ PostExists(p)
           /\ post' = [post EXCEPT ![p] = [row EXCEPT !.asked = j.more.form, !.past = @ \cup {j.number}]]
           /\ revision' = revision \cup {rev}
           /\ tag' = tag \cup j.more.form.tags
           /\ overtaken' = (overtaken \/ post[p].text # seen.text
                                      \/ post[p].published # seen.published)
  <2>1. row \in PostRow
    BY <1>2, <1>5, EditedOK, PostRows, MergedPost DEF Base
  <2>2. post' \in [PostIds -> PostRow \cup {NoPost}]
    <3> HIDE DEF j, p, seen, new, row, rev
    <3> DEFINE past == row.past \cup {j.number}
    <3>1. past \in SUBSET Nat
      BY <2>1, <1>2 DEF PostRow
    <3>2. [row EXCEPT !.asked = j.more.form, !.past = @ \cup {j.number}]
             = [row EXCEPT !.asked = j.more.form, !.past = past]
      OBVIOUS
    <3> HIDE DEF past
    <3>3. [row EXCEPT !.asked = j.more.form, !.past = past] \in PostRow
      BY <2>1, <3>1, <1>2 DEF PostRow
    <3> QED BY <1>5, <3>2, <3>3 DEF Base, PostsOK
  <2>3. rev \in Revision
    <3>1. seen.text \in Nat
      BY <1>2 DEF PostRow
    <3> QED BY <1>2, <3>1 DEF Revision, Archived
  <2>4. revision' \subseteq Revision /\ IsFiniteSet(revision') /\ Bounded({r.version : r \in revision'})
    <3>1. rev.version \in Nat
      BY <2>3 DEF Revision
    <3> HIDE DEF j, p, seen, new, row, rev
    <3>2. revision' \subseteq Revision
      BY <2>3, <1>5 DEF Base, PostsOK
    <3>3. IsFiniteSet(revision')
      BY <1>5, FS_AddElement DEF Base, PostsOK
    <3>4. PICK b \in Nat : \A n \in {r.version : r \in revision} : n <= b
      BY DEF Base, PostsOK, Bounded
    <3>5. \E b2 \in Nat : b <= b2 /\ rev.version <= b2
      BY <3>1
    <3>6. PICK b2 \in Nat : b <= b2 /\ rev.version <= b2
      BY <3>5
    <3>7. \A r \in revision' : r.version \in Nat
      BY <3>2 DEF Revision
    <3>8. \A r \in revision' : r.version <= b2
      BY <1>5, <3>4, <3>6, <3>7
    <3> QED BY <3>2, <3>3, <3>8 DEF Bounded
  <2>5. tag' \subseteq Tags
    BY <1>2, <1>5, Zenon DEF Base, PostsOK
  <2>6. SiteOK'
    BY <1>5 DEF Base, CommitEdit, siteVars, threadVars, SiteOK
  <2> QED BY <1>3, <2>2, <2>4, <2>5, <2>6, Zenon DEF Base, PostsOK
<1> QED BY <1>4, <1>5 DEF CommitEdit

\* One request goes on
LEMMA Advance ==
    ASSUME Base, NEW w \in Workers, NEW x \in Jobs, job' = [job EXCEPT ![w] = x]
    PROVE  JobsOK' /\ job'[w] = x /\ \A v \in Workers \ {w} : job'[v] = job[v]
BY DEF Base, JobsOK

LEMMA PublishedOK ==
    ASSUME NEW seen \in PostRow
    PROVE  LET new == [seen EXCEPT !.published = TRUE, !.draft = FALSE] IN
             /\ new \in PostRow /\ new.published /\ ~new.draft
             /\ new.author = seen.author /\ new.date = seen.date /\ new.text = seen.text
             /\ new.likes = seen.likes /\ new.asked = seen.asked /\ new.past = seen.past
BY DEF PostRow

LEMMA CommitHookBase ==
    ASSUME Base, NEW w \in Workers, CommitHook(w), UNCHANGED threadVars
    PROVE  Base'
<1> DEFINE seen == job[w].more
           due == DOMAIN seen
           New(p) == [seen[p] EXCEPT !.published = TRUE, !.draft = FALSE]
<1>1. job[w] \in HookJobs
  BY JobShape, Zenon DEF CommitHook, Base, JobsOK
<1>2. due \in SUBSET PostIds /\ \A p \in due : seen[p] \in PostRow
  BY <1>1 DEF HookJobs, Request
<1>3. /\ JobsOK' /\ BadgesOK'
      /\ CommentsOK' /\ LikesOK' /\ NoticesOK' /\ UsersOK'
  <2>1. End(w) /\ started' = started /\ badge' = badge /\ clock' = clock
    BY Zenon DEF CommitHook, siteVars, threadVars
  <2>2. CommentsOK' /\ LikesOK' /\ NoticesOK' /\ UsersOK'
    BY DEF Base, threadVars, CommentsOK, LikesOK, NoticesOK, UsersOK, UserExists
  <2> QED BY <2>1, <2>2, EndBase
<1>4. CASE UNCHANGED <<post, overtaken>>
  <2>1. PostsOK' /\ SiteOK'
    BY <1>4, Zenon DEF Base, CommitHook, siteVars, threadVars, PostsOK, SiteOK
  <2> QED BY <1>3, <2>1 DEF Base
<1>5. CASE /\ due \subseteq ExistingPosts
           /\ post' = [p \in PostIds |-> IF p \notin due THEN post[p] ELSE Merged(post[p], seen[p], New(p))]
           /\ overtaken' = (overtaken \/ \E p \in due : post[p].text # seen[p].text)
  <2>1. \A p \in due : Merged(post[p], seen[p], New(p)) \in PostRow
    <3> SUFFICES ASSUME NEW p \in due PROVE Merged(post[p], seen[p], New(p)) \in PostRow
      BY Zenon
    <3>1. seen[p] \in PostRow /\ p \in PostIds /\ PostExists(p)
      BY <1>2, <1>5, Zenon DEF ExistingPosts
    <3>2. New(p) \in PostRow /\ post[p] \in PostRow
      BY <3>1, PublishedOK, PostRows DEF Base
    <3> HIDE DEF New, seen
    <3> QED BY <3>1, <3>2, MergedPost
  <2>2. post' \in [PostIds -> PostRow \cup {NoPost}]
    <3> HIDE DEF New, seen
    <3> QED BY <2>1, <1>5 DEF Base, PostsOK
  <2>3. SiteOK' /\ UNCHANGED <<revision, tag>>
    BY <1>5, Zenon DEF Base, CommitHook, siteVars, threadVars, SiteOK
  <2> QED BY <1>3, <2>2, <2>3 DEF Base, PostsOK
<1> QED BY <1>4, <1>5, Zenon DEF CommitHook

LEMMA TickBase ==
    ASSUME Base, Tick, UNCHANGED threadVars
    PROVE  Base'
<1>1. clock' \in 0..MaxTime
  BY PostsAssumption DEF Tick, Base, SiteOK
<1>2. PostsOK' /\ CommentsOK' /\ LikesOK' /\ NoticesOK' /\ UsersOK' /\ SiteOK'
  BY <1>1 DEF Base, Tick, postVars, threadVars, PostsOK, CommentsOK, LikesOK, NoticesOK, UsersOK, SiteOK,
     UserExists
<1>3. JobsOK' /\ BadgesOK'
  BY DEF Base, Tick, threadVars, JobsOK, BadgesOK, Renaming
<1> QED BY <1>2, <1>3 DEF Base

LEMMA InsertBase ==
    ASSUME Base, NEW w \in Workers, Insert(w)
    PROVE  Base'
<1> DEFINE j == job[w]
           c == NextId(ExistingComments)
           stray == \/ ~UserExists(j.by) \/ ~PostExists(j.post)
                    \/ j.more.parent # NoId /\ comment[j.more.parent].post # j.post
           row == [uid |-> j.number, post |-> j.post, author |-> j.by, parent |-> j.more.parent,
                   deleted |-> FALSE, text |-> "written", likes |-> 0, stray |-> stray]
           more == [parent |-> j.more.parent, comment |-> c]
           next == [op |-> j.op, at |-> "reward", by |-> j.by, number |-> j.number, post |-> j.post,
                    more |-> more]
<1>1. j \in CommentJobs \/ j \in ReplyJobs
  BY JobShape DEF Insert, Base, JobsOK
<1>2. /\ j.op \in {"comment", "reply"} /\ j.by \in Users /\ j.number \in Nat /\ j.post \in PostIds
      /\ j.more.parent \in CommentIds \cup {NoId}
  BY <1>1 DEF CommentJobs, ReplyJobs, Request
<1>3. c \in CommentIds /\ comment' = [comment EXCEPT ![c] = row]
  BY DEF Insert
<1>4. UNCHANGED <<postVars, siteVars, started, overtaken, like, notice, user, badge, erased>>
  BY DEF Insert
<1>5. CommentsOK'
  <2> HIDE DEF stray, j, c
  <2>1. stray \in BOOLEAN
    BY DEF stray
  <2>2. row \in CommentRow
    BY <1>2, <2>1 DEF CommentRow
  <2> HIDE DEF row
  <2> QED BY <1>3, <2>2 DEF Base, CommentsOK
<1>6. next \in InsertedJobs
  <2>1. \/ j.op = "comment" /\ j.more.parent \in {NoId}
        \/ j.op = "reply" /\ j.more.parent \in CommentIds
    <3>1. CASE j \in CommentJobs
      <4>1. j.op \in {"comment"} /\ j.more \in [parent: {NoId}]
        BY <3>1 DEF CommentJobs, Request
      <4> QED BY <4>1
    <3>2. CASE j \in ReplyJobs
      <4>1. j.op \in {"reply"} /\ j.more \in [parent: CommentIds]
        BY <3>2 DEF ReplyJobs, Request
      <4> QED BY <4>1
    <3> QED BY <1>1, <3>1, <3>2
  <2> HIDE DEF j, c
  <2>2. CASE j.op = "comment" /\ j.more.parent \in {NoId}
    <3>1. more \in [parent: {NoId}, comment: CommentIds]
      BY <2>2, <1>3
    <3> HIDE DEF more
    <3> QED BY <1>2, <2>2, <3>1 DEF InsertedJobs, Request
  <2>3. CASE j.op = "reply" /\ j.more.parent \in CommentIds
    <3>1. more \in [parent: CommentIds, comment: CommentIds]
      BY <2>3, <1>3
    <3> HIDE DEF more
    <3> QED BY <1>2, <2>3, <3>1 DEF InsertedJobs, Request
  <2> QED BY <2>1, <2>2, <2>3
<1>7. job' = [job EXCEPT ![w] = next]
  <2> DEFINE moved == [j EXCEPT !.at = "reward", !.more = more]
  <2>1. job' = [job EXCEPT ![w] = moved]
    BY DEF Insert, Base, JobsOK
  <2>2. moved = next
    <3> HIDE DEF more, j
    <3>1. j = [op |-> j.op, at |-> j.at, by |-> j.by, number |-> j.number, post |-> j.post, more |-> j.more]
      BY <1>1 DEF CommentJobs, ReplyJobs, Request
    <3> QED BY <3>1, RequestMoved
  <2> QED BY <2>1, <2>2
<1> HIDE DEF next
<1>8. JobsOK' /\ job'[w] = next /\ \A v \in Workers \ {w} : job'[v] = job[v]
  BY <1>6, <1>7, Advance DEF Jobs
<1>9. BadgesOK'
  <2>1. job'[w].op # "initBadges"
    BY <1>6, <1>8 DEF InsertedJobs, Request
  <2> QED BY <1>4, <1>8, <2>1, RenamingKept
<1>10. PostsOK' /\ LikesOK' /\ NoticesOK' /\ UsersOK' /\ SiteOK'
  BY <1>4 DEF Base, postVars, siteVars, PostsOK, LikesOK, NoticesOK, UsersOK, SiteOK, UserExists
<1> QED BY <1>5, <1>8, <1>9, <1>10 DEF Base

LEMMA LoadRewardBase ==
    ASSUME Base, NEW w \in Workers, LoadReward(w)
    PROVE  Base'
<1> DEFINE j == job[w]
           to == Addressee(j)
           news == IF ~(j.op \in {"comment", "reply"} /\ to \notin {j.by, NoUser}) THEN {}
                   ELSE {News(to, j.op, j.post, j.more.comment)}
           more == [row |-> user[j.by], news |-> news]
           next == [op |-> j.op, at |-> "award", by |-> j.by, number |-> j.number, post |-> j.post,
                    more |-> more]
<1>1. j \in CreatedJobs \/ j \in InsertedJobs
  BY JobShape DEF LoadReward, Base, JobsOK
<1>2. /\ j.op \in {"create", "comment", "reply"} /\ j.by \in Users /\ j.number \in Nat /\ j.post \in PostIds
      /\ j.op # "create" => /\ j.op \in {"comment", "reply"} /\ j.more.comment \in CommentIds
      /\ j.op = "reply" => j.more.parent \in CommentIds
  BY <1>1, PostsAssumption DEF CreatedJobs, InsertedJobs, Request
<1>3. UNCHANGED Tables /\ started' = started
  BY DEF LoadReward, Tables
<1>4. CASE End(w)
  BY <1>3, <1>4, EndBase, TablesKept DEF Base, Tables, siteVars, threadVars, SiteOK
<1>5. CASE /\ UserExists(j.by) /\ (j.op = "comment" => PostExists(j.post))
           /\ j.op = "reply" => CommentExists(j.more.parent)
           /\ job' = [job EXCEPT ![w].at = "award", ![w].more = more]
  <2>1. news \in {{}} \cup {{n} : n \in NewsRow}
    <3>1. CASE ~(j.op \in {"comment", "reply"} /\ to \notin {j.by, NoUser})
      BY <3>1
    <3>2. CASE j.op \in {"comment", "reply"} /\ to \notin {j.by, NoUser}
      <4>1. to \in Users
        <5>1. CASE j.op = "comment"
          BY <5>1, <1>2, <1>5, PostRows DEF Addressee, Base
        <5>2. CASE j.op = "reply"
          <6>1. j.more.parent \in CommentIds
            BY <1>2, <5>2
          <6> QED BY <6>1, <3>2, <5>2, <1>2, <1>5, CommentRows DEF Addressee, Base
        <5> QED BY <3>2, <5>1, <5>2
      <4>2. News(to, j.op, j.post, j.more.comment) \in NewsRow
        <5> HIDE DEF to, j
        <5> QED BY <4>1, <3>2, <1>2 DEF News, NewsRow
      <4> QED BY <3>2, <4>2
    <3> QED BY <3>1, <3>2
  <2>2. user[j.by] \in UserRow
    BY <1>2, UserRows DEF Base
  <2> HIDE DEF news
  <2>3. next \in AwardJobs
    <3>1. more \in [row: UserRow, news: {{}} \cup {{n} : n \in NewsRow}]
      BY <2>1, <2>2
    <3> HIDE DEF more, j
    <3> QED BY <1>2, <3>1 DEF AwardJobs, Request
  <2>4. job' = [job EXCEPT ![w] = next]
    <3> DEFINE moved == [j EXCEPT !.at = "award", !.more = more]
    <3>1. job' = [job EXCEPT ![w] = moved]
      BY <1>5 DEF Base, JobsOK
    <3>2. moved = next
      <4> HIDE DEF more, j
      <4>1. j = [op |-> j.op, at |-> j.at, by |-> j.by, number |-> j.number, post |-> j.post, more |-> j.more]
        BY <1>1 DEF CreatedJobs, InsertedJobs, Request
      <4> QED BY <4>1, RequestMoved
    <3> QED BY <3>1, <3>2
  <2> HIDE DEF next
  <2>5. JobsOK' /\ job'[w] = next /\ \A v \in Workers \ {w} : job'[v] = job[v]
    BY <2>3, <2>4, Advance DEF Jobs
  <2>6. BadgesOK'
    <3>1. job'[w].op # "initBadges" /\ badge' = badge
      BY <1>3, <2>3, <2>5 DEF AwardJobs, Request, Tables, threadVars
    <3> QED BY <2>5, <3>1, RenamingKept
  <2>7. PostsOK' /\ CommentsOK' /\ LikesOK' /\ NoticesOK' /\ UsersOK' /\ SiteOK'
    <3>1. started' \in 0..MaxRequests
      BY <1>3 DEF Base, SiteOK
    <3> QED BY <1>3, <3>1, TablesKept
  <2> QED BY <2>5, <2>6, <2>7 DEF Base
<1> QED BY <1>4, <1>5 DEF LoadReward

\* The row for a piece of news
LEMMA NewNoticeOK ==
    ASSUME NEW id \in Nat \ {0}, NEW n,
           n.to \in Users, n.type \in {"comment", "reply", "like", "badge"},
           n.post \in PostIds \cup {NoId}, n.comment \in CommentIds \cup {NoId}
    PROVE  /\ NewNotice(id, n) \in Notice
           /\ NewNotice(id, n).id = id /\ NewNotice(id, n).to = n.to /\ NewNotice(id, n).type = n.type
           /\ NewNotice(id, n).post = n.post /\ NewNotice(id, n).comment = n.comment
           /\ ~NewNotice(id, n).read /\ NewNotice(id, n).stray = Dangles(n)
<1>1. Dangles(n) \in BOOLEAN
  BY DEF Dangles
<1> QED BY <1>1 DEF NewNotice, Notice

LEMMA NextNoticeOK ==
    ASSUME NoticesOK
    PROVE  NextNotice \in Nat \ {0} /\ \A n \in notice : n.id < NextNotice
<1> DEFINE S == {n.id : n \in notice}
<1>1. PICK b \in Nat : \A x \in S : x <= b
  BY DEF NoticesOK, Bounded
<1>2. S \in SUBSET Nat
  BY DEF NoticesOK, Notice
<1> HIDE DEF S
<1>3. NextId(S) \in Nat \ {0} /\ \A x \in S : x < NextId(S)
  BY <1>1, <1>2, NewId
<1> QED BY <1>3 DEF NextNotice, S

LEMMA NoticesAdded ==
    ASSUME NoticesOK, NEW N \in SUBSET Notice, IsFiniteSet(N),
           \A n \in N : n.id \in NextNotice..(NextNotice + 1),
           \A m, n \in N : m.id = n.id => m = n,
           notice' = notice \cup N
    PROVE  NoticesOK'
<1>1. NextNotice \in Nat \ {0} /\ \A n \in notice : n.id < NextNotice /\ n.id \in Nat
  BY NextNoticeOK DEF NoticesOK, Notice
<1>2. notice' \subseteq Notice /\ IsFiniteSet(notice')
  BY FS_Union DEF NoticesOK
<1>3. \A n \in notice' : n.id <= NextNotice + 1
  BY <1>1
<1>4. \A m, n \in notice' : m.id = n.id => m = n
  BY <1>1 DEF NoticesOK
<1>5. Bounded({n.id : n \in notice'})
  BY <1>1, <1>3 DEF Bounded
<1> QED BY <1>2, <1>4, <1>5 DEF NoticesOK

\* A reward writes its points, and the badge, on the row of the author
LEMMA RewardRow ==
    ASSUME Base, NEW w \in Workers, job[w] # Idle, job[w].at = "award"
    PROVE  LET j == job[w]
               row == Awarded(Granted(j.more.row, Points(j.op)), j.by)
           IN  /\ j \in AwardJobs /\ j.by \in Users /\ j.more.row \in UserRow
               /\ row \in UserRow /\ row.level # 0
               /\ row.granted >= j.more.row.granted
               /\ row.xp - j.more.row.xp = row.granted - j.more.row.granted
               /\ \/ row.awards = j.more.row.awards /\ row.badges = j.more.row.badges
                  \/ /\ ~(badge \subseteq j.more.row.badges)
                     /\ row.badges = j.more.row.badges \cup badge
                     /\ row.awards = j.more.row.awards + 1
<1> DEFINE j == job[w]
           seen == j.more.row
           g == Granted(seen, Points(j.op))
           row == Awarded(g, j.by)
<1>1. j \in AwardJobs
  BY JobShape DEF Base, JobsOK
<1>2. j.op \in {"create", "comment", "reply"} /\ j.by \in Users /\ seen \in UserRow
  BY <1>1 DEF AwardJobs, Request
<1>3. Points(j.op) \in Nat
  BY <1>2 DEF Points
<1> HIDE DEF j, seen
<1>4. /\ g \in UserRow /\ g.xp = seen.xp + Points(j.op) /\ g.level # 0 /\ g.badges = seen.badges
      /\ g.granted = seen.granted + Points(j.op) /\ g.awards = seen.awards
  BY <1>2, <1>3, GrantedOK
<1>5. badge \in SUBSET BadgeNames
  BY DEF Base, BadgesOK, BadgeTable, BadgeNames
<1> HIDE DEF g
<1>6. /\ row \in UserRow /\ row.level # 0
      /\ \/ row = g
         \/ /\ ~(badge \subseteq g.badges) /\ row.badges = g.badges \cup badge
            /\ row.awards = g.awards + 1
            /\ row.xp - g.xp = row.granted - g.granted /\ row.granted >= g.granted
  BY <1>4, <1>5, AwardedOK
<1> HIDE DEF row
<1>7. /\ seen.xp \in Nat /\ seen.granted \in Nat /\ g.xp \in Nat /\ g.granted \in Nat
      /\ row.xp \in Nat /\ row.granted \in Nat
  BY <1>2, <1>4, <1>6 DEF UserRow
<1>8. row.granted >= seen.granted /\ row.xp - seen.xp = row.granted - seen.granted
  <2>1. row.xp - g.xp = row.granted - g.granted /\ row.granted >= g.granted
    BY <1>6, <1>7
  <2> QED BY <2>1, <1>3, <1>4, <1>7
<1>9. \/ row.awards = seen.awards /\ row.badges = seen.badges
      \/ /\ ~(badge \subseteq seen.badges) /\ row.badges = seen.badges \cup badge
         /\ row.awards = seen.awards + 1
  BY <1>4, <1>6
<1> QED BY <1>1, <1>2, <1>6, <1>8, <1>9, Zenon DEF row, g, seen, j

\* The notices that go with a reward
RewardNews(w) ==
    LET j == job[w]
        row == Awarded(Granted(j.more.row, Points(j.op)), j.by)
        told == {NewNotice(NextNotice, n) : n \in j.more.news}
    IN  told \cup (IF row.awards > j.more.row.awards
                   THEN {NewNotice(NextNotice + Cardinality(told), News(j.by, "badge", NoId, NoId))}
                   ELSE {})

LEMMA RewardNewsOK ==
    ASSUME Base, NEW w \in Workers, job[w] # Idle, job[w].at = "award"
    PROVE  /\ RewardNews(w) \in SUBSET Notice /\ IsFiniteSet(RewardNews(w))
           /\ \A n \in RewardNews(w) : n.id \in NextNotice..(NextNotice + 1)
           /\ \A m, n \in RewardNews(w) : m.id = n.id => m = n
           /\ \A n \in RewardNews(w) : n.type # "like" /\ (Dangles(n) <=> n.stray)
<1> DEFINE j == job[w]
           told == {NewNotice(NextNotice, n) : n \in j.more.news}
           news == News(j.by, "badge", NoId, NoId)
           won == NewNotice(NextNotice + Cardinality(told), news)
<1>1. NextNotice \in Nat \ {0}
  BY NextNoticeOK DEF Base
<1>2. j \in AwardJobs
  BY JobShape DEF Base, JobsOK
<1>3. j.by \in Users /\ j.more.news \in {{}} \cup {{n} : n \in NewsRow}
  BY <1>2 DEF AwardJobs, Request
<1>4. /\ told \in SUBSET Notice /\ IsFiniteSet(told)
      /\ told = {} \/ \E x : told = {x}
      /\ \A n \in told : n.id = NextNotice /\ n.type # "like" /\ (Dangles(n) <=> n.stray)
  <2>1. CASE j.more.news = {}
    <3>1. told = {}
      BY <2>1
    <3> QED BY <3>1, FS_EmptySet
  <2>2. CASE \E n \in NewsRow : j.more.news = {n}
    <3>1. PICK n \in NewsRow : j.more.news = {n}
      BY <2>2
    <3> DEFINE x == NewNotice(NextNotice, n)
    <3>2. told = {x}
      BY <3>1
    <3>3. /\ n.to \in Users /\ n.type \in {"comment", "reply"}
          /\ n.post \in PostIds \cup {NoId} /\ n.comment \in CommentIds \cup {NoId}
      BY DEF NewsRow
    <3>4. /\ x \in Notice /\ x.id = NextNotice /\ x.to = n.to /\ x.type = n.type /\ x.post = n.post
          /\ x.comment = n.comment /\ x.stray = Dangles(n)
      BY <1>1, <3>3, NewNoticeOK
    <3> HIDE DEF x
    <3>5. Dangles(x) <=> Dangles(n)
      BY <3>4 DEF Dangles
    <3> HIDE DEF told
    <3> QED BY <3>2, <3>3, <3>4, <3>5, FS_Singleton
  <2> QED BY <1>3, <2>1, <2>2
<1> HIDE DEF told
<1>5. Cardinality(told) \in 0..1 /\ (told # {} => Cardinality(told) = 1)
  <2>1. CASE told = {}
    BY <2>1, FS_EmptySet
  <2>2. CASE told # {}
    <3>1. PICK x : told = {x}
      BY <1>4, <2>2
    <3>2. Cardinality({x}) = 1
      BY FS_Singleton
    <3>3. Cardinality(told) = 1
      BY <3>1, <3>2
    <3> QED BY <3>3
  <2> QED BY <2>1, <2>2
<1>6. /\ won \in Notice /\ won.id = NextNotice + Cardinality(told)
      /\ won.type # "like" /\ (Dangles(won) <=> won.stray)
  <2>1. /\ news.to = j.by /\ news.type = "badge" /\ news.post = NoId /\ news.comment = NoId
    BY DEF News
  <2>2. NextNotice + Cardinality(told) \in Nat \ {0}
    BY <1>1, <1>5
  <2> HIDE DEF news
  <2>3. /\ won \in Notice /\ won.id = NextNotice + Cardinality(told)
        /\ won.to = news.to /\ won.type = news.type /\ won.post = news.post
        /\ won.comment = news.comment /\ won.stray = Dangles(news)
    BY <1>3, <2>1, <2>2, NewNoticeOK
  <2> HIDE DEF won
  <2>4. Dangles(won) <=> Dangles(news)
    BY <2>3 DEF Dangles
  <2> QED BY <2>1, <2>3, <2>4
<1>7. RewardNews(w) = told \/ RewardNews(w) = told \cup {won}
  BY DEF RewardNews, told
<1> HIDE DEF won
<1>8. IsFiniteSet(told \cup {won})
  BY <1>4, FS_AddElement
<1>9. \A n \in told \cup {won} : n.id \in NextNotice..(NextNotice + 1)
  BY <1>1, <1>4, <1>5, <1>6
<1>10. \A m, n \in told \cup {won} : m.id = n.id => m = n
  BY <1>1, <1>4, <1>5, <1>6
<1> QED BY <1>4, <1>6, <1>7, <1>8, <1>9, <1>10

LEMMA CommitRewardBase ==
    ASSUME Base, NEW w \in Workers, CommitReward(w)
    PROVE  Base'
<1> DEFINE j == job[w]
           row == Awarded(Granted(j.more.row, Points(j.op)), j.by)
<1>1. job[w] # Idle /\ job[w].at = "award" /\ End(w)
  BY DEF CommitReward
<1>2. UNCHANGED <<postVars, siteVars, started, comment, like, badge, erased>>
  BY DEF CommitReward
<1>3. CASE UNCHANGED <<user, notice, overtaken>>
  BY <1>1, <1>2, <1>3, EndBase, TablesKept DEF Base, Tables, siteVars, threadVars, SiteOK
<1>4. CASE /\ UserExists(j.by)
           /\ user' = [user EXCEPT ![j.by] = Rewritten(@, j.more.row, row)]
           /\ overtaken' = (overtaken \/ Columns(user[j.by]) # Columns(j.more.row))
           /\ notice' = notice \cup RewardNews(w)
  <2>1. NoticesOK'
    BY <1>1, <1>4, RewardNewsOK, NoticesAdded DEF Base
  <2>2. UsersOK'
    <3>1. /\ j.by \in Users /\ j.more.row \in UserRow /\ row \in UserRow /\ row.level # 0
          /\ row.granted >= j.more.row.granted /\ row.awards >= j.more.row.awards
      <4>1. j.more.row.awards \in Nat
        BY <1>1, RewardRow DEF UserRow
      <4> QED BY <1>1, <4>1, RewardRow
    <3>2. user[j.by] \in UserRow /\ user[j.by].level # 0
      BY <1>4, <3>1, UserRows DEF Base
    <3> DEFINE new == Rewritten(user[j.by], j.more.row, row)
    <3> HIDE DEF row, j
    <3>3. new \in UserRow /\ new.level = IF row.level # j.more.row.level THEN row.level ELSE user[j.by].level
      BY <3>1, <3>2, RewrittenUser
    <3>4. user' = [user EXCEPT ![j.by] = new] /\ new.level # 0
      BY <1>4, <3>1, <3>2, <3>3
    <3> HIDE DEF new
    <3> QED BY <3>1, <3>3, <3>4 DEF Base, UsersOK, Accounts, UserExists
  <2>3. PostsOK' /\ CommentsOK' /\ LikesOK' /\ SiteOK'
    BY <1>2, <1>4 DEF Base, postVars, siteVars, PostsOK, CommentsOK, LikesOK, SiteOK
  <2> QED BY <1>1, <1>2, <2>1, <2>2, <2>3, EndBase DEF Base, siteVars
<1> QED BY <1>3, <1>4 DEF CommitReward, RewardNews

LEMMA CommitEditCommentBase ==
    ASSUME Base, NEW w \in Workers, CommitEditComment(w)
    PROVE  Base'
<1> DEFINE c == job[w].more.comment
<1>1. c \in CommentIds
  <2>1. job[w] \in EditCommentJobs
    BY JobShape DEF CommitEditComment, Base, JobsOK
  <2> QED BY <2>1 DEF EditCommentJobs, Request
<1>2. End(w) /\ UNCHANGED <<postVars, siteVars, started, like, notice, user, badge, erased>>
  BY DEF CommitEditComment
<1>3. /\ comment' = comment \/ (CommentExists(c) /\ comment' = [comment EXCEPT ![c].text = "edited"])
      /\ overtaken' \in BOOLEAN
  BY DEF CommitEditComment, Base, SiteOK
<1>4. CommentsOK'
  <2>1. CASE comment' = comment
    BY <2>1 DEF Base, CommentsOK
  <2>2. CASE CommentExists(c) /\ comment' = [comment EXCEPT ![c].text = "edited"]
    <3> DEFINE row == comment[c]
               new == [row EXCEPT !.text = "edited"]
    <3>1. row \in CommentRow
      BY <1>1, <2>2, CommentRows DEF Base
    <3>2. new \in CommentRow
      BY <3>1 DEF CommentRow
    <3>3. comment' = [comment EXCEPT ![c] = new]
      BY <1>1, <2>2 DEF Base, CommentsOK
    <3> HIDE DEF new, c
    <3> QED BY <3>2, <3>3 DEF Base, CommentsOK
  <2> QED BY <1>3, <2>1, <2>2
<1>5. PostsOK' /\ LikesOK' /\ NoticesOK' /\ UsersOK' /\ SiteOK'
  BY <1>2, <1>3 DEF Base, postVars, siteVars, PostsOK, LikesOK, NoticesOK, UsersOK, SiteOK, UserExists
<1> QED BY <1>2, <1>4, <1>5, EndBase DEF Base, siteVars

LEMMA LikesTaken ==
    ASSUME LikesOK, like' \subseteq like
    PROVE  LikesOK'
<1>1. IsFiniteSet(like')
  BY FS_Subset DEF LikesOK
<1>2. PICK b \in Nat : \A n \in {l.id : l \in like} : n <= b
  BY DEF LikesOK, Bounded
<1>3. \A n \in {l.id : l \in like'} : n <= b
  BY <1>2
<1> QED BY <1>1, <1>3 DEF LikesOK, Bounded

LEMMA NoticesTaken ==
    ASSUME NoticesOK, notice' \subseteq notice
    PROVE  NoticesOK'
<1>1. IsFiniteSet(notice')
  BY FS_Subset DEF NoticesOK
<1>2. PICK b \in Nat : \A n \in {m.id : m \in notice} : n <= b
  BY DEF NoticesOK, Bounded
<1>3. \A n \in {m.id : m \in notice'} : n <= b
  BY <1>2
<1> QED BY <1>1, <1>3 DEF NoticesOK, Bounded

LEMMA UsersKept ==
    ASSUME UsersOK, NEW likes, IsFiniteSet(likes), user' = Kept(user, likes)
    PROVE  UsersOK' /\ \A u \in Users : UserExists(u)' <=> UserExists(u)
<1>1. \A u \in Users : UserExists(u)' <=> user'[u] # Gone
  BY DEF UserExists
<1>2. \A u \in Users : UserExists(u)' <=> UserExists(u)
  BY <1>1, KeptOK
<1>3. \A u \in Users : UserExists(u) => user[u].level # 0
  BY DEF UsersOK
<1> QED BY <1>2, <1>3, KeptOK DEF UsersOK

LEMMA CommitDeleteCommentBase ==
    ASSUME Base, NEW w \in Workers, CommitDeleteComment(w)
    PROVE  Base'
<1> DEFINE c == job[w].more.comment
           likes == LikesOf(<<"comment", c>>)
<1>1. c \in CommentIds
  <2>1. job[w] \in DeleteCommentJobs
    BY JobShape DEF CommitDeleteComment, Base, JobsOK
  <2> QED BY <2>1 DEF DeleteCommentJobs, Request
<1>2. End(w) /\ UNCHANGED <<postVars, siteVars, started, overtaken, badge, erased>>
  BY DEF CommitDeleteComment
<1>3. PostsOK' /\ SiteOK'
  BY <1>2 DEF Base, postVars, siteVars, PostsOK, SiteOK
<1>4. CASE UNCHANGED <<comment, like, user, notice>>
  BY <1>2, <1>3, <1>4, EndBase, TablesKept DEF Base, Tables, siteVars, threadVars
<1>5. CASE /\ \/ CommentExists(c) /\ comment' = [comment EXCEPT ![c].deleted = TRUE, ![c].text = "erased"]
              \/ comment' = [comment EXCEPT ![c] = NoComment]
           /\ like' = like \ likes /\ user' = Kept(user, likes)
           /\ notice' = notice \/ notice' = {n \in notice : n.comment # c}
  <2>1. CommentsOK'
    <3>1. CASE CommentExists(c) /\ comment' = [comment EXCEPT ![c].deleted = TRUE, ![c].text = "erased"]
      <4> DEFINE row == comment[c]
                 new == [row EXCEPT !.deleted = TRUE, !.text = "erased"]
      <4>1. row \in CommentRow
        BY <1>1, <3>1, CommentRows DEF Base
      <4>2. new \in CommentRow
        BY <4>1 DEF CommentRow
      <4>3. comment' = [comment EXCEPT ![c] = new]
        BY <1>1, <3>1 DEF Base, CommentsOK
      <4> HIDE DEF new, c
      <4> QED BY <4>2, <4>3 DEF Base, CommentsOK
    <3>2. CASE comment' = [comment EXCEPT ![c] = NoComment]
      <4> HIDE DEF c
      <4> QED BY <3>2 DEF Base, CommentsOK
    <3> QED BY <1>5, <3>1, <3>2
  <2>2. LikesOK' /\ NoticesOK'
    BY <1>5, LikesTaken, NoticesTaken DEF Base
  <2>3. UsersOK'
    <3>1. IsFiniteSet(likes)
      BY FS_Subset DEF Base, LikesOK, LikesOf
    <3> HIDE DEF likes
    <3> QED BY <1>5, <3>1, UsersKept DEF Base
  <2> QED BY <1>2, <1>3, <2>1, <2>2, <2>3, EndBase DEF Base, siteVars
<1> QED BY <1>4, <1>5 DEF CommitDeleteComment

LEMMA NoticesChanged ==
    ASSUME NoticesOK, NEW f \in [notice -> Notice], \A n \in notice : f[n].id = n.id,
           notice' = {f[n] : n \in notice}
    PROVE  NoticesOK'
<1>1. IsFiniteSet(notice')
  <2>1. f \in Surjection(notice, notice')
    BY DEF Surjection
  <2> QED BY <2>1, FS_Surjection DEF NoticesOK
<1>2. \A m, n \in notice' : m.id = n.id => m = n
  BY DEF NoticesOK
<1>3. PICK b \in Nat : \A n \in {m.id : m \in notice} : n <= b
  BY DEF NoticesOK, Bounded
<1>4. \A n \in {m.id : m \in notice'} : n <= b
  BY <1>3
<1>5. notice' \subseteq Notice
  OBVIOUS
<1> QED BY <1>1, <1>2, <1>4, <1>5 DEF NoticesOK, Bounded

LEMMA DetachedOK ==
    ASSUME NEW n \in Notice, NEW p, NEW comments
    PROVE  /\ Detached(n, p, comments) \in Notice
           /\ Detached(n, p, comments).id = n.id /\ Detached(n, p, comments).to = n.to
           /\ Detached(n, p, comments).type = n.type /\ Detached(n, p, comments).read = n.read
           /\ Detached(n, p, comments).stray = n.stray
           /\ Detached(n, p, comments).post = (IF n.post = p THEN NoId ELSE n.post)
           /\ Detached(n, p, comments).comment = (IF n.comment \in comments THEN NoId ELSE n.comment)
<1> DEFINE q == IF n.post = p THEN NoId ELSE n.post
           c == IF n.comment \in comments THEN NoId ELSE n.comment
<1>1. q \in PostIds \cup {NoId} /\ c \in CommentIds \cup {NoId}
  BY DEF Notice
<1>2. Detached(n, p, comments) = [n EXCEPT !.post = q, !.comment = c]
  BY DEF Detached
<1> HIDE DEF q, c
<1>3. /\ Detached(n, p, comments) \in Notice
      /\ Detached(n, p, comments).id = n.id /\ Detached(n, p, comments).to = n.to
      /\ Detached(n, p, comments).type = n.type /\ Detached(n, p, comments).read = n.read
      /\ Detached(n, p, comments).stray = n.stray
      /\ Detached(n, p, comments).post = q /\ Detached(n, p, comments).comment = c
  BY <1>1, <1>2 DEF Notice
<1> QED BY <1>3 DEF q, c

\* The likes that go with a post
LikesUnder(p, comments) ==
    LikesOf(<<"post", p>>) \cup UNION {LikesOf(<<"comment", c>>) : c \in comments}

LEMMA DeletePostBase ==
    ASSUME Base, NEW w \in Workers, CommitDeletePost(w)
    PROVE  Base'
<1> DEFINE p == job[w].post
           comments == job[w].more.comments
           likes == LikesUnder(p, comments)
<1>1. p \in PostIds /\ comments \in SUBSET CommentIds
  <2>1. job[w] \in DeletePostJobs
    BY JobShape DEF CommitDeletePost, Base, JobsOK
  <2> QED BY <2>1 DEF DeletePostJobs, Request
<1>2. End(w) /\ UNCHANGED <<tag, siteVars, started, badge, erased>>
  BY DEF CommitDeletePost
<1>3. CASE UNCHANGED <<post, revision, comment, like, user, notice, overtaken>>
  <2>1. UNCHANGED Tables
    BY <1>2, <1>3 DEF Tables, postVars, threadVars
  <2> QED BY <1>2, <2>1, EndBase, TablesKept DEF Base, siteVars
<1>4. CASE DeletePost(p, comments)
  <2> HIDE DEF p, comments
  <2>1. /\ post' = [post EXCEPT ![p] = NoPost] /\ revision' = revision \ Revisions(p)
        /\ comment' = [c \in CommentIds |-> IF c \in comments THEN NoComment
                           ELSE [comment[c] EXCEPT !.stray = @ \/ comment[c].parent \in comments]]
        /\ like' = like \ likes /\ user' = Kept(user, likes)
        /\ notice' = {Detached(n, p, comments) : n \in notice}
        /\ overtaken' \in BOOLEAN
    BY <1>4 DEF DeletePost, LikesUnder, Base, SiteOK
  <2>2. PostsOK'
    <3>1. IsFiniteSet(revision')
      BY <2>1, FS_Subset DEF Base, PostsOK
    <3>2. PICK b \in Nat : \A n \in {r.version : r \in revision} : n <= b
      BY DEF Base, PostsOK, Bounded
    <3>3. \A n \in {r.version : r \in revision'} : n <= b
      BY <2>1, <3>2
    <3> QED BY <1>2, <2>1, <3>1, <3>3 DEF Base, PostsOK, Bounded
  <2>3. CommentsOK'
    <3>1. \A c \in CommentIds \ comments :
             [comment[c] EXCEPT !.stray = @ \/ comment[c].parent \in comments] \in CommentRow \cup {NoComment}
      <4> SUFFICES ASSUME NEW c \in CommentIds \ comments
          PROVE [comment[c] EXCEPT !.stray = @ \/ comment[c].parent \in comments] \in CommentRow \cup {NoComment}
        OBVIOUS
      <4> DEFINE row == comment[c]
                 stray == row.stray \/ row.parent \in comments
      <4>1. row \in CommentRow \/ row = NoComment
        BY CommentRows DEF Base
      <4>2. CASE row \in CommentRow
        <5>1. stray \in BOOLEAN
          BY <4>2 DEF CommentRow
        <5> HIDE DEF stray, row
        <5>2. [row EXCEPT !.stray = stray] \in CommentRow
          BY <4>2, <5>1 DEF CommentRow
        <5> QED BY <5>2 DEF stray, row
      <4>3. CASE row = NoComment
        <5>1. stray = FALSE
          BY <1>1, <4>3 DEF NoComment, CommentIds, NoId
        <5>2. \E x1, x2, x3, x4, x5, x6, x7, x8 :
                 /\ row = [uid |-> x1, post |-> x2, author |-> x3, parent |-> x4, deleted |-> x5, text |-> x6,
                           likes |-> x7, stray |-> x8]
                 /\ x8 = stray
          BY <4>3, <5>1 DEF NoComment
        <5> HIDE DEF row, stray
        <5>3. PICK x1, x2, x3, x4, x5, x6, x7, x8 :
                 /\ row = [uid |-> x1, post |-> x2, author |-> x3, parent |-> x4, deleted |-> x5, text |-> x6,
                           likes |-> x7, stray |-> x8]
                 /\ x8 = stray
          BY <5>2
        <5>4. [row EXCEPT !.stray = x8] = row
          BY <5>3
        <5> QED BY <4>3, <5>3, <5>4 DEF stray, row
      <4> QED BY <4>1, <4>2, <4>3
    <3> QED BY <2>1, <3>1 DEF CommentsOK
  <2>4. LikesOK'
    BY <2>1, LikesTaken DEF Base
  <2>5. UsersOK'
    <3>1. IsFiniteSet(likes)
      BY FS_Subset DEF Base, LikesOK, LikesOf, LikesUnder
    <3> HIDE DEF likes
    <3> QED BY <2>1, <3>1, UsersKept DEF Base
  <2>6. NoticesOK'
    <3> DEFINE f == [n \in notice |-> Detached(n, p, comments)]
    <3>1. \A n \in notice : Detached(n, p, comments) \in Notice /\ Detached(n, p, comments).id = n.id
      BY DetachedOK DEF Base, NoticesOK
    <3>2. f \in [notice -> Notice] /\ \A n \in notice : f[n].id = n.id
      BY <3>1
    <3>3. notice' = {f[n] : n \in notice}
      BY <2>1
    <3> HIDE DEF f
    <3> QED BY <3>2, <3>3, NoticesChanged DEF Base
  <2>7. SiteOK'
    BY <1>2, <2>1 DEF Base, siteVars, SiteOK
  <2> QED BY <1>2, <2>2, <2>3, <2>4, <2>5, <2>6, <2>7, EndBase DEF Base, siteVars
<1> QED BY <1>3, <1>4 DEF CommitDeletePost

LEMMA UncountedOK ==
    ASSUME NEW n \in Nat, NEW t, NEW gone, IsFiniteSet(gone)
    PROVE  LET lost == Cardinality({l \in gone : l.target = t}) IN
             /\ lost \in Nat
             /\ Max({0, Uncounted(n, t, gone)}) = IF lost <= n THEN n - lost ELSE 0
             /\ Max({0, Uncounted(n, t, gone)}) \in Nat
<1> DEFINE lost == Cardinality({l \in gone : l.target = t})
<1>1. lost \in Nat
  BY FS_Subset, FS_CardinalityType
<1>2. Uncounted(n, t, gone) = n - lost
  BY DEF Uncounted
<1> HIDE DEF lost
<1>3. n - lost \in Int
  BY <1>1
<1>4. Max({0, n - lost}) = IF 0 >= n - lost THEN 0 ELSE n - lost
  BY <1>3, LargerOf
<1>5. Max({0, n - lost}) = IF lost <= n THEN n - lost ELSE 0
  BY <1>1, <1>4
<1> QED BY <1>1, <1>2, <1>5 DEF lost

\* The rows of comments and posts once account u is gone
CommentWithout(c, u, gone) ==
    [comment[c] EXCEPT !.author = IF @ = u THEN NoUser ELSE @,
                       !.likes = Max({0, Uncounted(@, <<"comment", c>>, gone)})]
PostWithout(p, u, heir, gone) ==
    [post[p] EXCEPT !.author = IF @ = u THEN heir ELSE @,
                    !.likes = Max({0, Uncounted(@, <<"post", p>>, gone)})]

LEMMA CommentWithoutOK ==
    ASSUME NEW c, NEW u, NEW gone, IsFiniteSet(gone), comment[c] \in CommentRow
    PROVE  LET row == CommentWithout(c, u, gone) IN
             /\ row \in CommentRow
             /\ row.author = (IF comment[c].author = u THEN NoUser ELSE comment[c].author)
             /\ row.likes = Max({0, Uncounted(comment[c].likes, <<"comment", c>>, gone)})
             /\ row.post = comment[c].post /\ row.parent = comment[c].parent
             /\ row.deleted = comment[c].deleted /\ row.text = comment[c].text
             /\ row.uid = comment[c].uid /\ row.stray = comment[c].stray
<1> DEFINE row == comment[c]
           author == IF row.author = u THEN NoUser ELSE row.author
           likes == Max({0, Uncounted(row.likes, <<"comment", c>>, gone)})
<1>1. author \in Users \cup {NoUser} /\ row.likes \in Nat
  BY DEF CommentRow
<1>2. likes \in Nat
  BY <1>1, UncountedOK
<1>3. CommentWithout(c, u, gone) = [row EXCEPT !.author = author, !.likes = likes]
  BY DEF CommentWithout
<1> HIDE DEF row, author, likes
<1>4. row \in CommentRow
  BY DEF row
<1>5. CommentWithout(c, u, gone) \in CommentRow
  BY <1>1, <1>2, <1>3, <1>4 DEF CommentRow
<1>6. LET new == CommentWithout(c, u, gone) IN
        /\ new.author = author /\ new.likes = likes
        /\ new.post = row.post /\ new.parent = row.parent /\ new.deleted = row.deleted
        /\ new.text = row.text /\ new.uid = row.uid /\ new.stray = row.stray
  BY <1>3, <1>4 DEF CommentRow
<1> QED BY <1>5, <1>6 DEF row, author, likes

LEMMA CommentWithoutKeeps ==
    ASSUME NEW c, NEW u, NEW gone, comment[c] \in CommentRow
    PROVE  /\ CommentWithout(c, u, gone).post = comment[c].post
           /\ CommentWithout(c, u, gone).parent = comment[c].parent
           /\ CommentWithout(c, u, gone).deleted = comment[c].deleted
           /\ CommentWithout(c, u, gone).text = comment[c].text
           /\ CommentWithout(c, u, gone).uid = comment[c].uid
           /\ CommentWithout(c, u, gone).stray = comment[c].stray
           /\ CommentWithout(c, u, gone).author = IF comment[c].author = u THEN NoUser ELSE comment[c].author
<1> DEFINE row == comment[c]
           author == IF row.author = u THEN NoUser ELSE row.author
           likes == Max({0, Uncounted(row.likes, <<"comment", c>>, gone)})
<1>1. CommentWithout(c, u, gone) = [row EXCEPT !.author = author, !.likes = likes]
  BY DEF CommentWithout
<1> HIDE DEF row, author, likes
<1>2. row \in CommentRow
  BY DEF row
<1>3. LET new == CommentWithout(c, u, gone) IN
        /\ new.author = author /\ new.post = row.post /\ new.parent = row.parent /\ new.deleted = row.deleted
        /\ new.text = row.text /\ new.uid = row.uid /\ new.stray = row.stray
  BY <1>1, <1>2 DEF CommentRow
<1> QED BY <1>3 DEF row, author

LEMMA PostWithoutOK ==
    ASSUME NEW p, NEW u, NEW heir \in Users, NEW gone, IsFiniteSet(gone), post[p] \in PostRow
    PROVE  LET row == PostWithout(p, u, heir, gone) IN
             /\ row \in PostRow
             /\ row.author = (IF post[p].author = u THEN heir ELSE post[p].author)
             /\ row.likes = Max({0, Uncounted(post[p].likes, <<"post", p>>, gone)})
             /\ row.published = post[p].published /\ row.draft = post[p].draft
             /\ row.date = post[p].date /\ row.text = post[p].text
             /\ row.asked = post[p].asked /\ row.past = post[p].past
<1> DEFINE row == post[p]
           author == IF row.author = u THEN heir ELSE row.author
           likes == Max({0, Uncounted(row.likes, <<"post", p>>, gone)})
<1>1. author \in Users /\ row.likes \in Nat
  BY DEF PostRow
<1>2. likes \in Nat
  BY <1>1, UncountedOK
<1>3. PostWithout(p, u, heir, gone) = [row EXCEPT !.author = author, !.likes = likes]
  BY DEF PostWithout
<1> HIDE DEF row, author, likes
<1>4. row \in PostRow
  BY DEF row
<1>5. PostWithout(p, u, heir, gone) \in PostRow
  BY <1>1, <1>2, <1>3, <1>4 DEF PostRow
<1>6. LET new == PostWithout(p, u, heir, gone) IN
        /\ new.author = author /\ new.likes = likes
        /\ new.published = row.published /\ new.draft = row.draft /\ new.date = row.date
        /\ new.text = row.text /\ new.asked = row.asked /\ new.past = row.past
  BY <1>3, <1>4 DEF PostRow
<1> QED BY <1>5, <1>6 DEF row, author, likes

\* What the deletion of an account does to the tables
LEMMA DeletedUser ==
    ASSUME Base, NEW w \in Workers, CommitDeleteUser(w)
    PROVE  \E u \in Users, heir \in Users, gone \in SUBSET like :
             /\ u = job[w].by /\ gone = {l \in like : l.by = u} /\ IsFiniteSet(gone)
             /\ comment' = [c \in CommentIds |-> IF ~CommentExists(c) THEN NoComment
                                                 ELSE CommentWithout(c, u, gone)]
             /\ post' = [p \in PostIds |-> IF ~PostExists(p) THEN NoPost
                                           ELSE PostWithout(p, u, heir, gone)]
             /\ like' = like \ gone /\ erased' = erased + Cardinality(gone)
             /\ notice' = {n \in notice : n.to # u}
             /\ user' = [Kept(user, gone) EXCEPT ![u] = Gone]
             /\ UNCHANGED <<revision, tag, siteVars, started, overtaken, badge>> /\ End(w)
<1> DEFINE u == job[w].by
           heir == job[w].more.heir
           gone == {l \in like : l.by = u}
<1>1. u \in Users /\ heir \in Users
  <2>1. job[w] \in DeleteUserJobs
    BY JobShape, Zenon DEF CommitDeleteUser, Base, JobsOK
  <2> QED BY <2>1, PostsAssumption DEF DeleteUserJobs, Request
<1>2. IsFiniteSet(gone) /\ gone \in SUBSET like
  BY FS_Subset DEF Base, LikesOK
<1>3. /\ comment' = [c \in CommentIds |-> IF ~CommentExists(c) THEN NoComment
                                          ELSE CommentWithout(c, u, gone)]
      /\ post' = [p \in PostIds |-> IF ~PostExists(p) THEN NoPost ELSE PostWithout(p, u, heir, gone)]
      /\ like' = like \ gone /\ erased' = erased + Cardinality(gone)
      /\ notice' = {n \in notice : n.to # u}
      /\ user' = [Kept(user, gone) EXCEPT ![u] = Gone]
      /\ UNCHANGED <<revision, tag, siteVars, started, overtaken, badge>> /\ End(w)
  BY Zenon DEF CommitDeleteUser, CommentWithout, PostWithout
<1> HIDE DEF u, heir, gone
<1>4. u = job[w].by /\ gone = {l \in like : l.by = u}
  BY DEF u, gone
<1> QED BY <1>1, <1>2, <1>3, <1>4, Zenon

LEMMA CommitDeleteUserBase ==
    ASSUME Base, NEW w \in Workers, CommitDeleteUser(w)
    PROVE  Base'
<1>1. PICK u \in Users, heir \in Users, gone \in SUBSET like :
             /\ IsFiniteSet(gone)
             /\ comment' = [c \in CommentIds |-> IF ~CommentExists(c) THEN NoComment
                                                 ELSE CommentWithout(c, u, gone)]
             /\ post' = [p \in PostIds |-> IF ~PostExists(p) THEN NoPost
                                           ELSE PostWithout(p, u, heir, gone)]
             /\ like' = like \ gone /\ erased' = erased + Cardinality(gone)
             /\ notice' = {n \in notice : n.to # u}
             /\ user' = [Kept(user, gone) EXCEPT ![u] = Gone]
             /\ UNCHANGED <<revision, tag, siteVars, started, overtaken, badge>> /\ End(w)
  BY DeletedUser
<1>2. PostsOK'
  <2>1. \A p \in PostIds : PostExists(p) => PostWithout(p, u, heir, gone) \in PostRow
    BY <1>1, PostRows, PostWithoutOK DEF Base
  <2> QED BY <1>1, <2>1 DEF Base, PostsOK
<1>3. CommentsOK'
  <2>1. \A c \in CommentIds : CommentExists(c) => CommentWithout(c, u, gone) \in CommentRow
    BY <1>1, CommentRows, CommentWithoutOK DEF Base
  <2> QED BY <1>1, <2>1 DEF CommentsOK
<1>4. LikesOK' /\ NoticesOK'
  BY <1>1, LikesTaken, NoticesTaken DEF Base
<1>5. UsersOK'
  <2>1. /\ Kept(user, gone) \in Accounts
        /\ \A x \in Users : /\ Kept(user, gone)[x].level = user[x].level
                            /\ UserExists(x) <=> Kept(user, gone)[x] # Gone
    BY <1>1, KeptOK DEF Base
  <2>2. user' \in Accounts /\ user'[u] = Gone /\ \A x \in Users \ {u} : user'[x] = Kept(user, gone)[x]
    BY <1>1, <2>1 DEF Accounts
  <2> QED BY <2>1, <2>2 DEF Base, UsersOK, UserExists
<1>6. SiteOK'
  BY <1>1, FS_CardinalityType DEF Base, siteVars, SiteOK
<1> QED BY <1>1, <1>2, <1>3, <1>4, <1>5, <1>6, EndBase DEF Base, siteVars

\* Rows that differ in nothing but the likes counted on them
PostsAlike ==
    \A p \in PostIds :
        /\ PostExists(p)' <=> PostExists(p)
        /\ post'[p].author = post[p].author /\ post'[p].published = post[p].published
        /\ post'[p].draft = post[p].draft /\ post'[p].date = post[p].date /\ post'[p].text = post[p].text
        /\ post'[p].asked = post[p].asked /\ post'[p].past = post[p].past
CommentsAlike ==
    \A c \in CommentIds :
        /\ CommentExists(c)' <=> CommentExists(c)
        /\ comment'[c].uid = comment[c].uid /\ comment'[c].post = comment[c].post
        /\ comment'[c].author = comment[c].author /\ comment'[c].parent = comment[c].parent
        /\ comment'[c].deleted = comment[c].deleted /\ comment'[c].text = comment[c].text
        /\ comment'[c].stray = comment[c].stray

LEMMA SetLikesOK ==
    ASSUME Base, NEW t \in Targets, TargetExists(t), NEW n \in Nat, SetLikes(t, n)
    PROVE  /\ post' \in [PostIds -> PostRow \cup {NoPost}] /\ CommentsOK'
           /\ PostsAlike /\ CommentsAlike
           /\ \A p \in PostIds : post'[p].likes = IF t = <<"post", p>> THEN n ELSE post[p].likes
           /\ \A c \in CommentIds : comment'[c].likes = IF t = <<"comment", c>> THEN n ELSE comment[c].likes
<1>1. CASE PostTarget(t)
  <2> DEFINE p == t[2]
             row == post[p]
             new == [row EXCEPT !.likes = n]
  <2>1. p \in PostIds /\ PostExists(p) /\ t = <<"post", p>>
    BY <1>1, TargetRow DEF TargetExists, Base
  <2>2. row \in PostRow
    BY <2>1, PostRows DEF Base
  <2>3. /\ new \in PostRow /\ new.likes = n
        /\ new.author = row.author /\ new.published = row.published
        /\ new.draft = row.draft /\ new.date = row.date /\ new.text = row.text
        /\ new.asked = row.asked /\ new.past = row.past
    BY <2>2 DEF PostRow
  <2>4. post' = [post EXCEPT ![p] = new] /\ comment' = comment
    BY <1>1 DEF SetLikes
  <2>5. post \in [PostIds -> PostRow \cup {NoPost}]
    BY DEF Base, PostsOK
  <2> HIDE DEF new, p
  <2>6. post' \in [PostIds -> PostRow \cup {NoPost}] /\ post'[p] = new /\ \A q \in PostIds \ {p} : post'[q] = post[q]
    BY <2>1, <2>3, <2>4, <2>5
  <2>7. new # NoPost
    BY <2>3, PostsAssumption DEF PostRow, NoPost
  <2>8. PostsAlike
    <3> SUFFICES ASSUME NEW q \in PostIds
        PROVE /\ PostExists(q)' <=> PostExists(q)
              /\ post'[q].author = post[q].author /\ post'[q].published = post[q].published
              /\ post'[q].draft = post[q].draft /\ post'[q].date = post[q].date /\ post'[q].text = post[q].text
              /\ post'[q].asked = post[q].asked /\ post'[q].past = post[q].past
      BY DEF PostsAlike
    <3>1. CASE q = p
      BY <3>1, <2>1, <2>3, <2>6, <2>7 DEF PostExists
    <3>2. CASE q # p
      BY <3>2, <2>6 DEF PostExists
    <3> QED BY <3>1, <3>2
  <2>9. \A q \in PostIds : post'[q].likes = IF t = <<"post", q>> THEN n ELSE post[q].likes
    BY <2>1, <2>3, <2>6
  <2>10. CommentsOK' /\ CommentsAlike
    BY <2>4 DEF Base, CommentsOK, CommentsAlike, CommentExists
  <2>11. \A c \in CommentIds : comment'[c].likes = IF t = <<"comment", c>> THEN n ELSE comment[c].likes
    BY <2>1, <2>4
  <2> QED BY <2>6, <2>8, <2>9, <2>10, <2>11
<1>2. CASE ~PostTarget(t)
  <2> DEFINE c == t[2]
             row == comment[c]
             new == [row EXCEPT !.likes = n]
  <2>1. c \in CommentIds /\ CommentExists(c) /\ t = <<"comment", c>>
    BY <1>2, TargetRow DEF TargetExists, Base
  <2>2. row \in CommentRow
    BY <2>1, CommentRows DEF Base
  <2>3. /\ new \in CommentRow /\ new.likes = n
        /\ new.uid = row.uid /\ new.post = row.post /\ new.author = row.author /\ new.parent = row.parent
        /\ new.deleted = row.deleted /\ new.text = row.text /\ new.stray = row.stray
    BY <2>2 DEF CommentRow
  <2>4. comment' = [comment EXCEPT ![c] = new] /\ post' = post
    BY <1>2 DEF SetLikes
  <2>5. comment \in [CommentIds -> CommentRow \cup {NoComment}]
    BY DEF Base, CommentsOK
  <2> HIDE DEF new, c
  <2>6. /\ comment' \in [CommentIds -> CommentRow \cup {NoComment}] /\ comment'[c] = new
        /\ \A q \in CommentIds \ {c} : comment'[q] = comment[q]
    BY <2>1, <2>3, <2>4, <2>5
  <2>7. new # NoComment
    BY <2>3 DEF CommentRow, NoComment, PostIds, NoId
  <2>8. CommentsAlike
    <3> SUFFICES ASSUME NEW q \in CommentIds
        PROVE /\ CommentExists(q)' <=> CommentExists(q)
              /\ comment'[q].uid = comment[q].uid /\ comment'[q].post = comment[q].post
              /\ comment'[q].author = comment[q].author /\ comment'[q].parent = comment[q].parent
              /\ comment'[q].deleted = comment[q].deleted /\ comment'[q].text = comment[q].text
              /\ comment'[q].stray = comment[q].stray
      BY DEF CommentsAlike
    <3>1. CASE q = c
      BY <3>1, <2>1, <2>3, <2>6, <2>7 DEF CommentExists
    <3>2. CASE q # c
      BY <3>2, <2>6 DEF CommentExists
    <3> QED BY <3>1, <3>2
  <2>9. \A q \in CommentIds : comment'[q].likes = IF t = <<"comment", q>> THEN n ELSE comment[q].likes
    BY <2>1, <2>3, <2>6
  <2>10. post' \in [PostIds -> PostRow \cup {NoPost}] /\ PostsAlike
    BY <2>4 DEF Base, PostsOK, PostsAlike, PostExists
  <2>11. \A p \in PostIds : post'[p].likes = IF t = <<"post", p>> THEN n ELSE post[p].likes
    BY <2>1, <2>4
  <2> QED BY <2>6, <2>8, <2>9, <2>10, <2>11 DEF CommentsOK
<1> QED BY <1>1, <1>2

LEMMA LikeJob ==
    ASSUME Base, NEW w \in Workers, At(w, "like", "commit")
    PROVE  LET j == job[w] IN
             /\ j.by \in Users /\ j.post \in PostIds /\ j.more.target \in Targets /\ j.more.likes \in Nat
             /\ j.more.author \in Users \cup {NoUser} /\ j.more.given \in SUBSET Like
             /\ Rewarded(j) \in SUBSET Users
             /\ \A a \in Rewarded(j) : a = j.more.author /\ a # j.by
             /\ j.more.author \in Users /\ j.more.author # j.by => Rewarded(j) = {j.more.author}
<1>1. job[w] \in LikeJobs
  BY JobShape DEF Base, JobsOK
<1>2. LET j == job[w] IN
        /\ j.by \in Users /\ j.post \in PostIds /\ j.more.target \in Targets /\ j.more.likes \in Nat
        /\ j.more.author \in Users \cup {NoUser} /\ j.more.given \in SUBSET Like
  BY <1>1 DEF LikeJobs, Request
<1> QED BY <1>2, PostsAssumption DEF Rewarded

\* The like that GiveLike inserts, and its notice
GivenLike(j) ==
    [id |-> NextId({l.id : l \in like}), by |-> j.by, target |-> j.more.target,
     to |-> IF Rewarded(j) = {} THEN NoUser ELSE j.more.author]
GivenNotices(j) == {NewNotice(NextNotice, LikeNews(j.more.target, j.post, a)) : a \in Rewarded(j)}

LEMMA GivenOK ==
    ASSUME Base, NEW w \in Workers, At(w, "like", "commit")
    PROVE  LET l == GivenLike(job[w]) IN
             /\ l \in Like /\ \A k \in like : k.id < l.id
             /\ l.by = job[w].by /\ l.target = job[w].more.target
             /\ l.to = IF Rewarded(job[w]) = {} THEN NoUser ELSE job[w].more.author
<1> DEFINE S == {l.id : l \in like}
           j == job[w]
           to == IF Rewarded(j) = {} THEN NoUser ELSE j.more.author
<1>1. PICK b \in Nat : \A n \in S : n <= b
  BY DEF Base, LikesOK, Bounded
<1>2. S \in SUBSET Nat
  BY DEF Base, LikesOK, Like
<1> HIDE DEF S
<1>3. NextId(S) \in Nat \ {0} /\ \A n \in S : n < NextId(S)
  BY <1>1, <1>2, NewId
<1>4. j.by \in Users /\ j.more.target \in Targets /\ to \in Users \cup {NoUser}
  BY LikeJob
<1>5. GivenLike(j) = [id |-> NextId(S), by |-> j.by, target |-> j.more.target, to |-> to]
  BY DEF GivenLike, S
<1>6. \A k \in like : k.id \in S
  BY DEF S
<1> HIDE DEF j, to
<1>7. /\ GivenLike(j) \in Like /\ GivenLike(j).id = NextId(S)
      /\ GivenLike(j).by = j.by /\ GivenLike(j).target = j.more.target /\ GivenLike(j).to = to
  BY <1>3, <1>4, <1>5 DEF Like
<1> QED BY <1>3, <1>6, <1>7 DEF j, to

LEMMA GivenNoticesOK ==
    ASSUME Base, NEW w \in Workers, At(w, "like", "commit"), NEW j, j = job[w]
    PROVE  /\ GivenNotices(j) \in SUBSET Notice /\ IsFiniteSet(GivenNotices(j))
           /\ \A n \in GivenNotices(j) : n.id = NextNotice
           /\ \A m, n \in GivenNotices(j) : m = n
           /\ \A n \in GivenNotices(j) :
                /\ n.to \in Rewarded(j) /\ n.type = "like" /\ ~n.read /\ n.post = j.post
                /\ n.comment = IF PostTarget(j.more.target) THEN NoId ELSE j.more.target[2]
                /\ Dangles(n) <=> n.stray
<1>1. CASE Rewarded(j) = {}
  <2>1. GivenNotices(j) = {}
    BY <1>1 DEF GivenNotices
  <2> QED BY <2>1, FS_EmptySet
<1>2. CASE Rewarded(j) # {}
  <2> DEFINE a == j.more.author
             t == j.more.target
             news == LikeNews(t, j.post, a)
             new == NewNotice(NextNotice, news)
  <2>1. Rewarded(j) = {a} /\ a \in Users /\ t \in Targets /\ j.post \in PostIds
    BY <1>2, LikeJob DEF Rewarded
  <2>2. GivenNotices(j) = {new}
    BY <2>1 DEF GivenNotices
  <2>3. NextNotice \in Nat \ {0}
    BY NextNoticeOK DEF Base
  <2>4. ~PostTarget(t) => t[2] \in CommentIds
    BY <2>1, TargetRow DEF Base
  <2>5. /\ news.to = a /\ news.type = "like" /\ news.post = j.post
        /\ news.comment = IF PostTarget(t) THEN NoId ELSE t[2]
    BY DEF LikeNews, News
  <2> HIDE DEF news, a, t
  <2>6. /\ news.to \in Users /\ news.post \in PostIds \cup {NoId} /\ news.comment \in CommentIds \cup {NoId}
        /\ news.type \in {"comment", "reply", "like", "badge"}
    BY <2>1, <2>4, <2>5
  <2>7. /\ new \in Notice /\ new.id = NextNotice /\ new.to = news.to /\ new.type = news.type
        /\ new.post = news.post /\ new.comment = news.comment /\ ~new.read /\ new.stray = Dangles(news)
    BY <2>3, <2>6, NewNoticeOK
  <2> HIDE DEF new
  <2>8. Dangles(new) <=> Dangles(news)
    BY <2>7 DEF Dangles
  <2> QED BY <2>1, <2>2, <2>5, <2>7, <2>8, FS_Singleton DEF t
<1> QED BY <1>1, <1>2

LEMMA GiveLikeBase ==
    ASSUME Base, NEW w \in Workers, GiveLike(w)
    PROVE  Base'
<1> DEFINE j == job[w]
           t == j.more.target
           l == GivenLike(j)
<1>1. At(w, "like", "commit") /\ End(w) /\ UNCHANGED <<revision, tag, siteVars, started, badge, erased>>
  BY DEF GiveLike
<1>2. CASE UNCHANGED <<post, comment, like, user, notice, overtaken>>
  <2>1. UNCHANGED Tables
    BY <1>1, <1>2 DEF Tables, postVars, threadVars
  <2> QED BY <1>1, <2>1, EndBase, TablesKept DEF Base, siteVars
<1>3. CASE /\ j.by \notin Likers(t) /\ TargetExists(t) /\ \A a \in Rewarded(j) : UserExists(a)
           /\ SetLikes(t, j.more.likes + 1)
           /\ like' = like \cup {l}
           /\ user' = [u \in Users |-> IF u \in Rewarded(j) THEN Gain(user[u], Worth(t)) ELSE user[u]]
           /\ notice' = notice \cup GivenNotices(j)
           /\ overtaken' = (overtaken \/ ~AsLoaded(j))
  <2>1. /\ t \in Targets /\ j.more.likes + 1 \in Nat /\ Rewarded(j) \in SUBSET Users
    BY <1>1, LikeJob
  <2>2. post' \in [PostIds -> PostRow \cup {NoPost}] /\ CommentsOK'
    BY <1>3, <2>1, SetLikesOK
  <2>3. PostsOK'
    BY <1>1, <2>2 DEF Base, PostsOK
  <2>4. LikesOK'
    <3>1. /\ l \in Like /\ (\A k \in like : k.id < l.id /\ k \in Like) /\ l.by = j.by /\ l.target = t
      BY <1>1, GivenOK DEF Base, LikesOK
    <3>2. \A k \in like : ~(k.by = j.by /\ k.target = t)
      BY <1>3 DEF Likers, LikesOf
    <3> HIDE DEF l, j, t
    <3>3. like' \subseteq Like /\ IsFiniteSet(like')
      BY <1>3, <3>1, FS_AddElement DEF Base, LikesOK
    <3>4. \A k \in like' : k.id \in Nat /\ k.id <= l.id
      BY <1>3, <3>1 DEF Like
    <3>5. Bounded({k.id : k \in like'})
      BY <3>1, <3>4 DEF Bounded, Like
    <3>6. \A k, m \in like' : k.id = m.id \/ (k.by = m.by /\ k.target = m.target) => k = m
      <4>1. \A k \in like : k.id # l.id /\ ~(k.by = l.by /\ k.target = l.target)
        BY <3>1, <3>2 DEF Like
      <4> QED BY <1>3, <4>1 DEF Base, LikesOK
    <3> QED BY <3>3, <3>5, <3>6 DEF LikesOK
  <2>5. NoticesOK'
    <3>1. NextNotice \in Nat
      BY NextNoticeOK DEF Base
    <3>2. /\ GivenNotices(j) \in SUBSET Notice /\ IsFiniteSet(GivenNotices(j))
          /\ \A n \in GivenNotices(j) : n.id = NextNotice
          /\ \A m, n \in GivenNotices(j) : m = n
      BY <1>1, GivenNoticesOK
    <3>3. \A n \in GivenNotices(j) : n.id \in NextNotice..(NextNotice + 1)
      BY <3>1, <3>2
    <3> QED BY <1>3, <3>2, <3>3, NoticesAdded DEF Base
  <2>6. UsersOK'
    <3>1. Worth(t) \in Nat
      BY DEF Worth, PostLike, CommentLike
    <3>2. \A u \in Users : /\ Gain(user[u], Worth(t)) \in UserRow
                           /\ Gain(user[u], Worth(t)).level # 0
      <4> SUFFICES ASSUME NEW u \in Users
          PROVE Gain(user[u], Worth(t)) \in UserRow /\ Gain(user[u], Worth(t)).level # 0
        OBVIOUS
      <4>1. user[u] \in UserRow
        BY UserRows DEF Base
      <4> HIDE DEF t
      <4> QED BY <3>1, <4>1, GainOK
    <3> HIDE DEF j, t
    <3>3. user' \in Accounts
      BY <1>3, <3>2 DEF Base, UsersOK, Accounts
    <3>4. \A u \in Users : user'[u] # Gone => user'[u].level # 0
      BY <1>3, <3>2 DEF Base, UsersOK, UserExists
    <3> QED BY <3>3, <3>4 DEF UsersOK, UserExists
  <2>7. SiteOK'
    BY <1>1, <1>3 DEF Base, siteVars, SiteOK
  <2> QED BY <1>1, <2>2, <2>3, <2>4, <2>5, <2>6, <2>7, EndBase DEF Base, siteVars
<1> QED BY <1>2, <1>3 DEF GiveLike, GivenLike, GivenNotices

\* The points that are taken back
LEMMA RevokedXp ==
    ASSUME UsersOK, NEW a \in Users, UserExists(a), NEW n \in Nat,
           user' = [user EXCEPT ![a].xp = Max({0, @ - n})]
    PROVE  /\ UsersOK' /\ \A u \in Users : UserExists(u)' <=> UserExists(u)
           /\ user'[a].xp = IF n <= user[a].xp THEN user[a].xp - n ELSE 0
           /\ user'[a].granted = user[a].granted /\ user'[a].badges = user[a].badges
           /\ user'[a].awards = user[a].awards
           /\ \A u \in Users \ {a} : user'[u] = user[u]
<1> DEFINE row == user[a]
           xp == Max({0, row.xp - n})
           new == [row EXCEPT !.xp = xp]
<1>1. row \in UserRow /\ row.level # 0
  BY UserRows
<1>2. row.xp \in Nat
  BY <1>1 DEF UserRow
<1>3. xp \in Nat /\ xp = IF n <= row.xp THEN row.xp - n ELSE 0
  <2> DEFINE d == row.xp - n
  <2>1. d \in Int /\ (n <= row.xp <=> d >= 0)
    BY <1>2
  <2> HIDE DEF d
  <2>2. Max({0, d}) = IF 0 >= d THEN 0 ELSE d
    BY <2>1, LargerOf
  <2>3. Max({0, d}) \in Nat /\ Max({0, d}) = IF n <= row.xp THEN d ELSE 0
    BY <2>1, <2>2
  <2> QED BY <2>3 DEF d
<1>4. user' = [user EXCEPT ![a] = new]
  BY DEF UsersOK, Accounts
<1> HIDE DEF xp
<1>5. /\ new \in UserRow /\ new.xp = xp /\ new.level = row.level /\ new.badges = row.badges
      /\ new.granted = row.granted /\ new.awards = row.awards
  BY <1>1, <1>3 DEF UserRow
<1> HIDE DEF new
<1>6. user' \in Accounts /\ user'[a] = new /\ \A u \in Users \ {a} : user'[u] = user[u]
  BY <1>4, <1>5 DEF UsersOK, Accounts
<1>7. new # Gone
  BY <1>1, <1>5 DEF Gone
<1>8. \A u \in Users : UserExists(u)' <=> UserExists(u)
  BY <1>6, <1>7 DEF UserExists
<1>9. \A u \in Users : UserExists(u) => user'[u].level # 0
  BY <1>1, <1>5, <1>6 DEF UsersOK
<1> QED BY <1>3, <1>5, <1>6, <1>8, <1>9 DEF UsersOK

\* What a like taken back does to the tables
LEMMA TakenLike ==
    ASSUME Base, NEW w \in Workers, TakeLike(w), ~ UNCHANGED <<post, comment, like, user, notice, overtaken>>
    PROVE  LET j == job[w]
               t == j.more.target
               a == j.more.author
           IN  /\ t \in Targets
               /\ \/ UNCHANGED <<post, comment>> /\ j.more.likes = 0
                  \/ /\ TargetExists(t) /\ j.more.likes # 0 /\ SetLikes(t, j.more.likes - 1)
               /\ like' = {l \in like : \A g \in j.more.given : l.id # g.id}
               /\ \/ (\A x \in Rewarded(j) : ~UserExists(x)) /\ UNCHANGED <<user, notice>>
                  \/ /\ Rewarded(j) = {a} /\ a \in Users /\ UserExists(a)
                     /\ user' = [user EXCEPT ![a].xp = Max({0, @ - Worth(t)})]
                     /\ notice' = notice \ Latest(UnreadLikes(a, t))
               /\ overtaken' = (overtaken \/ TargetLikes(t) # j.more.likes \/ ~(j.more.given \subseteq like))
<1> DEFINE j == job[w]
           t == j.more.target
           a == j.more.author
           n == Max({0, j.more.likes - 1})
<1>1. At(w, "like", "commit")
  BY DEF TakeLike
<1>2. t \in Targets /\ j.more.likes \in Nat
  BY <1>1, LikeJob
<1>3. n = IF j.more.likes = 0 THEN 0 ELSE j.more.likes - 1
  <2> DEFINE k == j.more.likes
  <2> HIDE DEF j
  <2>1. k - 1 \in Int
    BY <1>2
  <2>2. Max({0, k - 1}) = IF 0 >= k - 1 THEN 0 ELSE k - 1
    BY <2>1, LargerOf
  <2>3. Max({0, k - 1}) = IF k = 0 THEN 0 ELSE k - 1
    BY <1>2, <2>2
  <2> QED BY <2>3
<1>4. n = j.more.likes <=> j.more.likes = 0
  BY <1>2, <1>3
<1>5. /\ TargetExists(t) \/ n = j.more.likes
      /\ IF n # j.more.likes THEN SetLikes(t, n) ELSE UNCHANGED <<post, comment>>
      /\ like' = {l \in like : \A g \in j.more.given : l.id # g.id}
      /\ IF \E x \in Rewarded(j) : UserExists(x) THEN Revoked(a, t) ELSE UNCHANGED <<user, notice>>
      /\ overtaken' = (overtaken \/ TargetLikes(t) # j.more.likes \/ ~(j.more.given \subseteq like))
  BY DEF TakeLike
<1>6. (\E x \in Rewarded(j) : UserExists(x)) => Rewarded(j) = {a} /\ a \in Users /\ UserExists(a)
  BY <1>1, LikeJob DEF Rewarded
<1> QED BY <1>2, <1>3, <1>4, <1>5, <1>6 DEF Revoked

LEMMA TakeLikeBase ==
    ASSUME Base, NEW w \in Workers, TakeLike(w)
    PROVE  Base'
<1> DEFINE j == job[w]
           t == j.more.target
           a == j.more.author
<1>1. At(w, "like", "commit") /\ End(w) /\ UNCHANGED <<revision, tag, siteVars, started, badge, erased>>
  BY DEF TakeLike
<1>2. CASE UNCHANGED <<post, comment, like, user, notice, overtaken>>
  <2>1. UNCHANGED Tables
    BY <1>1, <1>2 DEF Tables, postVars, threadVars
  <2> QED BY <1>1, <2>1, EndBase, TablesKept DEF Base, siteVars
<1>3. CASE ~ UNCHANGED <<post, comment, like, user, notice, overtaken>>
  <2>1. /\ t \in Targets
        /\ \/ UNCHANGED <<post, comment>>
           \/ TargetExists(t) /\ j.more.likes # 0 /\ SetLikes(t, j.more.likes - 1)
        /\ like' \subseteq like
        /\ \/ UNCHANGED <<user, notice>>
           \/ /\ a \in Users /\ UserExists(a)
              /\ user' = [user EXCEPT ![a].xp = Max({0, @ - Worth(t)})]
              /\ notice' \subseteq notice
        /\ overtaken' \in BOOLEAN
    BY <1>3, TakenLike DEF Base, SiteOK
  <2>2. post' \in [PostIds -> PostRow \cup {NoPost}] /\ CommentsOK'
    <3>1. CASE UNCHANGED <<post, comment>>
      BY <3>1 DEF Base, PostsOK, CommentsOK
    <3>2. CASE TargetExists(t) /\ j.more.likes # 0 /\ SetLikes(t, j.more.likes - 1)
      <4>1. j.more.likes - 1 \in Nat
        BY <1>1, <3>2, LikeJob
      <4> QED BY <2>1, <3>2, <4>1, SetLikesOK
    <3> QED BY <2>1, <3>1, <3>2
  <2>3. PostsOK'
    BY <1>1, <2>2 DEF Base, PostsOK
  <2>4. LikesOK'
    BY <2>1, LikesTaken DEF Base
  <2>5. UsersOK' /\ NoticesOK'
    <3>1. Worth(t) \in Nat
      BY DEF Worth, PostLike, CommentLike
    <3>2. CASE UNCHANGED <<user, notice>>
      BY <3>2 DEF Base, UsersOK, UserExists, NoticesOK
    <3> HIDE DEF j, t, a
    <3>3. CASE /\ a \in Users /\ UserExists(a)
               /\ user' = [user EXCEPT ![a].xp = Max({0, @ - Worth(t)})]
               /\ notice' \subseteq notice
      BY <3>1, <3>3, RevokedXp, NoticesTaken DEF Base
    <3> QED BY <2>1, <3>2, <3>3
  <2>6. SiteOK'
    BY <1>1, <2>1 DEF Base, siteVars, SiteOK
  <2> QED BY <1>1, <2>2, <2>3, <2>4, <2>5, <2>6, EndBase DEF Base, siteVars
<1> QED BY <1>2, <1>3

LEMMA MarkReadBase ==
    ASSUME Base, NEW u \in Users, NEW S \in SUBSET notice, MarkRead(u, S)
    PROVE  Base'
<1> DEFINE f == [n \in notice |-> IF n \in S THEN [n EXCEPT !.read = TRUE] ELSE n]
<1>1. \A n \in notice : [n EXCEPT !.read = TRUE] \in Notice /\ [n EXCEPT !.read = TRUE].id = n.id
  BY Zenon DEF Base, NoticesOK, Notice
<1>2. f \in [notice -> Notice] /\ \A n \in notice : f[n].id = n.id
  BY <1>1 DEF Base, NoticesOK
<1>3. notice' = {f[n] : n \in notice}
  <2>1. notice' = (notice \ S) \cup {[n EXCEPT !.read = TRUE] : n \in S}
    BY DEF MarkRead
  <2> QED BY <2>1
<1> HIDE DEF f
<1>4. NoticesOK'
  BY <1>2, <1>3, NoticesChanged DEF Base
<1>5. started' \in 0..MaxRequests
  BY PostsAssumption DEF MarkRead, Base, SiteOK
<1>6. /\ PostsOK' /\ CommentsOK' /\ LikesOK' /\ UsersOK' /\ SiteOK' /\ JobsOK' /\ BadgesOK'
  BY <1>5 DEF MarkRead, Base, postVars, siteVars, PostsOK, CommentsOK, LikesOK, UsersOK, SiteOK, JobsOK,
     BadgesOK, Renaming, UserExists
<1> QED BY <1>4, <1>6 DEF Base

LEMMA RenamedRow ==
    ASSUME NEW row \in UserRow
    PROVE  /\ Renamed(row) \in UserRow
           /\ Renamed(row).badges = (IF row.badges = {} THEN {} ELSE {"current"})
           /\ Renamed(row).xp = row.xp /\ Renamed(row).level = row.level
           /\ Renamed(row).granted = row.granted /\ Renamed(row).awards = row.awards
<1>1. {"current"} \in SUBSET BadgeNames
  BY DEF BadgeNames
<1> DEFINE held == {"current"}
           new == [row EXCEPT !.badges = held]
<1>2. Renamed(row) = IF row.badges = {} THEN row ELSE new
  BY DEF Renamed
<1> HIDE DEF held
<1>3. held \in SUBSET BadgeNames
  BY <1>1 DEF held
<1>4. /\ new \in UserRow /\ new.badges = held /\ new.xp = row.xp /\ new.level = row.level
      /\ new.granted = row.granted /\ new.awards = row.awards
  BY <1>3 DEF UserRow
<1> HIDE DEF new
<1> QED BY <1>2, <1>4 DEF held

\* What the renaming leaves
LEMMA RenamedTables ==
    ASSUME Base, NEW w \in Workers, RenameBadges(w), ~ End(w)
    PROVE  LET seen == AccountsRead(job[w]) IN
             /\ job[w] \in InitBadgesJobs
             /\ seen \in Accounts
             /\ badge' \in BadgeTable /\ "legacy" \notin badge' /\ (badge # {} => badge' # {})
             /\ \A u \in Users :
                  \/ user'[u] = user[u] /\ (seen[u] = Gone \/ Renamed(seen[u]) = seen[u])
                  \/ /\ UserExists(u) /\ seen[u] # Gone
                     /\ user'[u] = Rewritten(user[u], seen[u], Renamed(seen[u]))
             /\ user' = [u \in Users |-> user'[u]]
             /\ overtaken' = (overtaken \/ \E u \in Users : user[u].badges # seen[u].badges)
             /\ job' = [job EXCEPT ![w].at = "create"]
<1> DEFINE seen == AccountsRead(job[w])
           changed == {u \in Users : seen[u] # Gone /\ Renamed(seen[u]) # seen[u]}
<1>1. At(w, "initBadges", "commit")
  BY DEF RenameBadges
<1>2. job[w] \in InitBadgesJobs
  BY <1>1, JobShape DEF Base, JobsOK
<1>3. seen \in Accounts
  <2>1. job[w].more.user \in Accounts
    BY <1>2 DEF InitBadgesJobs, Request
  <2>2. user \in Accounts
    BY DEF Base, UsersOK
  <2> QED BY <2>1, <2>2, Zenon DEF Accounts, AccountsRead
<1>4. /\ badge' = RenamedTable(job[w].more.badge, badge) /\ \A u \in changed : UserExists(u)
      /\ user' = [u \in Users |-> IF u \notin changed THEN user[u] ELSE
            Rewritten(user[u], seen[u], Renamed(seen[u]))]
      /\ overtaken' = (overtaken \/ \E u \in Users : user[u].badges # seen[u].badges)
      /\ job' = [job EXCEPT ![w].at = "create"]
  BY DEF RenameBadges
<1>5. badge' \in BadgeTable /\ "legacy" \notin badge' /\ (badge # {} => badge' # {})
  <2>1. badge \in BadgeTable /\ ("legacy" \in badge => job[w].more.badge = {"legacy"})
    BY <1>1 DEF Base, BadgesOK, Renaming, At
  <2>2. "legacy" \in badge => badge' = {"current"}
    BY <1>4, <2>1 DEF RenamedTable
  <2>3. badge' = {"current"} \/ badge' = badge
    BY <1>4 DEF RenamedTable
  <2> QED BY <2>1, <2>2, <2>3 DEF BadgeTable
<1>6. \A u \in Users : u \in changed <=> seen[u] # Gone /\ Renamed(seen[u]) # seen[u]
  OBVIOUS
<1> HIDE DEF changed
<1> QED BY <1>2, <1>3, <1>4, <1>5, <1>6

LEMMA RenameBadgesBase ==
    ASSUME Base, NEW w \in Workers, RenameBadges(w)
    PROVE  Base'
<1> DEFINE seen == AccountsRead(job[w])
           j == job[w]
           next == [j EXCEPT !.at = "create"]
<1>1. UNCHANGED <<postVars, siteVars, started, comment, like, notice, erased>>
  BY DEF RenameBadges
<1>2. CASE End(w)
  <2>1. badge' = badge /\ user' = user /\ overtaken' = overtaken
    <3>1. job'[w] = Idle
      BY <1>2, EndOK DEF Base, JobsOK
    <3>2. job' # [job EXCEPT ![w].at = "create"]
      <4>1. j.op = "initBadges"
        BY DEF RenameBadges, At
      <4>2. SUFFICES ASSUME job' = [job EXCEPT ![w].at = "create"] PROVE FALSE
        OBVIOUS
      <4>3. job'[w] = [j EXCEPT !.at = "create"]
        BY <4>2 DEF Base, JobsOK
      <4>4. j \in InitBadgesJobs
        BY JobShape DEF RenameBadges, Base, JobsOK
      <4>5. [j EXCEPT !.at = "create"].op = "initBadges"
        BY <4>1, <4>4 DEF InitBadgesJobs, Request
      <4> QED BY <3>1, <4>3, <4>5 DEF Idle
    <3> QED BY <3>2 DEF RenameBadges
  <2>2. UNCHANGED Tables
    BY <1>1, <2>1 DEF Tables, threadVars
  <2> QED BY <1>1, <1>2, <2>1, <2>2, EndBase, TablesKept DEF Base, siteVars
<1>3. CASE ~ End(w)
  <2>1. /\ j \in InitBadgesJobs /\ seen \in Accounts
        /\ badge' \in BadgeTable /\ "legacy" \notin badge'
        /\ \A u \in Users :
             \/ user'[u] = user[u]
             \/ /\ UserExists(u)
                /\ user'[u] = Rewritten(user[u], seen[u], Renamed(seen[u]))
        /\ user' = [u \in Users |-> user'[u]]
        /\ overtaken' \in BOOLEAN
        /\ job' = [job EXCEPT ![w].at = "create"]
    BY <1>3, RenamedTables DEF Base, SiteOK
  <2>2. JobsOK'
    <3>1. next \in InitBadgesJobs
      BY <2>1 DEF InitBadgesJobs, Request
    <3>2. job' = [job EXCEPT ![w] = next]
      BY <2>1 DEF Base, JobsOK
    <3> HIDE DEF next
    <3> QED BY <3>1, <3>2, Advance DEF Jobs
  <2>3. BadgesOK'
    BY <2>1 DEF BadgesOK, Renaming
  <2>4. UsersOK'
    <3>1. \A u \in Users : user'[u] \in UserRow /\ (UserExists(u) <=> user'[u] # Gone)
                           /\ user'[u].level = user[u].level
      <4> SUFFICES ASSUME NEW u \in Users
          PROVE /\ user'[u] \in UserRow /\ (UserExists(u) <=> user'[u] # Gone)
                /\ user'[u].level = user[u].level
        OBVIOUS
      <4>1. /\ user[u] \in UserRow /\ (UserExists(u) <=> user[u] # Gone)
            /\ (UserExists(u) <=> user[u].level # 0)
        BY UserRows DEF Base
      <4>2. CASE user'[u] = user[u]
        BY <4>1, <4>2
      <4>3. CASE UserExists(u) /\ user'[u] = Rewritten(user[u], seen[u], Renamed(seen[u]))
        <5> DEFINE row == user[u]
                   old == seen[u]
                   new == Renamed(old)
        <5>1. old \in UserRow
          BY <2>1 DEF Accounts, UserRow, Gone
        <5>2. /\ new \in UserRow /\ new.level = old.level
              /\ new.granted = old.granted /\ new.awards = old.awards
          BY <5>1, RenamedRow
        <5> HIDE DEF row, old, new
        <5>3. row \in UserRow
          BY <4>1 DEF row
        <5>4. new.granted >= old.granted /\ new.awards >= old.awards
          BY <5>1, <5>2 DEF UserRow
        <5>5. Rewritten(row, old, new) \in UserRow /\ Rewritten(row, old, new).level = row.level
          BY <5>1, <5>2, <5>3, <5>4, RewrittenUser
        <5>6. user'[u] \in UserRow /\ user'[u].level = user[u].level /\ user[u].level # 0
          BY <4>1, <4>3, <5>5 DEF row, old, new
        <5>7. user'[u] # Gone
          BY <5>6 DEF Gone
        <5> QED BY <4>3, <5>6, <5>7
      <4> QED BY <2>1, <4>2, <4>3
    <3>2. user' \in Accounts
      BY <2>1, <3>1 DEF Accounts
    <3> QED BY <3>1, <3>2, UserRows DEF Base, UsersOK, UserExists
  <2>5. PostsOK' /\ CommentsOK' /\ LikesOK' /\ NoticesOK' /\ SiteOK'
    BY <1>1, <2>1 DEF Base, postVars, siteVars, PostsOK, CommentsOK, LikesOK, NoticesOK, SiteOK
  <2> QED BY <2>2, <2>3, <2>4, <2>5 DEF Base
<1> QED BY <1>2, <1>3

LEMMA CreateBadgesBase ==
    ASSUME Base, NEW w \in Workers, CreateBadges(w)
    PROVE  Base' /\ "legacy" \notin badge
<1>1. /\ At(w, "initBadges", "create") /\ End(w) /\ badge' = badge \cup {"current"}
      /\ UNCHANGED <<postVars, siteVars, started, overtaken, comment, like, notice, user, erased>>
  BY DEF CreateBadges
<1>2. "legacy" \notin badge
  BY <1>1 DEF At, Base, BadgesOK, Renaming
<1>3. badge' = {"current"}
  BY <1>1, <1>2 DEF Base, BadgesOK, BadgeTable
<1>4. BadgesOK'
  BY <1>3 DEF BadgesOK, Renaming, BadgeTable
<1>5. JobsOK'
  BY <1>1, EndOK DEF Base, JobsOK
<1>6. PostsOK' /\ CommentsOK' /\ LikesOK' /\ NoticesOK' /\ UsersOK' /\ SiteOK'
  BY <1>1 DEF Base, postVars, siteVars, PostsOK, CommentsOK, LikesOK, NoticesOK, UsersOK, SiteOK, UserExists
<1> QED BY <1>2, <1>4, <1>5, <1>6 DEF Base

-----------------------------------------------------------------------------
(* The invariant Base, and the types.                                      *)

LEMMA InitBase == Init => Base
<1> SUFFICES ASSUME Init PROVE Base
  OBVIOUS
<1>1. PICK a \in Admins : post = [p \in PostIds |-> IF p = 1 THEN NewPost(a, Publish, 0) ELSE NoPost]
  BY DEF Init, InitPosts
<1>2. NewPost(a, Publish, 0) \in PostRow
  BY PostsAssumption DEF NewPost, Publish, PostRow, Form, IsDraft, NoDate
<1>3. PostsOK
  <2>1. revision = {} /\ tag = {}
    BY DEF Init, InitPosts
  <2>2. IsFiniteSet({})
    BY FS_EmptySet
  <2>3. Bounded({r.version : r \in {}})
    BY DEF Bounded
  <2> QED BY <1>1, <1>2, <2>1, <2>2, <2>3 DEF PostsOK
<1>4. CommentsOK
  BY DEF Init, CommentsOK
<1>5. LikesOK /\ NoticesOK
  <2>1. like = {} /\ notice = {}
    BY DEF Init
  <2>2. IsFiniteSet({})
    BY FS_EmptySet
  <2>3. Bounded({r.id : r \in {}})
    BY DEF Bounded
  <2> QED BY <2>1, <2>2, <2>3 DEF LikesOK, NoticesOK
<1>6. UsersOK
  <2>1. user = [u \in Users |->
                  [xp |-> 0, level |-> 1, granted |-> 0,
                   badges |-> IF u \in Holders THEN Badges ELSE {},
                   awards |-> IF u \in Holders THEN 1 ELSE 0]]
    BY DEF Init
  <2>2. Badges \in SUBSET BadgeNames
    BY DiscussionAssumption DEF BadgeNames
  <2>3. \A u \in Users : user[u] \in UserRow /\ user[u].level = 1
    BY <2>1, <2>2 DEF UserRow
  <2> QED BY <2>1, <2>3 DEF UsersOK, Accounts
<1>7. job = [w \in Workers |-> Idle]
  BY DEF Init, InitPosts
<1>8. BadgesOK
  BY <1>7, DiscussionAssumption DEF Init, BadgesOK, BadgeTable, Renaming
<1>9. SiteOK
  <2>1. clock = 0 /\ started = 0 /\ overtaken = FALSE /\ erased = 0
    BY DEF Init, InitPosts
  <2>2. 0 \in 0..MaxTime /\ 0 \in 0..MaxRequests
    BY PostsAssumption
  <2> QED BY <2>1, <2>2 DEF SiteOK
<1>10. JobsOK
  BY <1>7 DEF JobsOK, Jobs
<1> QED BY <1>3, <1>4, <1>5, <1>6, <1>8, <1>9, <1>10 DEF Base

\* The commits: what the requests do to the tables
Commits(w) ==
    \/ (CommitCreate(w) \/ CommitEdit(w) \/ CommitHook(w)) /\ UNCHANGED threadVars
    \/ Insert(w) \/ CommitReward(w)
    \/ CommitEditComment(w) \/ CommitDeleteComment(w) \/ CommitDeletePost(w) \/ CommitDeleteUser(w)
    \/ GiveLike(w) \/ TakeLike(w)
    \/ RenameBadges(w) \/ CreateBadges(w)

\* What a request does before: it begins, or loads rows again
ReadsPosts(w) ==
    /\ \/ BeginHook(w)
       \/ \E u \in Users, f \in Forms : BeginCreate(w, u, f) \/ \E p \in PostIds : BeginEdit(w, u, p, f)
    /\ UNCHANGED threadVars
ReadsThreads(w) ==
    \/ \E u \in Users, p \in PostIds :
          BeginComment(w, u, p) \/ BeginDeletePost(w, u, p) \/ \E c \in CommentIds : BeginReply(w, u, p, c)
    \/ \E u \in Users, c \in CommentIds : BeginEditComment(w, u, c) \/ BeginDeleteComment(w, u, c)
    \/ \E u \in Users, heir \in Admins : BeginDeleteUser(w, u, heir)
    \/ \E u \in Users : BeginInitBadges(w, u)
    \/ LoadReward(w)
ReadsLikes(w) == \E u \in Users, t \in Targets : BeginLike(w, u, t)

LEMMA Steps ==
    ASSUME [Next]_vars
    PROVE  \/ UNCHANGED vars
           \/ Tick /\ UNCHANGED threadVars
           \/ \E u \in Users, S \in SUBSET notice : MarkRead(u, S)
           \/ \E w \in Workers : ReadsPosts(w) \/ ReadsThreads(w) \/ ReadsLikes(w) \/ Commits(w)
<1>1. CASE \E w \in Workers : Posting(w)
  BY <1>1 DEF Posting, ReadsPosts, Commits
<1>2. CASE \E w \in Workers : Discussing(w)
  <2>1. PICK w \in Workers : Discussing(w)
    BY <1>2
  <2>2. ReadsThreads(w) \/ ReadsLikes(w) \/ Commits(w)
    BY <2>1 DEF Discussing, ReadsThreads, ReadsLikes, Commits
  <2> QED BY <2>2
<1> QED BY <1>1, <1>2 DEF Next

LEMMA ReadsBase ==
    ASSUME Base, NEW w \in Workers, ReadsPosts(w) \/ ReadsThreads(w) \/ ReadsLikes(w)
    PROVE  Base'
<1>1. CASE ReadsPosts(w)
  BY <1>1, BeginPosts DEF ReadsPosts
<1>2. CASE ReadsThreads(w)
  <2>1. CASE \E u \in Users, p \in PostIds :
          BeginComment(w, u, p) \/ BeginDeletePost(w, u, p) \/ \E c \in CommentIds : BeginReply(w, u, p, c)
    BY <2>1, BeginThreads
  <2>2. CASE \E u \in Users, c \in CommentIds : BeginEditComment(w, u, c) \/ BeginDeleteComment(w, u, c)
    BY <2>2, BeginThreads
  <2>3. CASE \E u \in Users, heir \in Admins : BeginDeleteUser(w, u, heir)
    BY <2>3, BeginOthers
  <2>4. CASE \E u \in Users : BeginInitBadges(w, u)
    BY <2>4, BeginOthers
  <2>5. CASE LoadReward(w)
    BY <2>5, LoadRewardBase
  <2> QED BY <1>2, <2>1, <2>2, <2>3, <2>4, <2>5 DEF ReadsThreads
<1>3. CASE ReadsLikes(w)
  BY <1>3, BeginOthers DEF ReadsLikes
<1> QED BY <1>1, <1>2, <1>3

\* A request that only reads leaves the tables as they are.
LEMMA ReadsTables ==
    ASSUME NEW w \in Workers, ReadsPosts(w) \/ ReadsThreads(w) \/ ReadsLikes(w)
    PROVE  UNCHANGED Tables
<1>1. CASE ReadsPosts(w)
  BY <1>1 DEF ReadsPosts, BeginHook, BeginCreate, BeginEdit, Tables
<1>2. CASE ReadsThreads(w)
  BY <1>2 DEF ReadsThreads, BeginComment, BeginReply, BeginDeletePost, BeginEditComment, BeginDeleteComment,
     BeginDeleteUser, BeginInitBadges, LoadReward, Tables
<1>3. CASE ReadsLikes(w)
  BY <1>3 DEF ReadsLikes, BeginLike, Tables
<1> QED BY <1>1, <1>2, <1>3

LEMMA StutterBase ==
    ASSUME Base, UNCHANGED vars
    PROVE  Base' /\ UNCHANGED Tables
<1>1. UNCHANGED Tables /\ UNCHANGED <<job, started>>
  BY DEF vars, Tables
<1>2. JobsOK' /\ BadgesOK'
  BY <1>1 DEF Base, JobsOK, BadgesOK, Renaming, Tables, threadVars
<1>3. started' \in 0..MaxRequests
  BY <1>1 DEF Base, SiteOK
<1> QED BY <1>1, <1>2, <1>3, TablesKept DEF Base

LEMMA CommitsBase ==
    ASSUME Base, NEW w \in Workers, Commits(w)
    PROVE  Base'
BY CommitCreateBase, CommitEditBase, CommitHookBase, InsertBase, CommitRewardBase, CommitEditCommentBase,
   CommitDeleteCommentBase, DeletePostBase, CommitDeleteUserBase, GiveLikeBase, TakeLikeBase,
   RenameBadgesBase, CreateBadgesBase DEF Commits

LEMMA StepBase ==
    ASSUME Base, [Next]_vars
    PROVE  Base'
BY Steps, ReadsBase, StutterBase, CommitsBase, MarkReadBase, TickBase

LEMMA BaseTypes == Base => TypeOK
<1> SUFFICES ASSUME Base PROVE TypeOK
  OBVIOUS
<1>1. badge \subseteq BadgeNames /\ Cardinality(badge) <= 1
  <2>1. badge = {} \/ badge = {"legacy"} \/ badge = {"current"}
    BY DEF Base, BadgesOK, BadgeTable
  <2>2. Cardinality({}) = 0 /\ Cardinality({"legacy"}) = 1 /\ Cardinality({"current"}) = 1
    BY FS_EmptySet, FS_Singleton
  <2> QED BY <2>1, <2>2 DEF BadgeNames
<1>2. PostsOK /\ CommentsOK /\ LikesOK /\ NoticesOK /\ UsersOK /\ SiteOK
  BY DEF Base
<1> QED BY <1>1, <1>2 DEF TypeOK, PostsOK, CommentsOK, LikesOK, NoticesOK, UsersOK, Accounts, SiteOK

(* Every table keeps its type, the ids of likes and notifications are not given
   twice, nobody likes a thing twice, and there is one badge at most.        *)
THEOREM TypeCorrect == Spec => []TypeOK
<1>1. Spec => []Base
  BY InitBase, StepBase, PTL DEF Spec
<1> QED BY <1>1, BaseTypes, PTL

-----------------------------------------------------------------------------
(* Deleted comments.                                                       *)

LEMMA StutterTables ==
    ASSUME UNCHANGED vars
    PROVE  UNCHANGED Tables
BY DEF vars, Tables

\* The steps that write comments; a lost update is never forgotten
LEMMA CommentSteps ==
    ASSUME [Next]_vars
    PROVE  \/ UNCHANGED comment
           \/ \E w \in Workers :
                 \/ Insert(w) \/ CommitEditComment(w) \/ CommitDeleteComment(w) \/ CommitDeletePost(w)
                 \/ CommitDeleteUser(w) \/ GiveLike(w) \/ TakeLike(w)
<1>1. CASE UNCHANGED Tables
  BY <1>1 DEF Tables, threadVars
<1>2. CASE Tick /\ UNCHANGED threadVars
  BY <1>2 DEF threadVars
<1>3. CASE \E u \in Users, S \in SUBSET notice : MarkRead(u, S)
  BY <1>3 DEF MarkRead
<1>4. CASE \E w \in Workers : Commits(w)
  <2>1. PICK w \in Workers : Commits(w)
    BY <1>4
  <2>2. CASE (CommitCreate(w) \/ CommitEdit(w) \/ CommitHook(w)) /\ UNCHANGED threadVars
    BY <2>2, Zenon DEF threadVars
  <2>3. CASE CommitReward(w) \/ RenameBadges(w) \/ CreateBadges(w)
    BY <2>3 DEF CommitReward, RenameBadges, CreateBadges
  <2> QED BY <2>1, <2>2, <2>3 DEF Commits
<1> QED BY <1>1, <1>2, <1>3, <1>4, Steps, StutterTables, ReadsTables

LEMMA Forever ==
    ASSUME [Next]_vars, overtaken
    PROVE  overtaken'
<1>1. CASE UNCHANGED Tables
  BY <1>1 DEF Tables
<1>2. CASE Tick /\ UNCHANGED threadVars
  BY <1>2 DEF Tick
<1>3. CASE \E u \in Users, S \in SUBSET notice : MarkRead(u, S)
  BY <1>3 DEF MarkRead
<1>4. CASE \E w \in Workers : Commits(w)
  <2>1. PICK w \in Workers : Commits(w)
    BY <1>4
  <2>2. CASE CommitCreate(w) \/ CommitEdit(w) \/ CommitHook(w)
    BY <2>2, Zenon DEF CommitCreate, CommitEdit, CommitHook
  <2>3. CASE Insert(w) \/ CommitReward(w) \/ CommitEditComment(w) \/ CommitDeleteComment(w)
    BY <2>3, Zenon DEF Insert, CommitReward, CommitEditComment, CommitDeleteComment
  <2>4. CASE CommitDeletePost(w) \/ CommitDeleteUser(w)
    BY <2>4, Zenon DEF CommitDeletePost, DeletePost, CommitDeleteUser
  <2>5. CASE GiveLike(w) \/ TakeLike(w)
    BY <2>5 DEF GiveLike, TakeLike
  <2>6. CASE RenameBadges(w) \/ CreateBadges(w)
    BY <2>6 DEF RenameBadges, CreateBadges
  <2> QED BY <2>1, <2>2, <2>3, <2>4, <2>5, <2>6 DEF Commits
<1> QED BY <1>1, <1>2, <1>3, <1>4, Steps, StutterTables, ReadsTables

\* What the steps do to the row of a comment
LEMMA InsertedComment ==
    ASSUME Base, NEW w \in Workers, Insert(w)
    PROVE  LET j == job[w]
               new == NextId(ExistingComments)
           IN  /\ new \in CommentIds /\ ~CommentExists(new)
               /\ comment'[new] \in CommentRow /\ ~comment'[new].deleted
               /\ comment'[new].post = j.post /\ comment'[new].author = j.by /\ comment'[new].likes = 0
               /\ comment'[new].parent = j.more.parent
               /\ comment'[new].stray <=> \/ ~UserExists(j.by) \/ ~PostExists(j.post)
                                          \/ j.more.parent # NoId /\ comment[j.more.parent].post # j.post
               /\ \A c \in CommentIds \ {new} : comment'[c] = comment[c]
<1> DEFINE j == job[w]
           new == NextId(ExistingComments)
           row == [uid |-> j.number, post |-> j.post, author |-> j.by, parent |-> j.more.parent,
                   deleted |-> FALSE, text |-> "written", likes |-> 0,
                   stray |-> \/ ~UserExists(j.by) \/ ~PostExists(j.post)
                             \/ j.more.parent # NoId /\ comment[j.more.parent].post # j.post]
<1>1. new \in CommentIds /\ comment' = [comment EXCEPT ![new] = row]
  BY DEF Insert
<1>2. ExistingComments \in SUBSET Nat /\ \A c \in ExistingComments : c <= MaxComment
  BY DiscussionAssumption DEF ExistingComments, CommentIds
<1>3. ~CommentExists(new)
  <2>1. new \notin ExistingComments
    BY <1>2, DiscussionAssumption, NewId
  <2> QED BY <1>1, <2>1 DEF ExistingComments
<1>4. CommentsOK'
  BY InsertBase DEF Base
<1>5. /\ j.number \in Nat /\ j.post \in PostIds /\ j.by \in Users
      /\ j.more.parent \in CommentIds \cup {NoId}
  <2>1. j \in CommentJobs \cup ReplyJobs
    BY JobShape DEF Insert, Base, JobsOK
  <2> QED BY <2>1 DEF CommentJobs, ReplyJobs, Request
<1> HIDE DEF j, new
<1>6. /\ row \in CommentRow /\ ~row.deleted /\ row.post = j.post /\ row.author = j.by /\ row.likes = 0
      /\ row.parent = j.more.parent
      /\ row.stray = \/ ~UserExists(j.by) \/ ~PostExists(j.post)
                     \/ j.more.parent # NoId /\ comment[j.more.parent].post # j.post
  BY <1>5 DEF CommentRow
<1> HIDE DEF row
<1>7. comment'[new] = row /\ \A c \in CommentIds \ {new} : comment'[c] = comment[c]
  BY <1>1 DEF Base, CommentsOK
<1>8. comment'[new].stray <=> \/ ~UserExists(j.by) \/ ~PostExists(j.post)
                              \/ j.more.parent # NoId /\ comment[j.more.parent].post # j.post
  BY <1>6, <1>7, Zenon
<1>9. /\ comment'[new] \in CommentRow /\ ~comment'[new].deleted
      /\ comment'[new].post = j.post /\ comment'[new].author = j.by /\ comment'[new].likes = 0
      /\ comment'[new].parent = j.more.parent
  BY <1>6, <1>7
<1> HIDE <1>6
<1>10. new \in CommentIds
  BY <1>1
<1> QED BY <1>3, <1>7, <1>8, <1>9, <1>10 DEF new, j

LEMMA DeletedComment ==
    ASSUME Base, NEW w \in Workers, CommitDeleteComment(w)
    PROVE  LET c == job[w].more.comment
               likes == LikesOf(<<"comment", c>>)
           IN  /\ c \in CommentIds
               /\ \/ UNCHANGED <<comment, like, user, notice>>
                  \/ /\ CommentExists(c) /\ comment'[c] = [comment[c] EXCEPT !.deleted = TRUE, !.text = "erased"]
                     /\ \A d \in CommentIds \ {c} : comment'[d] = comment[d]
                     /\ like' = like \ likes /\ user' = Kept(user, likes) /\ UNCHANGED notice
                  \/ /\ Replies(c) = {} /\ comment'[c] = NoComment
                     /\ \A d \in CommentIds \ {c} : comment'[d] = comment[d]
                     /\ like' = like \ likes /\ user' = Kept(user, likes)
                     /\ notice' = {n \in notice : n.comment # c}
<1> DEFINE c == job[w].more.comment
<1>1. c \in CommentIds
  <2>1. job[w] \in DeleteCommentJobs
    BY JobShape DEF CommitDeleteComment, Base, JobsOK
  <2> QED BY <2>1 DEF DeleteCommentJobs, Request
<1> DEFINE row == [comment[c] EXCEPT !.deleted = TRUE, !.text = "erased"]
           likes == LikesOf(<<"comment", c>>)
<1>2. CASE /\ CommentExists(c) /\ comment' = [comment EXCEPT ![c].deleted = TRUE, ![c].text = "erased"]
           /\ like' = like \ likes /\ user' = Kept(user, likes) /\ UNCHANGED notice
  <2>1. comment' = [comment EXCEPT ![c] = row]
    BY <1>1, <1>2 DEF Base, CommentsOK
  <2>2. comment'[c] = row /\ \A d \in CommentIds \ {c} : comment'[d] = comment[d]
    <3> HIDE DEF row, c
    <3> QED BY <1>1, <2>1 DEF Base, CommentsOK
  <2> QED BY <1>1, <1>2, <2>2, Zenon
<1>3. CASE /\ Replies(c) = {} /\ comment' = [comment EXCEPT ![c] = NoComment]
           /\ like' = like \ likes /\ user' = Kept(user, likes)
           /\ notice' = {n \in notice : n.comment # c}
  <2>1. comment'[c] = NoComment /\ \A d \in CommentIds \ {c} : comment'[d] = comment[d]
    <3> HIDE DEF c
    <3> QED BY <1>1, <1>3 DEF Base, CommentsOK
  <2> QED BY <1>1, <1>3, <2>1
<1> QED BY <1>1, <1>2, <1>3, Zenon DEF CommitDeleteComment

\* A like changes nothing of a post or a comment but its count
LEMMA LikesAlike ==
    ASSUME Base, NEW w \in Workers, GiveLike(w) \/ TakeLike(w)
    PROVE  PostsAlike /\ CommentsAlike
<1> DEFINE j == job[w]
           t == j.more.target
<1>1. t \in Targets /\ j.more.likes \in Nat
  BY LikeJob DEF GiveLike, TakeLike
<1>2. CASE UNCHANGED <<post, comment>>
  BY <1>2 DEF PostsAlike, CommentsAlike, PostExists, CommentExists
<1>3. CASE TargetExists(t) /\ \E n \in Nat : SetLikes(t, n)
  BY <1>1, <1>3, SetLikesOK
<1>4. CASE GiveLike(w)
  <2>1. j.more.likes + 1 \in Nat
    BY <1>1
  <2> QED BY <1>2, <1>3, <1>4, <2>1 DEF GiveLike
<1>5. CASE TakeLike(w)
  <2>1. CASE UNCHANGED <<post, comment, like, user, notice, overtaken>>
    BY <1>2, <2>1
  <2>2. CASE ~ UNCHANGED <<post, comment, like, user, notice, overtaken>>
    <3>1. \/ UNCHANGED <<post, comment>>
          \/ TargetExists(t) /\ j.more.likes # 0 /\ SetLikes(t, j.more.likes - 1)
      BY <1>5, <2>2, TakenLike
    <3>2. j.more.likes # 0 => j.more.likes - 1 \in Nat
      BY <1>1
    <3> QED BY <1>2, <1>3, <3>1, <3>2
  <2> QED BY <2>1, <2>2
<1> QED BY <1>4, <1>5

\* A comment outside those that go with a post
LEMMA SparedComment ==
    ASSUME Base, NEW c \in CommentIds, NEW comments \in SUBSET CommentIds
    PROVE  LET row == comment[c]
               new == [row EXCEPT !.stray = @ \/ row.parent \in comments]
           IN  /\ new # NoComment <=> CommentExists(c)
               /\ new.uid = row.uid /\ new.post = row.post /\ new.author = row.author /\ new.parent = row.parent
               /\ new.deleted = row.deleted /\ new.text = row.text /\ new.likes = row.likes
               /\ CommentExists(c) => new.stray = (row.stray \/ row.parent \in comments)
<1> DEFINE row == comment[c]
           stray == row.stray \/ row.parent \in comments
           new == [row EXCEPT !.stray = stray]
<1>1. CASE CommentExists(c)
  <2>1. row \in CommentRow /\ row.post \in PostIds
    BY <1>1, CommentRows DEF Base
  <2> HIDE DEF row, stray
  <2>2. /\ new.uid = row.uid /\ new.post = row.post /\ new.author = row.author /\ new.parent = row.parent
        /\ new.deleted = row.deleted /\ new.text = row.text /\ new.likes = row.likes /\ new.stray = stray
    BY <2>1 DEF CommentRow
  <2>3. new # NoComment
    BY <2>1, <2>2 DEF NoComment, NoId, PostIds
  <2> QED BY <1>1, <2>2, <2>3 DEF row, stray
<1>2. CASE ~CommentExists(c)
  <2>1. row = NoComment
    BY <1>2 DEF CommentExists
  <2>2. stray = FALSE
    BY <2>1 DEF NoComment, CommentIds, NoId
  <2>3. \E x1, x2, x3, x4, x5, x6, x7, x8 :
           /\ row = [uid |-> x1, post |-> x2, author |-> x3, parent |-> x4, deleted |-> x5, text |-> x6,
                     likes |-> x7, stray |-> x8]
           /\ x8 = stray
    BY <2>1, <2>2 DEF NoComment
  <2> HIDE DEF row, stray
  <2>4. PICK x1, x2, x3, x4, x5, x6, x7, x8 :
           /\ row = [uid |-> x1, post |-> x2, author |-> x3, parent |-> x4, deleted |-> x5, text |-> x6,
                     likes |-> x7, stray |-> x8]
           /\ x8 = stray
    BY <2>3
  <2>5. [row EXCEPT !.stray = x8] = row
    BY <2>4
  <2> QED BY <1>2, <2>1, <2>4, <2>5 DEF stray, row
<1> QED BY <1>1, <1>2

LEMMA DeletedPost ==
    ASSUME Base, NEW w \in Workers, CommitDeletePost(w)
    PROVE  LET p == job[w].post
               comments == job[w].more.comments
           IN  /\ p \in PostIds /\ comments \in SUBSET CommentIds
               /\ \/ UNCHANGED <<post, revision, comment, like, user, notice, overtaken>>
                  \/ /\ PostExists(p) /\ CommentsOf(p) \subseteq comments
                     /\ post'[p] = NoPost /\ \A q \in PostIds \ {p} : post'[q] = post[q]
                     /\ revision' = revision \ Revisions(p)
                     /\ \A c \in comments : comment'[c] = NoComment
                     /\ \A c \in CommentIds \ comments :
                           comment'[c] = [comment[c] EXCEPT !.stray = @ \/ comment[c].parent \in comments]
                     /\ like' = like \ LikesUnder(p, comments) /\ user' = Kept(user, LikesUnder(p, comments))
                     /\ notice' = {Detached(n, p, comments) : n \in notice}
                     /\ overtaken' = (overtaken \/ \E c \in comments : CommentExists(c) /\ comment[c].post # p)
<1> DEFINE p == job[w].post
           comments == job[w].more.comments
<1>1. p \in PostIds /\ comments \in SUBSET CommentIds
  <2>1. job[w] \in DeletePostJobs
    BY JobShape DEF CommitDeletePost, Base, JobsOK
  <2> QED BY <2>1 DEF DeletePostJobs, Request
<1>2. \/ UNCHANGED <<post, revision, comment, like, user, notice, overtaken>>
      \/ PostExists(p) /\ CommentsOf(p) \subseteq comments /\ DeletePost(p, comments)
  BY DEF CommitDeletePost
<1> HIDE DEF p, comments
<1>3. CASE PostExists(p) /\ CommentsOf(p) \subseteq comments /\ DeletePost(p, comments)
  <2>1. post' = [post EXCEPT ![p] = NoPost] /\ post \in [PostIds -> PostRow \cup {NoPost}]
    BY <1>3 DEF DeletePost, Base, PostsOK
  <2>2. post'[p] = NoPost /\ \A q \in PostIds \ {p} : post'[q] = post[q]
    BY <1>1, <2>1
  <2>3. comment' = [c \in CommentIds |-> IF c \in comments THEN NoComment
                       ELSE [comment[c] EXCEPT !.stray = @ \/ comment[c].parent \in comments]]
    BY <1>3 DEF DeletePost
  <2>4. /\ \A c \in comments : comment'[c] = NoComment
        /\ \A c \in CommentIds \ comments :
              comment'[c] = [comment[c] EXCEPT !.stray = @ \/ comment[c].parent \in comments]
    BY <1>1, <2>3, Zenon
  <2>5. /\ revision' = revision \ Revisions(p)
        /\ like' = like \ LikesUnder(p, comments) /\ user' = Kept(user, LikesUnder(p, comments))
        /\ notice' = {Detached(n, p, comments) : n \in notice}
        /\ overtaken' = (overtaken \/ \E c \in comments : CommentExists(c) /\ comment[c].post # p)
    BY <1>3 DEF DeletePost, LikesUnder
  <2> QED BY <1>1, <1>3, <2>2, <2>4, <2>5 DEF p, comments
<1> QED BY <1>1, <1>2, <1>3 DEF p, comments

LEMMA ErasedStep ==
    ASSUME Base, [Next]_vars, overtaken \/ \A c \in CommentIds : comment[c].deleted => comment[c].text = "erased",
           ~overtaken', NEW c \in CommentIds, comment'[c].deleted
    PROVE  comment'[c].text = "erased"
<1>1. comment[c].deleted => comment[c].text = "erased"
  BY Forever
<1>2. CASE UNCHANGED comment
  BY <1>1, <1>2
<1>3. ASSUME NEW w \in Workers, Insert(w)
      PROVE  comment'[c].text = "erased"
  BY <1>1, <1>3, InsertedComment
<1>4. ASSUME NEW w \in Workers, CommitEditComment(w)
      PROVE  comment'[c].text = "erased"
  <2> DEFINE d == job[w].more.comment
             row == comment[c]
  <2>1. job[w] \in EditCommentJobs
    BY <1>4, JobShape DEF CommitEditComment, Base, JobsOK
  <2>2. d \in CommentIds /\ ~job[w].more.row.deleted
    BY <2>1 DEF EditCommentJobs, Request, Intact
  <2>3. CASE UNCHANGED comment
    BY <1>1, <2>3
  <2>4. CASE CommentExists(d) /\ comment' = [comment EXCEPT ![d].text = "edited"]
             /\ comment[d].deleted = job[w].more.row.deleted
    <3>1. c # d => comment'[c] = comment[c]
      BY <2>4 DEF Base, CommentsOK
    <3>2. c = d => ~comment[c].deleted /\ comment'[c] = [comment[c] EXCEPT !.text = "edited"]
      BY <2>2, <2>4 DEF Base, CommentsOK
    <3>3. c = d => comment[c] \in CommentRow
      BY <2>4, CommentRows DEF Base
    <3> HIDE DEF d
    <3>4. c = d => comment'[c].deleted = comment[c].deleted
      BY <3>2, <3>3 DEF CommentRow
    <3> QED BY <1>1, <3>1, <3>2, <3>4
  <2> QED BY <1>4, <2>3, <2>4 DEF CommitEditComment
<1>5. ASSUME NEW w \in Workers, CommitDeleteComment(w)
      PROVE  comment'[c].text = "erased"
  <2> DEFINE d == job[w].more.comment
             row == [comment[d] EXCEPT !.deleted = TRUE, !.text = "erased"]
  <2>1. /\ d \in CommentIds
        /\ \/ UNCHANGED comment
           \/ /\ CommentExists(d) /\ comment'[d] = row
              /\ \A e \in CommentIds \ {d} : comment'[e] = comment[e]
           \/ comment'[d] = NoComment /\ \A e \in CommentIds \ {d} : comment'[e] = comment[e]
    BY <1>5, DeletedComment, Zenon
  <2>2. CommentExists(d) => comment[d] \in CommentRow
    BY <2>1, CommentRows DEF Base
  <2> HIDE DEF d
  <2>3. CommentExists(d) => row.text = "erased"
    BY <2>2 DEF CommentRow
  <2> HIDE DEF row
  <2> QED BY <1>1, <2>1, <2>3 DEF NoComment
<1>6. ASSUME NEW w \in Workers, CommitDeletePost(w)
      PROVE  comment'[c].text = "erased"
  <2> DEFINE comments == job[w].more.comments
             new == [comment[c] EXCEPT !.stray = @ \/ comment[c].parent \in comments]
  <2>1. /\ comments \in SUBSET CommentIds
        /\ comment'[c] \in {comment[c], NoComment, new}
    BY <1>6, DeletedPost
  <2>2. new.deleted = comment[c].deleted /\ new.text = comment[c].text
    BY <2>1, SparedComment
  <2> HIDE DEF new
  <2> QED BY <1>1, <2>1, <2>2 DEF NoComment
<1>7. ASSUME NEW w \in Workers, CommitDeleteUser(w)
      PROVE  comment'[c].text = "erased"
  <2>1. PICK u \in Users, gone \in SUBSET like :
          /\ IsFiniteSet(gone)
          /\ comment' = [d \in CommentIds |-> IF ~CommentExists(d) THEN NoComment ELSE CommentWithout(d, u, gone)]
    BY <1>7, DeletedUser
  <2>2. CASE CommentExists(c)
    <3>1. comment[c] \in CommentRow
      BY <2>2, CommentRows DEF Base
    <3>2. comment'[c] = CommentWithout(c, u, gone)
      BY <2>1, <2>2
    <3> DEFINE row == CommentWithout(c, u, gone)
    <3>5. IsFiniteSet(gone)
      BY <2>1
    <3>4. row.deleted = comment[c].deleted /\ row.text = comment[c].text
      BY <3>1, CommentWithoutKeeps
    <3> HIDE DEF row
    <3>3. comment'[c].deleted = comment[c].deleted /\ comment'[c].text = comment[c].text
      BY <3>2, <3>4 DEF row
    <3> QED BY <1>1, <3>3
  <2>3. CASE ~CommentExists(c)
    BY <2>1, <2>3 DEF NoComment
  <2> QED BY <2>2, <2>3
<1>8. ASSUME NEW w \in Workers, GiveLike(w) \/ TakeLike(w)
      PROVE  comment'[c].text = "erased"
  <2>1. UNCHANGED comment \/ CommentsAlike
    BY <1>8, LikesAlike
  <2> QED BY <1>1, <2>1 DEF CommentsAlike
<1> QED BY <1>2, <1>3, <1>4, <1>5, <1>6, <1>7, <1>8, CommentSteps

(* A deleted comment stays erased: the row an edit loaded was not deleted, so an
   edit of a deleted comment is a lost update.                               *)
THEOREM ErasedForGood == Spec => []ErasedStaysErased
<1> DEFINE Erased == overtaken \/ \A c \in CommentIds : comment[c].deleted => comment[c].text = "erased"
<1>1. Init => Erased
  BY DEF Init, NoComment
<1>2. Base /\ Erased /\ [Next]_vars => Erased'
  BY ErasedStep
<1>3. Erased => ErasedStaysErased
  BY DEF ErasedStaysErased, ExistingComments
<1> HIDE DEF Erased
<1> QED BY InitBase, StepBase, <1>1, <1>2, <1>3, PTL DEF Spec

-----------------------------------------------------------------------------
(* The badge.                                                              *)

(* An account has earned the badge once at most, and still holds it under the
   name it has in the table.                                               *)
BadgeHeld ==
    \A u \in Users :
        /\ user[u].awards <= 1
        /\ user[u].awards = 1 => badge # {} /\ badge \subseteq user[u].badges

\* The steps that write accounts or the table of badges
LEMMA UserSteps ==
    ASSUME [Next]_vars
    PROVE  \/ UNCHANGED <<user, badge>>
           \/ \E w \in Workers :
                 \/ CommitReward(w) \/ CommitDeleteComment(w) \/ CommitDeletePost(w) \/ CommitDeleteUser(w)
                 \/ GiveLike(w) \/ TakeLike(w) \/ RenameBadges(w) \/ CreateBadges(w)
<1>1. CASE UNCHANGED Tables
  BY <1>1 DEF Tables, threadVars
<1>2. CASE Tick /\ UNCHANGED threadVars
  BY <1>2 DEF threadVars
<1>3. CASE \E u \in Users, S \in SUBSET notice : MarkRead(u, S)
  BY <1>3 DEF MarkRead
<1>4. CASE \E w \in Workers : Commits(w)
  <2>1. PICK w \in Workers : Commits(w)
    BY <1>4
  <2>2. CASE (CommitCreate(w) \/ CommitEdit(w) \/ CommitHook(w)) /\ UNCHANGED threadVars
    BY <2>2 DEF threadVars
  <2>3. CASE Insert(w) \/ CommitEditComment(w)
    BY <2>3 DEF Insert, CommitEditComment
  <2> QED BY <2>1, <2>2, <2>3 DEF Commits
<1> QED BY <1>1, <1>2, <1>3, <1>4, Steps, StutterTables, ReadsTables

\* What the steps do to the row of an account
LEMMA RewardedUser ==
    ASSUME Base, NEW w \in Workers, CommitReward(w)
    PROVE  LET j == job[w]
               seen == j.more.row
               row == Awarded(Granted(seen, Points(j.op)), j.by)
           IN  \/ UNCHANGED <<user, notice, overtaken>>
               \/ /\ j.by \in Users /\ UserExists(j.by) /\ seen \in UserRow /\ row \in UserRow
                  /\ user'[j.by] = Rewritten(user[j.by], seen, row)
                  /\ \A u \in Users \ {j.by} : user'[u] = user[u]
                  /\ row.granted >= seen.granted /\ row.awards >= seen.awards
                  /\ row.xp - seen.xp = row.granted - seen.granted
                  /\ \/ row.awards = seen.awards /\ row.badges = seen.badges
                     \/ /\ ~(badge \subseteq seen.badges) /\ row.badges = seen.badges \cup badge
                        /\ row.awards = seen.awards + 1
                  /\ overtaken' = (overtaken \/ Columns(user[j.by]) # Columns(seen))
                  /\ notice' = notice \cup RewardNews(w)
<1> DEFINE j == job[w]
           seen == j.more.row
           row == Awarded(Granted(seen, Points(j.op)), j.by)
<1>1. job[w] # Idle /\ job[w].at = "award"
  BY DEF CommitReward
<1>2. /\ j.by \in Users /\ seen \in UserRow /\ row \in UserRow
      /\ row.granted >= seen.granted
      /\ row.xp - seen.xp = row.granted - seen.granted
      /\ \/ row.awards = seen.awards /\ row.badges = seen.badges
         \/ /\ ~(badge \subseteq seen.badges) /\ row.badges = seen.badges \cup badge
            /\ row.awards = seen.awards + 1
  BY <1>1, RewardRow
<1>3. \/ UNCHANGED <<user, notice, overtaken>>
      \/ /\ UserExists(j.by)
         /\ user' = [user EXCEPT ![j.by] = Rewritten(@, seen, row)]
         /\ overtaken' = (overtaken \/ Columns(user[j.by]) # Columns(seen))
         /\ notice' = notice \cup RewardNews(w)
  BY DEF CommitReward, RewardNews
<1> HIDE DEF row, seen
<1>4. row.awards >= seen.awards
  BY <1>2 DEF UserRow
<1> HIDE DEF j
<1>5. user \in Accounts
  BY DEF Base, UsersOK
<1> QED BY <1>2, <1>3, <1>4, <1>5, Zenon DEF Accounts, j, seen, row

\* A renaming that ends there is rolled back.
LEMMA RenamedBack ==
    ASSUME Base, NEW w \in Workers, RenameBadges(w), End(w)
    PROVE  UNCHANGED <<badge, user, overtaken>>
<1>1. At(w, "initBadges", "commit")
  BY DEF RenameBadges
<1>2. job'[w] = Idle /\ job[w] # Idle
  BY <1>1 DEF End, At, Base, JobsOK
<1>3. job' # [job EXCEPT ![w].at = "create"]
  <2>1. [job EXCEPT ![w].at = "create"][w] = [job[w] EXCEPT !.at = "create"]
    BY DEF Base, JobsOK
  <2>2. job[w] \in InitBadgesJobs
    BY <1>1, JobShape DEF Base, JobsOK
  <2>3. [job[w] EXCEPT !.at = "create"].op = job[w].op
    BY <2>2 DEF InitBadgesJobs, Request
  <2>4. [job[w] EXCEPT !.at = "create"].op = "initBadges"
    BY <1>1, <2>3 DEF At
  <2>5. Idle.op = "idle"
    BY DEF Idle
  <2>6. [job EXCEPT ![w].at = "create"][w].op = "initBadges"
    BY <2>1, <2>4
  <2> QED BY <1>2, <2>5, <2>6
<1> QED BY <1>3 DEF RenameBadges

LEMMA BadgeStep ==
    ASSUME Base, [Next]_vars, overtaken \/ BadgeHeld, ~overtaken', NEW u \in Users
    PROVE  /\ user'[u].awards <= 1
           /\ user'[u].awards = 1 => badge' # {} /\ badge' \subseteq user'[u].badges
<1> DEFINE Held == /\ user'[u].awards <= 1
                   /\ user'[u].awards = 1 => badge' # {} /\ badge' \subseteq user'[u].badges
<1>1. /\ user[u].awards <= 1 /\ (user[u].awards = 1 => badge # {} /\ badge \subseteq user[u].badges)
      /\ user[u] \in UserRow /\ user[u].awards \in Nat
  <2>1. user[u] \in UserRow
    BY UserRows DEF Base
  <2>2. BadgeHeld
    BY Forever
  <2> QED BY <2>1, <2>2 DEF BadgeHeld, UserRow
<1>2. CASE UNCHANGED <<user, badge>>
  BY <1>1, <1>2
<1>3. ASSUME user'[u].awards = user[u].awards, user'[u].badges = user[u].badges, badge' = badge
      PROVE  Held
  BY <1>1, <1>3
<1>4. ASSUME NEW w \in Workers, CommitReward(w)
      PROVE  Held
  <2> DEFINE j == job[w]
             seen == j.more.row
             row == Awarded(Granted(seen, Points(j.op)), j.by)
  <2>1. badge' = badge
    BY <1>4 DEF CommitReward
  <2>2. CASE user' = user
    BY <1>3, <2>1, <2>2
  <2>3. CASE user' # user
    <3>1. /\ j.by \in Users /\ seen \in UserRow /\ row \in UserRow
          /\ user'[j.by] = Rewritten(user[j.by], seen, row)
          /\ \A x \in Users \ {j.by} : user'[x] = user[x]
          /\ row.granted >= seen.granted /\ row.awards >= seen.awards
          /\ \/ row.awards = seen.awards /\ row.badges = seen.badges
             \/ /\ ~(badge \subseteq seen.badges) /\ row.badges = seen.badges \cup badge
                /\ row.awards = seen.awards + 1
          /\ Columns(user[j.by]) = Columns(seen)
      BY <1>4, <2>3, RewardedUser
    <3> HIDE DEF row, seen
    <3> HIDE DEF j
    <3>2. CASE u # j.by
      BY <1>3, <2>1, <3>1, <3>2
    <3>3. CASE u = j.by
      <4>1. user[u].badges = seen.badges
        BY <3>1, <3>3 DEF Columns
      <4>2. /\ user'[u].badges = IF row.badges # seen.badges THEN row.badges ELSE user[u].badges
            /\ user'[u].awards = user[u].awards + (row.awards - seen.awards)
        BY <1>1, <3>1, <3>3, RewrittenUser
      <4>3. seen.awards \in Nat
        BY <3>1 DEF UserRow
      <4>4. CASE row.awards = seen.awards /\ row.badges = seen.badges
        <5>1. user'[u].awards = user[u].awards /\ user'[u].badges = user[u].badges
          BY <1>1, <4>2, <4>3, <4>4
        <5> QED BY <1>3, <2>1, <5>1
      <4>5. CASE /\ ~(badge \subseteq seen.badges) /\ row.badges = seen.badges \cup badge
                 /\ row.awards = seen.awards + 1
        <5>1. user[u].awards # 1
          BY <1>1, <4>1, <4>5
        <5>2. user'[u].awards = 1
          BY <1>1, <4>2, <4>3, <4>5, <5>1
        <5>3. badge # {} /\ badge \subseteq row.badges /\ row.badges # seen.badges
          BY <4>5
        <5> QED BY <2>1, <4>2, <5>2, <5>3
      <4> QED BY <3>1, <4>4, <4>5
    <3> QED BY <3>2, <3>3
  <2> QED BY <2>2, <2>3
<1>5. ASSUME NEW likes, IsFiniteSet(likes), user'[u] = Kept(user, likes)[u], badge' = badge
      PROVE  Held
  BY <1>3, <1>5, KeptOK DEF Base
<1>6. ASSUME NEW w \in Workers, CommitDeleteComment(w) \/ CommitDeletePost(w) \/ CommitDeleteUser(w)
      PROVE  Held
  <2>1. badge' = badge
    BY <1>6, Zenon DEF CommitDeleteComment, CommitDeletePost, CommitDeleteUser
  <2>2. \A likes \in SUBSET like : IsFiniteSet(likes)
    BY FS_Subset DEF Base, LikesOK
  <2>3. CASE CommitDeleteComment(w)
    <3>1. user' = user \/ user' = Kept(user, LikesOf(<<"comment", job[w].more.comment>>))
      BY <2>3 DEF CommitDeleteComment
    <3>2. LikesOf(<<"comment", job[w].more.comment>>) \in SUBSET like
      BY DEF LikesOf
    <3> QED BY <1>3, <1>5, <2>1, <2>2, <3>1, <3>2
  <2>4. CASE CommitDeletePost(w)
    <3> DEFINE likes == LikesUnder(job[w].post, job[w].more.comments)
    <3>1. user' = user \/ user' = Kept(user, likes)
      BY <2>4, DeletedPost
    <3>2. likes \in SUBSET like
      BY DEF LikesOf, LikesUnder
    <3> HIDE DEF likes
    <3> QED BY <1>3, <1>5, <2>1, <2>2, <3>1, <3>2
  <2>5. CASE CommitDeleteUser(w)
    <3>1. PICK x \in Users, gone \in SUBSET like : user' = [Kept(user, gone) EXCEPT ![x] = Gone]
      BY <2>5, DeletedUser
    <3>2. Kept(user, gone) \in Accounts
      BY <2>2, KeptOK DEF Base
    <3>3. CASE u = x
      <4>1. user'[u] = Gone
        BY <3>1, <3>2, <3>3 DEF Accounts
      <4>2. user'[u].awards = 0
        BY <4>1 DEF Gone
      <4> QED BY <4>2
    <3>4. CASE u # x
      <4>1. user'[u] = Kept(user, gone)[u]
        BY <3>1, <3>2, <3>4 DEF Accounts
      <4> QED BY <1>5, <2>1, <2>2, <4>1
    <3> QED BY <3>3, <3>4
  <2> QED BY <1>6, <2>3, <2>4, <2>5
<1>7. ASSUME NEW w \in Workers, GiveLike(w)
      PROVE  Held
  <2> DEFINE t == job[w].more.target
  <2>1. badge' = badge /\ \/ user' = user
                          \/ user' = [x \in Users |-> IF x \in Rewarded(job[w]) THEN Gain(user[x], Worth(t))
                                                      ELSE user[x]]
    BY <1>7 DEF GiveLike
  <2>2. Worth(t) \in Nat
    BY DEF Worth, PostLike, CommentLike
  <2> HIDE DEF t
  <2>3. user'[u] = user[u] \/ user'[u] = Gain(user[u], Worth(t))
    BY <2>1
  <2> QED BY <1>1, <1>3, <2>1, <2>2, <2>3, GainOK
<1>8. ASSUME NEW w \in Workers, TakeLike(w)
      PROVE  Held
  <2> DEFINE a == job[w].more.author
             t == job[w].more.target
  <2>1. badge' = badge
    BY <1>8 DEF TakeLike
  <2>2. CASE UNCHANGED <<post, comment, like, user, notice, overtaken>>
    BY <1>3, <2>1, <2>2
  <2>3. CASE ~ UNCHANGED <<post, comment, like, user, notice, overtaken>>
    <3>1. \/ user' = user
          \/ a \in Users /\ UserExists(a) /\ user' = [user EXCEPT ![a].xp = Max({0, @ - Worth(t)})]
      BY <1>8, <2>3, TakenLike
    <3>2. Worth(t) \in Nat
      BY DEF Worth, PostLike, CommentLike
    <3> HIDE DEF a, t
    <3>3. user' = user \/ (a \in Users /\ user'[a].badges = user[a].badges /\ user'[a].awards = user[a].awards
                             /\ \A x \in Users \ {a} : user'[x] = user[x])
      BY <3>1, <3>2, RevokedXp DEF Base
    <3> QED BY <1>3, <2>1, <3>3
  <2> QED BY <2>2, <2>3
<1>9. ASSUME NEW w \in Workers, RenameBadges(w)
      PROVE  Held
  <2> DEFINE seen == AccountsRead(job[w])[u]
             new == Renamed(seen)
  <2>1. CASE End(w)
    BY <1>2, <1>9, <2>1, RenamedBack
  <2>2. CASE ~ End(w)
    <3>1. /\ AccountsRead(job[w]) \in Accounts
          /\ badge' \in BadgeTable /\ "legacy" \notin badge' /\ (badge # {} => badge' # {})
          /\ \/ user'[u] = user[u] /\ (seen = Gone \/ new = seen)
             \/ UserExists(u) /\ seen # Gone /\ user'[u] = Rewritten(user[u], seen, new)
          /\ user[u].badges = seen.badges
      BY <1>9, <2>2, RenamedTables
    <3>2. seen \in UserRow
      BY <3>1 DEF Accounts, UserRow, Gone
    <3> HIDE DEF seen, new
    <3>3. /\ new \in UserRow /\ new.badges = (IF seen.badges = {} THEN {} ELSE {"current"})
          /\ new.granted = seen.granted /\ new.awards = seen.awards
      BY <3>2, RenamedRow DEF new
    <3>4. seen.granted \in Nat /\ seen.awards \in Nat
      BY <3>2 DEF UserRow
    <3>5. badge' = {} \/ badge' = {"current"}
      BY <3>1 DEF BadgeTable
    <3>6. user'[u].awards = user[u].awards /\ (user[u].badges # {} => user'[u].badges = {"current"})
      <4>1. CASE user'[u] = user[u] /\ (seen = Gone \/ new = seen)
        BY <3>1, <3>3, <4>1 DEF Gone
      <4>2. CASE user'[u] = Rewritten(user[u], seen, new)
        <5>1. new.granted >= seen.granted /\ new.awards >= seen.awards
          BY <3>3, <3>4
        <5>2. /\ user'[u].awards = user[u].awards + (new.awards - seen.awards)
              /\ user'[u].badges = IF new.badges # seen.badges THEN new.badges ELSE user[u].badges
          BY <1>1, <3>2, <3>3, <4>2, <5>1, RewrittenUser
        <5>3. user'[u].awards = user[u].awards
          BY <1>1, <3>3, <3>4, <5>2
        <5> QED BY <3>1, <3>3, <5>2, <5>3
      <4> QED BY <3>1, <4>1, <4>2
    <3> QED BY <1>1, <3>1, <3>5, <3>6
  <2> QED BY <2>1, <2>2
<1>10. ASSUME NEW w \in Workers, CreateBadges(w)
       PROVE  Held
  <2>1. "legacy" \notin badge /\ badge' = badge \cup {"current"} /\ user' = user
    BY <1>10, CreateBadgesBase DEF CreateBadges
  <2>2. badge = {} \/ badge = {"current"}
    BY <2>1 DEF Base, BadgesOK, BadgeTable
  <2> QED BY <1>1, <2>1, <2>2
<1> QED BY <1>2, <1>4, <1>6, <1>7, <1>8, <1>9, <1>10, UserSteps

(* Nobody earns the badge twice: who earned it holds it under the name it has in
   the table, through its renaming.                                          *)
THEOREM EarnedOnce == Spec => []BadgeOnce
<1> DEFINE Held == overtaken \/ BadgeHeld
<1>1. Init => Held
  <2> SUFFICES ASSUME Init PROVE BadgeHeld
    OBVIOUS
  <2>1. /\ badge = Badges
        /\ \A u \in Users : /\ user[u].badges = IF u \in Holders THEN Badges ELSE {}
                            /\ user[u].awards = IF u \in Holders THEN 1 ELSE 0
    BY DEF Init
  <2>2. Badges = {} => Holders = {}
    BY DiscussionAssumption
  <2> QED BY <2>1, <2>2 DEF BadgeHeld
<1>2. Base /\ Held /\ [Next]_vars => Held'
  BY BadgeStep DEF BadgeHeld
<1>3. Held => BadgeOnce
  BY DEF BadgeOnce, BadgeHeld
<1> HIDE DEF Held
<1> QED BY InitBase, StepBase, <1>1, <1>2, <1>3, PTL DEF Spec

-----------------------------------------------------------------------------
(* What the steps do to the row of a post.                                 *)

LEMMA CreatedPost ==
    ASSUME Base, NEW w \in Workers, CommitCreate(w)
    PROVE  LET j == job[w]
               new == NextId(ExistingPosts)
           IN  /\ j \in CreateJobs /\ UNCHANGED <<revision, siteVars, started, overtaken>>
               /\ \/ UNCHANGED postVars /\ End(w)
                  \/ /\ new \in PostIds /\ ~PostExists(new)
                     /\ post'[new] = NewPost(j.by, j.more.form, j.number) /\ post'[new] \in PostRow
                     /\ \A p \in PostIds \ {new} : post'[p] = post[p]
                     /\ job' = [job EXCEPT ![w].at = "reward", ![w].post = new]
<1> DEFINE j == job[w]
           new == NextId(ExistingPosts)
<1>1. j \in CreateJobs /\ UNCHANGED <<revision, siteVars, started, overtaken>>
  BY JobShape DEF CommitCreate, Base, JobsOK, postVars
<1>2. \/ UNCHANGED postVars /\ End(w)
      \/ /\ new \in PostIds /\ post' = [post EXCEPT ![new] = NewPost(j.by, j.more.form, j.number)]
         /\ job' = [job EXCEPT ![w].at = "reward", ![w].post = new]
  BY DEF CommitCreate
<1>3. new \in PostIds => ~PostExists(new)
  <2>1. ExistingPosts \in SUBSET Nat /\ MaxPost \in Nat /\ \A p \in ExistingPosts : p <= MaxPost
    BY PostsAssumption DEF ExistingPosts, PostIds
  <2>2. new \notin ExistingPosts
    BY <2>1, NewId
  <2> QED BY <2>2 DEF ExistingPosts
<1>4. NewPost(j.by, j.more.form, j.number) \in PostRow
  BY <1>1, NewPostOK, PostsAssumption DEF CreateJobs, Request
<1>5. post \in [PostIds -> PostRow \cup {NoPost}]
  BY DEF Base, PostsOK
<1> HIDE DEF j, new
<1> QED BY <1>1, <1>2, <1>3, <1>4, <1>5 DEF j, new

LEMMA EditedPost ==
    ASSUME Base, NEW w \in Workers, CommitEdit(w)
    PROVE  LET j == job[w]
               p == j.post
               seen == j.more.seen
               form == j.more.form
           IN  /\ j \in EditJobs /\ p \in PostIds /\ seen \in PostRow /\ form \in Form /\ j.number \in Nat
               /\ j.more.version \in Nat \ {0}
               /\ End(w) /\ UNCHANGED <<siteVars, started>>
               /\ \/ UNCHANGED <<postVars, overtaken>>
                  \/ /\ PostExists(p) /\ \A q \in PostIds \ {p} : post'[q] = post[q]
                     /\ post'[p] \in PostRow /\ post'[p].author = post[p].author /\ post'[p].likes = post[p].likes
                     /\ post'[p].published =
                          IF form.published # seen.published THEN form.published ELSE post[p].published
                     /\ post'[p].draft = IF IsDraft(form) # seen.draft THEN IsDraft(form) ELSE post[p].draft
                     /\ post'[p].date = IF form.date # seen.date THEN form.date ELSE post[p].date
                     /\ post'[p].text = IF j.number # seen.text THEN j.number ELSE post[p].text
                     /\ post'[p].asked = form /\ post'[p].past = post[p].past \cup {j.number}
                     /\ revision' = revision \cup {[post |-> p, version |-> j.more.version, text |-> seen.text]}
                     /\ overtaken' = (overtaken \/ post[p].text # seen.text
                                                \/ post[p].published # seen.published)
<1> DEFINE j == job[w]
           p == j.post
           seen == j.more.seen
           form == j.more.form
           new == Edited(seen, form, j.number)
           row == Merged(post[p], seen, new)
           past == row.past \cup {j.number}
           saved == [row EXCEPT !.asked = form, !.past = past]
<1>1. j \in EditJobs /\ End(w) /\ UNCHANGED <<siteVars, started>>
  BY JobShape DEF CommitEdit, Base, JobsOK
<1>2. /\ j.number \in Nat /\ form \in Forms /\ form \in Form
      /\ p \in PostIds /\ seen \in PostRow /\ j.more.version \in Nat \ {0}
  BY <1>1, PostsAssumption DEF EditJobs, Request
<1>3. \/ UNCHANGED <<postVars, overtaken>>
      \/ /\ PostExists(p)
         /\ post' = [post EXCEPT ![p] = [row EXCEPT !.asked = form, !.past = @ \cup {j.number}]]
         /\ revision' = revision \cup {[post |-> p, version |-> j.more.version, text |-> Archived(seen, row)]}
         /\ overtaken' = (overtaken \/ post[p].text # seen.text \/ post[p].published # seen.published)
  BY DEF CommitEdit
<1>4. [row EXCEPT !.asked = form, !.past = @ \cup {j.number}] = saved
  OBVIOUS
<1>5. Archived(seen, row) = seen.text
  BY DEF Archived
<1>6. ASSUME PostExists(p)
      PROVE  /\ saved \in PostRow /\ saved.author = post[p].author /\ saved.likes = post[p].likes
             /\ saved.published = IF form.published # seen.published THEN form.published ELSE post[p].published
             /\ saved.draft = IF IsDraft(form) # seen.draft THEN IsDraft(form) ELSE post[p].draft
             /\ saved.date = IF form.date # seen.date THEN form.date ELSE post[p].date
             /\ saved.text = IF j.number # seen.text THEN j.number ELSE post[p].text
             /\ saved.asked = form /\ saved.past = post[p].past \cup {j.number}
  <2>1. post[p] \in PostRow
    BY <1>2, <1>6, PostRows DEF Base
  <2>2. /\ new \in PostRow /\ new.author = seen.author /\ new.published = form.published
        /\ new.draft = IsDraft(form) /\ new.date = form.date /\ new.text = j.number /\ new.likes = seen.likes
        /\ new.asked = seen.asked /\ new.past = seen.past
    BY <1>2, EditedOK
  <2> HIDE DEF new, seen, form, p, j
  <2>3. /\ row \in PostRow /\ row.author = post[p].author /\ row.likes = post[p].likes
        /\ row.published = IF form.published # seen.published THEN form.published ELSE post[p].published
        /\ row.draft = IF IsDraft(form) # seen.draft THEN IsDraft(form) ELSE post[p].draft
        /\ row.date = IF form.date # seen.date THEN form.date ELSE post[p].date
        /\ row.text = IF j.number # seen.text THEN j.number ELSE post[p].text
        /\ row.past = post[p].past
    BY <1>2, <2>1, <2>2, MergedPost
  <2>4. past \in SUBSET Nat
    BY <1>2, <2>3 DEF PostRow
  <2>5. past = post[p].past \cup {j.number}
    BY <2>3
  <2> HIDE DEF row, past
  <2>6. /\ saved \in PostRow /\ saved.author = row.author /\ saved.likes = row.likes
        /\ saved.published = row.published /\ saved.draft = row.draft /\ saved.date = row.date
        /\ saved.text = row.text /\ saved.asked = form /\ saved.past = past
    BY <1>2, <2>3, <2>4, Zenon DEF PostRow
  <2> QED BY <2>3, <2>5, <2>6
<1>7. post \in [PostIds -> PostRow \cup {NoPost}]
  BY DEF Base, PostsOK
<1>8. CASE /\ PostExists(p) /\ post' = [post EXCEPT ![p] = saved]
           /\ revision' = revision \cup {[post |-> p, version |-> j.more.version, text |-> seen.text]}
           /\ overtaken' = (overtaken \/ post[p].text # seen.text \/ post[p].published # seen.published)
  <2> HIDE DEF saved, p
  <2>1. post'[p] = saved /\ \A q \in PostIds \ {p} : post'[q] = post[q]
    BY <1>2, <1>7, <1>8
  <2> QED BY <1>1, <1>2, <1>6, <1>8, <2>1, Zenon DEF p
<1> QED BY <1>1, <1>2, <1>3, <1>4, <1>5, <1>8, Zenon

LEMMA HookedPosts ==
    ASSUME Base, NEW w \in Workers, CommitHook(w)
    PROVE  LET seen == job[w].more
               due == DOMAIN seen
           IN  /\ job[w] \in HookJobs /\ due \in SUBSET PostIds /\ \A p \in due : seen[p] \in PostRow
               /\ End(w) /\ UNCHANGED <<revision, tag, siteVars, started>>
               /\ \/ UNCHANGED <<post, overtaken>>
                  \/ /\ \A p \in due :
                          /\ PostExists(p) /\ post'[p] \in PostRow
                          /\ post'[p].author = post[p].author /\ post'[p].date = post[p].date
                          /\ post'[p].text = post[p].text /\ post'[p].likes = post[p].likes
                          /\ post'[p].asked = post[p].asked /\ post'[p].past = post[p].past
                          /\ post'[p].published = (~seen[p].published \/ post[p].published)
                          /\ post'[p].draft = (~seen[p].draft /\ post[p].draft)
                     /\ \A p \in PostIds \ due : post'[p] = post[p]
                     /\ overtaken' = (overtaken \/ \E p \in due : post[p].text # seen[p].text)
<1> DEFINE seen == job[w].more
           due == DOMAIN seen
           New(p) == [seen[p] EXCEPT !.published = TRUE, !.draft = FALSE]
<1>1. job[w] \in HookJobs /\ End(w) /\ UNCHANGED <<revision, tag, siteVars, started>>
  BY JobShape, Zenon DEF CommitHook, Base, JobsOK
<1>2. due \in SUBSET PostIds /\ \A p \in due : seen[p] \in PostRow
  BY <1>1 DEF HookJobs, Request
<1>3. CASE /\ due \subseteq ExistingPosts
           /\ post' = [p \in PostIds |-> IF p \notin due THEN post[p] ELSE Merged(post[p], seen[p], New(p))]
           /\ overtaken' = (overtaken \/ \E p \in due : post[p].text # seen[p].text)
  <2>1. ASSUME NEW p \in due
        PROVE  /\ PostExists(p) /\ post'[p] \in PostRow
               /\ post'[p].author = post[p].author /\ post'[p].date = post[p].date
               /\ post'[p].text = post[p].text /\ post'[p].likes = post[p].likes
               /\ post'[p].asked = post[p].asked /\ post'[p].past = post[p].past
               /\ post'[p].published = (~seen[p].published \/ post[p].published)
               /\ post'[p].draft = (~seen[p].draft /\ post[p].draft)
    <3>1. seen[p] \in PostRow /\ p \in PostIds /\ PostExists(p)
      BY <1>2, <1>3, <2>1, Zenon DEF ExistingPosts
    <3>2. post[p] \in PostRow /\ New(p) \in PostRow /\ New(p).published = TRUE /\ New(p).draft = FALSE
          /\ New(p).author = seen[p].author /\ New(p).date = seen[p].date /\ New(p).text = seen[p].text
          /\ New(p).likes = seen[p].likes /\ New(p).asked = seen[p].asked /\ New(p).past = seen[p].past
      <4>1. post[p] \in PostRow
        BY <3>1, PostRows DEF Base
      <4> HIDE DEF seen
      <4>2. /\ New(p) \in PostRow /\ New(p).published = TRUE /\ New(p).draft = FALSE
            /\ New(p).author = seen[p].author /\ New(p).date = seen[p].date /\ New(p).text = seen[p].text
            /\ New(p).likes = seen[p].likes /\ New(p).asked = seen[p].asked /\ New(p).past = seen[p].past
        BY <3>1 DEF PostRow
      <4> QED BY <4>1, <4>2
    <3>3. post'[p] = Merged(post[p], seen[p], New(p))
      BY <1>3, <3>1, Zenon
    <3> HIDE DEF New, seen
    <3>4. /\ post'[p] \in PostRow
          /\ post'[p].author = post[p].author /\ post'[p].date = post[p].date
          /\ post'[p].text = post[p].text /\ post'[p].likes = post[p].likes
          /\ post'[p].asked = post[p].asked /\ post'[p].past = post[p].past
      BY <3>1, <3>2, <3>3, MergedPost
    <3>5. /\ post'[p].published = IF New(p).published # seen[p].published THEN New(p).published
                                  ELSE post[p].published
          /\ post'[p].draft = IF New(p).draft # seen[p].draft THEN New(p).draft ELSE post[p].draft
      BY <3>1, <3>2, <3>3, MergedPost
    <3>6. /\ seen[p].published \in BOOLEAN /\ seen[p].draft \in BOOLEAN
          /\ post[p].published \in BOOLEAN /\ post[p].draft \in BOOLEAN
      BY <3>1, <3>2 DEF PostRow
    <3>7. /\ post'[p].published = (~seen[p].published \/ post[p].published)
          /\ post'[p].draft = (~seen[p].draft /\ post[p].draft)
      BY <3>2, <3>5, <3>6
    <3> QED BY <3>1, <3>4, <3>7
  <2>2. \A p \in PostIds \ due : post'[p] = post[p]
    BY <1>3, Zenon
  <2> QED BY <1>1, <1>2, <1>3, <2>1, <2>2, Zenon
<1> QED BY <1>1, <1>2, <1>3, Zenon DEF CommitHook

\* The steps that write posts
LEMMA PostSteps ==
    ASSUME [Next]_vars
    PROVE  \/ UNCHANGED post
           \/ \E w \in Workers :
                 \/ CommitCreate(w) \/ CommitEdit(w) \/ CommitHook(w) \/ CommitDeletePost(w)
                 \/ CommitDeleteUser(w) \/ GiveLike(w) \/ TakeLike(w)
<1>1. CASE UNCHANGED Tables
  BY <1>1 DEF Tables, postVars
<1>2. CASE Tick /\ UNCHANGED threadVars
  BY <1>2 DEF Tick, postVars
<1>3. CASE \E u \in Users, S \in SUBSET notice : MarkRead(u, S)
  BY <1>3 DEF MarkRead, postVars
<1>4. CASE \E w \in Workers : Commits(w)
  <2>1. PICK w \in Workers : Commits(w)
    BY <1>4
  <2>2. CASE Insert(w) \/ CommitReward(w) \/ CommitEditComment(w) \/ CommitDeleteComment(w)
    BY <2>2, Zenon DEF Insert, CommitReward, CommitEditComment, CommitDeleteComment, postVars
  <2>3. CASE RenameBadges(w) \/ CreateBadges(w)
    BY <2>3 DEF RenameBadges, CreateBadges, postVars
  <2> QED BY <2>1, <2>2, <2>3 DEF Commits
<1> QED BY <1>1, <1>2, <1>3, <1>4, Steps, StutterTables, ReadsTables

-----------------------------------------------------------------------------
(* References.                                                             *)

\* Posts, accounts and comments stay, but for the deletions.
LEMMA PostsStay ==
    ASSUME Base, [Next]_vars
    PROVE  \/ \A p \in PostIds : PostExists(p) => PostExists(p)'
           \/ \E w \in Workers : CommitDeletePost(w)
<1>1. PostsOK' /\ PostsOK
  BY StepBase DEF Base
<1>2. \A p \in PostIds : PostExists(p)' <=> post'[p].author # NoUser
  BY <1>1, PostsAssumption DEF PostsOK, PostExists, PostRow, NoPost
<1>3. CASE UNCHANGED post
  BY <1>3 DEF PostExists
<1>4. ASSUME NEW w \in Workers, CommitCreate(w), NEW p \in PostIds, PostExists(p)
      PROVE  PostExists(p)'
  <2>1. post'[p] = post[p]
    BY <1>4, CreatedPost DEF postVars
  <2> QED BY <1>4, <2>1 DEF PostExists
<1>5. ASSUME NEW w \in Workers, CommitEdit(w) \/ CommitHook(w), NEW p \in PostIds, PostExists(p)
      PROVE  PostExists(p)'
  <2>1. post'[p].author = post[p].author
    BY <1>5, EditedPost, HookedPosts DEF postVars
  <2> QED BY <1>2, <1>5, <2>1, PostRows DEF Base
<1>6. ASSUME NEW w \in Workers, CommitDeleteUser(w), NEW p \in PostIds, PostExists(p)
      PROVE  PostExists(p)'
  <2>1. PICK u \in Users, heir \in Users, gone \in SUBSET like :
             /\ IsFiniteSet(gone)
             /\ post' = [q \in PostIds |-> IF ~PostExists(q) THEN NoPost ELSE PostWithout(q, u, heir, gone)]
    BY <1>6, DeletedUser
  <2>2. post'[p] \in PostRow
    BY <1>6, <2>1, PostWithoutOK, PostRows DEF Base
  <2> QED BY <1>2, <2>2, PostsAssumption DEF PostRow
<1>7. ASSUME NEW w \in Workers, GiveLike(w) \/ TakeLike(w), NEW p \in PostIds, PostExists(p)
      PROVE  PostExists(p)'
  BY <1>7, LikesAlike DEF PostsAlike
<1> QED BY <1>3, <1>4, <1>5, <1>6, <1>7, PostSteps

LEMMA UsersStay ==
    ASSUME Base, [Next]_vars
    PROVE  \/ \A u \in Users : UserExists(u) => UserExists(u)'
           \/ \E w \in Workers : CommitDeleteUser(w)
<1>1. UsersOK' /\ UsersOK
  BY StepBase DEF Base
<1>2. \A u \in Users : UserExists(u)' <=> user'[u].level # 0
  BY <1>1 DEF UsersOK, Accounts, UserExists, UserRow, Gone
<1>3. ASSUME UNCHANGED user, NEW u \in Users, UserExists(u)
      PROVE  UserExists(u)'
  BY <1>3 DEF UserExists
<1>4. ASSUME NEW w \in Workers, CommitReward(w), NEW u \in Users, UserExists(u)
      PROVE  UserExists(u)'
  <2> DEFINE j == job[w]
             seen == j.more.row
             row == Awarded(Granted(seen, Points(j.op)), j.by)
  <2>1. \/ user'[u] = user[u]
        \/ /\ u = j.by /\ seen \in UserRow /\ row \in UserRow /\ user'[u] = Rewritten(user[u], seen, row)
           /\ row.granted >= seen.granted /\ row.awards >= seen.awards
    BY <1>4, RewardedUser
  <2>2. row.level # 0
    BY <1>4, RewardRow DEF CommitReward
  <2>3. user[u] \in UserRow /\ user[u].level # 0
    BY <1>4, UserRows DEF Base
  <2> HIDE DEF row, seen
  <2>4. \/ user'[u] = user[u]
        \/ user'[u].level = IF row.level # seen.level THEN row.level ELSE user[u].level
    BY <2>1, <2>3, RewrittenUser
  <2> QED BY <1>2, <2>2, <2>3, <2>4
<1>5. ASSUME NEW w \in Workers, CommitDeleteComment(w) \/ CommitDeletePost(w), NEW u \in Users, UserExists(u)
      PROVE  UserExists(u)'
  <2>1. \/ user' = user
        \/ user' = Kept(user, LikesOf(<<"comment", job[w].more.comment>>))
        \/ user' = Kept(user, LikesUnder(job[w].post, job[w].more.comments))
    BY <1>5, DeletedPost DEF CommitDeleteComment
  <2>2. \A likes \in SUBSET like : IsFiniteSet(likes)
    BY FS_Subset DEF Base, LikesOK
  <2>3. \A t : LikesOf(t) \in SUBSET like
    BY DEF LikesOf
  <2>4. LikesUnder(job[w].post, job[w].more.comments) \in SUBSET like
    BY <2>3 DEF LikesUnder
  <2>5. PICK likes \in SUBSET like : user' = user \/ user' = Kept(user, likes)
    BY <2>1, <2>3, <2>4
  <2> QED BY <1>3, <1>5, <2>2, <2>5, UsersKept, Zenon DEF Base
<1>6. ASSUME NEW w \in Workers, GiveLike(w), NEW u \in Users, UserExists(u)
      PROVE  UserExists(u)'
  <2> DEFINE t == job[w].more.target
  <2>1. \/ user' = user
        \/ user' = [x \in Users |-> IF x \in Rewarded(job[w]) THEN Gain(user[x], Worth(t)) ELSE user[x]]
    BY <1>6 DEF GiveLike
  <2>2. Worth(t) \in Nat
    BY DEF Worth, PostLike, CommentLike
  <2>3. user[u] \in UserRow /\ user[u].level # 0
    BY <1>6, UserRows DEF Base
  <2> HIDE DEF t
  <2>4. user'[u] = user[u] \/ user'[u] = Gain(user[u], Worth(t))
    BY <2>1
  <2> QED BY <1>2, <2>2, <2>3, <2>4, GainOK
<1>7. ASSUME NEW w \in Workers, TakeLike(w), NEW u \in Users, UserExists(u)
      PROVE  UserExists(u)'
  <2> DEFINE a == job[w].more.author
             t == job[w].more.target
  <2>1. \/ user' = user
        \/ a \in Users /\ UserExists(a) /\ user' = [user EXCEPT ![a].xp = Max({0, @ - Worth(t)})]
    BY <1>7, TakenLike
  <2>2. Worth(t) \in Nat
    BY DEF Worth, PostLike, CommentLike
  <2> HIDE DEF a, t
  <2> QED BY <1>3, <1>7, <2>1, <2>2, RevokedXp DEF Base
<1>8. ASSUME NEW w \in Workers, RenameBadges(w), NEW u \in Users, UserExists(u)
      PROVE  UserExists(u)'
  <2> DEFINE seen == AccountsRead(job[w])[u]
             new == Renamed(seen)
  <2>1. CASE user' = user
    BY <1>3, <1>8, <2>1
  <2>2. CASE ~ End(w)
    <3>1. /\ AccountsRead(job[w]) \in Accounts
          /\ user'[u] = user[u] \/ (seen # Gone /\ user'[u] = Rewritten(user[u], seen, new))
      BY <1>8, <2>2, RenamedTables
    <3>2. seen # Gone => seen \in UserRow
      BY <3>1 DEF Accounts
    <3>3. user[u] \in UserRow /\ user[u].level # 0
      BY <1>8, UserRows DEF Base
    <3> HIDE DEF seen, new
    <3>4. seen # Gone => /\ seen \in UserRow /\ new \in UserRow /\ new.level = seen.level
                         /\ new.granted = seen.granted /\ new.awards = seen.awards
                         /\ seen.granted \in Nat /\ seen.awards \in Nat
      BY <3>2, RenamedRow DEF new, UserRow
    <3>5. seen # Gone => new.granted >= seen.granted /\ new.awards >= seen.awards
      BY <3>4
    <3>6. seen # Gone => Rewritten(user[u], seen, new).level = user[u].level
      BY <3>3, <3>4, <3>5, RewrittenUser
    <3> QED BY <1>2, <3>1, <3>3, <3>6
  <2> QED BY <1>8, <2>1, <2>2, RenamedBack
<1>9. ASSUME NEW w \in Workers, CreateBadges(w)
      PROVE  user' = user
  BY <1>9 DEF CreateBadges
<1> QED BY <1>3, <1>4, <1>5, <1>6, <1>7, <1>8, <1>9, UserSteps

\* What else the steps do to the rows of comments and of notifications
CommentsSame ==
    \A c \in CommentIds :
        /\ CommentExists(c)' <=> CommentExists(c)
        /\ comment'[c].post = comment[c].post /\ comment'[c].author = comment[c].author
        /\ comment'[c].parent = comment[c].parent
        /\ comment'[c].stray <=> comment[c].stray

LEMMA CommentsStay ==
    ASSUME Base, [Next]_vars
    PROVE  \/ CommentsSame
           \/ \E w \in Workers :
                 Insert(w) \/ CommitDeleteComment(w) \/ CommitDeletePost(w) \/ CommitDeleteUser(w)
<1>1. ASSUME UNCHANGED comment
      PROVE  CommentsSame
  BY <1>1 DEF CommentsSame, CommentExists
<1>2. ASSUME NEW w \in Workers, CommitEditComment(w)
      PROVE  CommentsSame
  <2> DEFINE d == job[w].more.comment
             row == [comment[d] EXCEPT !.text = "edited"]
  <2>1. CASE CommentExists(d) /\ comment' = [comment EXCEPT ![d].text = "edited"]
    <3>1. d \in CommentIds
      <4>1. job[w] \in EditCommentJobs
        BY <1>2, JobShape DEF CommitEditComment, Base, JobsOK
      <4> QED BY <4>1 DEF EditCommentJobs, Request
    <3>2. comment[d] \in CommentRow
      BY <2>1, <3>1, CommentRows DEF Base
    <3>3. /\ row.post = comment[d].post /\ row.author = comment[d].author /\ row.parent = comment[d].parent
          /\ row.stray = comment[d].stray /\ row \in CommentRow
      <4> HIDE DEF d
      <4> QED BY <3>2 DEF CommentRow
    <3>4. row # NoComment
      BY <3>3 DEF CommentRow, NoComment, PostIds, NoId
    <3>5. comment'[d] = row /\ \A c \in CommentIds \ {d} : comment'[c] = comment[c]
      BY <2>1, <3>1 DEF Base, CommentsOK
    <3>6. CommentExists(d) /\ comment'[d] # NoComment
      BY <2>1, <3>4, <3>5
    <3> HIDE DEF d, row
    <3>7. \A c \in CommentIds \ {d} : CommentExists(c)' <=> CommentExists(c)
      BY <3>5 DEF CommentExists
    <3>8. ASSUME NEW c \in CommentIds
          PROVE  /\ CommentExists(c)' <=> CommentExists(c)
                 /\ comment'[c].post = comment[c].post /\ comment'[c].author = comment[c].author
                 /\ comment'[c].parent = comment[c].parent
                 /\ comment'[c].stray <=> comment[c].stray
      <4>1. CASE c = d
        BY <3>3, <3>5, <3>6, <4>1 DEF CommentExists
      <4>2. CASE c # d
        BY <3>5, <3>7, <4>2
      <4> QED BY <4>1, <4>2
    <3> QED BY <3>8 DEF CommentsSame
  <2> QED BY <1>1, <1>2, <2>1 DEF CommitEditComment
<1>3. ASSUME NEW w \in Workers, GiveLike(w) \/ TakeLike(w)
      PROVE  CommentsSame
  BY <1>3, LikesAlike DEF CommentsAlike, CommentsSame
<1> QED BY <1>1, <1>2, <1>3, CommentSteps

\* n is the row of notice m, perhaps read
SameNotice(m, n) ==
    /\ n.id = m.id /\ n.to = m.to /\ n.type = m.type /\ n.post = m.post /\ n.comment = m.comment
    /\ n.stray = m.stray /\ (n.read = m.read \/ n.read)

\* The steps that write notifications
LEMMA NoticeSteps ==
    ASSUME [Next]_vars
    PROVE  \/ UNCHANGED notice
           \/ \E u \in Users, S \in SUBSET notice : MarkRead(u, S)
           \/ \E w \in Workers :
                 \/ CommitReward(w) \/ CommitDeleteComment(w) \/ CommitDeletePost(w) \/ CommitDeleteUser(w)
                 \/ GiveLike(w) \/ TakeLike(w)
<1>1. CASE UNCHANGED Tables
  BY <1>1 DEF Tables, threadVars
<1>2. CASE Tick /\ UNCHANGED threadVars
  BY <1>2 DEF threadVars
<1>4. CASE \E w \in Workers : Commits(w)
  <2>1. PICK w \in Workers : Commits(w)
    BY <1>4
  <2>2. CASE (CommitCreate(w) \/ CommitEdit(w) \/ CommitHook(w)) /\ UNCHANGED threadVars
    BY <2>2 DEF threadVars
  <2>3. CASE Insert(w) \/ CommitEditComment(w) \/ RenameBadges(w) \/ CreateBadges(w)
    BY <2>3, Zenon DEF Insert, CommitEditComment, RenameBadges, CreateBadges
  <2> QED BY <2>1, <2>2, <2>3 DEF Commits
<1> QED BY <1>1, <1>2, <1>4, Steps, StutterTables, ReadsTables

LEMMA NoticesStay ==
    ASSUME Base, [Next]_vars
    PROVE  \/ \A n \in notice' : (\E m \in notice : SameNotice(m, n)) \/ (n \in Notice /\ (n.stray <=> Dangles(n)))
           \/ \E w \in Workers : CommitDeletePost(w)
<1> DEFINE Fine(n) == (\E m \in notice : SameNotice(m, n)) \/ (n \in Notice /\ (n.stray <=> Dangles(n)))
<1>1. CASE notice' \subseteq notice
  BY <1>1 DEF SameNotice
<1>2. ASSUME NEW u \in Users, NEW S \in SUBSET notice, MarkRead(u, S), NEW n \in notice'
      PROVE  Fine(n)
  <2>1. CASE n \in notice
    BY <2>1 DEF SameNotice
  <2>2. ASSUME NEW m \in S, n = [m EXCEPT !.read = TRUE]
        PROVE  Fine(n)
    <3>1. m \in Notice /\ m \in notice
      BY DEF Base, NoticesOK
    <3>2. SameNotice(m, n)
      BY <2>2, <3>1 DEF Notice, SameNotice
    <3> QED BY <3>1, <3>2
  <2>3. n \in notice \/ n \in {[m EXCEPT !.read = TRUE] : m \in S}
    BY <1>2 DEF MarkRead
  <2> QED BY <2>1, <2>2, <2>3
<1>3. ASSUME NEW w \in Workers, CommitReward(w), NEW n \in notice'
      PROVE  Fine(n)
  <2>1. n \in notice \/ n \in RewardNews(w)
    BY <1>3, RewardedUser
  <2>2. CASE n \in notice
    BY <2>2 DEF SameNotice
  <2>3. CASE n \in RewardNews(w)
    BY <1>3, <2>3, RewardNewsOK DEF CommitReward
  <2> QED BY <2>1, <2>2, <2>3
<1>4. ASSUME NEW w \in Workers, GiveLike(w), NEW n \in notice'
      PROVE  Fine(n)
  <2>1. n \in notice \/ n \in GivenNotices(job[w])
    BY <1>4 DEF GiveLike, GivenNotices
  <2>2. CASE n \in notice
    BY <2>2 DEF SameNotice
  <2>3. CASE n \in GivenNotices(job[w])
    BY <1>4, <2>3, GivenNoticesOK DEF GiveLike
  <2> QED BY <2>1, <2>2, <2>3
<1>5. ASSUME NEW w \in Workers, TakeLike(w)
      PROVE  notice' \subseteq notice
  BY <1>5, TakenLike
<1>6. ASSUME NEW w \in Workers, CommitDeleteComment(w)
      PROVE  notice' \subseteq notice
  BY <1>6 DEF CommitDeleteComment
<1>7. ASSUME NEW w \in Workers, CommitDeleteUser(w)
      PROVE  notice' \subseteq notice
  BY <1>7, Zenon DEF CommitDeleteUser
<1> QED BY <1>1, <1>2, <1>3, <1>4, <1>5, <1>6, <1>7, NoticeSteps

\* A comment refers to what is there, or was written when it was not.
Resolved(c) ==
    comment[c].stray \/
        /\ PostExists(comment[c].post)
        /\ comment[c].author = NoUser \/ UserExists(comment[c].author)
        /\ comment[c].parent # NoId => comment[comment[c].parent].post = comment[c].post

\* As long as nothing goes, what referred to something still does.
LEMMA StillThere ==
    ASSUME Base, Base',
           \A p \in PostIds : PostExists(p) => PostExists(p)',
           \A u \in Users : UserExists(u) => UserExists(u)',
           \A c \in CommentIds : CommentExists(c) => comment'[c].post = comment[c].post
    PROVE  /\ \A c \in CommentIds : CommentExists(c) => CommentExists(c)'
           /\ \A n \in Notice : ~Dangles(n) => ~Dangles(n)'
           /\ \A c \in CommentIds :
                /\ CommentExists(c) /\ Resolved(c)
                /\ comment'[c].author \in {comment[c].author, NoUser} /\ comment'[c].parent = comment[c].parent
                /\ comment[c].stray => comment'[c].stray
                => Resolved(c)'
<1>1. \A c \in CommentIds : CommentExists(c)' <=> comment'[c].post \in PostIds
  <2>1. CommentsOK'
    BY DEF Base
  <2> QED BY <2>1 DEF CommentsOK, CommentExists, CommentRow, NoComment, PostIds, NoId
<1>2. \A c \in CommentIds : CommentExists(c) <=> comment[c].post \in PostIds
  BY CommentRows DEF Base
<1>3. \A c \in CommentIds : CommentExists(c) => CommentExists(c)'
  BY <1>1, <1>2
<1>4. ASSUME NEW n \in Notice, ~Dangles(n)
      PROVE  ~Dangles(n)'
  <2>1. n.to \in Users /\ n.post \in PostIds \cup {NoId} /\ n.comment \in CommentIds \cup {NoId}
    BY DEF Notice
  <2> QED BY <1>3, <1>4, <2>1 DEF Dangles
<1>5. ASSUME NEW c \in CommentIds, CommentExists(c), Resolved(c),
             comment'[c].author \in {comment[c].author, NoUser}, comment'[c].parent = comment[c].parent,
             comment[c].stray => comment'[c].stray
      PROVE  Resolved(c)'
  <2>1. /\ comment'[c].post = comment[c].post /\ comment[c].post \in PostIds
        /\ comment[c].author \in Users \cup {NoUser} /\ comment[c].parent \in CommentIds \cup {NoId}
    BY <1>2, <1>5, CommentRows DEF Base, CommentRow
  <2>2. CASE comment[c].stray
    BY <1>5, <2>2 DEF Resolved
  <2>3. CASE ~comment[c].stray
    <3>1. post'[comment'[c].post] # NoPost
      BY <1>5, <2>1, <2>3 DEF Resolved, PostExists
    <3>2. \/ comment'[c].author = NoUser
          \/ comment'[c].author \in Users /\ user'[comment'[c].author] # Gone
      BY <1>5, <2>1, <2>3 DEF Resolved, UserExists
    <3>3. ASSUME comment'[c].parent # NoId
          PROVE  comment'[comment'[c].parent].post = comment'[c].post
      <4> DEFINE d == comment[c].parent
      <4>1. d \in CommentIds /\ comment[d].post = comment[c].post
        BY <1>5, <2>1, <2>3, <3>3 DEF Resolved
      <4>2. comment'[d].post = comment[d].post
        BY <1>2, <2>1, <4>1
      <4> QED BY <1>5, <2>1, <4>1, <4>2
    <3> QED BY <3>1, <3>2, <3>3 DEF Resolved, PostExists, UserExists
  <2> QED BY <2>2, <2>3
<1> QED BY <1>3, <1>4, <1>5

LEMMA ReferencesOK ==
    ReferencesResolve <=> /\ \A c \in CommentIds : CommentExists(c) => Resolved(c)
                          /\ \A n \in notice : n.stray \/ ~Dangles(n)
BY DEF ReferencesResolve, ExistingComments, Resolved

LEMMA DeletedUserReferences ==
    ASSUME Base, Base', ReferencesResolve, NEW w \in Workers, CommitDeleteUser(w)
    PROVE  ReferencesResolve'
<1>1. PICK u \in Users, heir \in Users, gone \in SUBSET like :
        /\ IsFiniteSet(gone)
        /\ comment' = [c \in CommentIds |-> IF ~CommentExists(c) THEN NoComment ELSE CommentWithout(c, u, gone)]
        /\ post' = [p \in PostIds |-> IF ~PostExists(p) THEN NoPost ELSE PostWithout(p, u, heir, gone)]
        /\ notice' = {n \in notice : n.to # u}
        /\ user' = [Kept(user, gone) EXCEPT ![u] = Gone]
  BY DeletedUser
<1>2. \A p \in PostIds : PostExists(p) => PostExists(p)'
  <2>1. \A p \in PostIds : PostExists(p) => PostWithout(p, u, heir, gone) \in PostRow
    BY <1>1, PostRows, PostWithoutOK DEF Base
  <2>2. \A p \in PostIds : PostExists(p) => post'[p] \in PostRow
    BY <1>1, <2>1
  <2> QED BY <2>2, PostRowIsRow DEF PostExists
<1>3. \A x \in Users : x # u /\ UserExists(x) => UserExists(x)'
  <2>1. /\ Kept(user, gone) \in Accounts
        /\ \A x \in Users : UserExists(x) => Kept(user, gone)[x] # Gone
    BY <1>1, KeptOK DEF Base
  <2>2. \A x \in Users : x # u => user'[x] = Kept(user, gone)[x]
    BY <1>1, <2>1 DEF Accounts
  <2> QED BY <2>1, <2>2 DEF UserExists
<1>4. ASSUME NEW c \in CommentIds, CommentExists(c)
      PROVE  /\ comment'[c].post = comment[c].post /\ comment'[c].parent = comment[c].parent
             /\ comment'[c].stray <=> comment[c].stray
             /\ comment'[c].author = IF comment[c].author = u THEN NoUser ELSE comment[c].author
             /\ comment[c] \in CommentRow
  <2>1. comment[c] \in CommentRow
    BY <1>4, CommentRows DEF Base
  <2>2. comment'[c] = CommentWithout(c, u, gone)
    BY <1>1, <1>4
  <2> QED BY <2>1, <2>2, CommentWithoutKeeps
<1>5. \A c \in CommentIds : CommentExists(c)' <=> CommentExists(c)
  <2>1. \A c \in CommentIds : CommentExists(c)' <=> comment'[c].post \in PostIds
    <3>1. CommentsOK'
      BY DEF Base
    <3> QED BY <3>1 DEF CommentsOK, CommentExists, CommentRow, NoComment, PostIds, NoId
  <2>2. \A c \in CommentIds : CommentExists(c) <=> comment[c].post \in PostIds
    BY CommentRows DEF Base
  <2>3. \A c \in CommentIds : ~CommentExists(c) => comment'[c] = NoComment
    BY <1>1
  <2> QED BY <1>4, <2>1, <2>2, <2>3 DEF CommentExists
<1>6. ASSUME NEW c \in CommentIds, CommentExists(c)'
      PROVE  Resolved(c)'
  <2>1. CommentExists(c) /\ Resolved(c)
    BY <1>5, <1>6, ReferencesOK
  <2>2. /\ comment[c].post \in PostIds /\ comment[c].author \in Users \cup {NoUser}
        /\ comment[c].parent \in CommentIds \cup {NoId}
    BY <2>1, CommentRows DEF Base, CommentRow
  <2>3. CASE comment[c].stray
    BY <1>4, <2>1, <2>3 DEF Resolved
  <2>4. CASE ~comment[c].stray
    <3>1. post'[comment'[c].post] # NoPost
      BY <1>2, <1>4, <2>1, <2>2, <2>4 DEF Resolved, PostExists
    <3>2. \/ comment'[c].author = NoUser
          \/ comment'[c].author \in Users /\ user'[comment'[c].author] # Gone
      BY <1>3, <1>4, <2>1, <2>2, <2>4 DEF Resolved, UserExists
    <3>3. ASSUME comment'[c].parent # NoId
          PROVE  comment'[comment'[c].parent].post = comment'[c].post
      <4> DEFINE d == comment[c].parent
      <4>1. d \in CommentIds /\ comment[d].post = comment[c].post
        BY <1>4, <2>1, <2>2, <2>4, <3>3 DEF Resolved
      <4>2. CommentExists(d)
        BY <2>2, <4>1, CommentRows DEF Base
      <4>3. comment'[d].post = comment[d].post
        BY <1>4, <4>1, <4>2
      <4> QED BY <1>4, <2>1, <4>1, <4>3
    <3> QED BY <3>1, <3>2, <3>3 DEF Resolved, PostExists, UserExists
  <2> QED BY <2>3, <2>4
<1>7. ASSUME NEW n \in notice', ~n.stray
      PROVE  ~Dangles(n)'
  <2>1. n \in notice /\ n.to # u /\ ~Dangles(n)
    BY <1>1, <1>7, ReferencesOK
  <2>2. n.to \in Users /\ n.post \in PostIds \cup {NoId} /\ n.comment \in CommentIds \cup {NoId}
    BY <2>1 DEF Base, NoticesOK, Notice
  <2> QED BY <1>2, <1>3, <1>5, <2>1, <2>2 DEF Dangles
<1> QED BY <1>6, <1>7 DEF ReferencesResolve, ExistingComments, Resolved

LEMMA DeletedPostReferences ==
    ASSUME Base, Base', ReferencesResolve, NEW w \in Workers, CommitDeletePost(w), [Next]_vars,
           \A u \in Users : UserExists(u) => UserExists(u)'
    PROVE  ReferencesResolve'
<1> DEFINE p == job[w].post
           comments == job[w].more.comments
<1>1. /\ p \in PostIds /\ comments \in SUBSET CommentIds
      /\ \/ UNCHANGED <<post, comment, notice>>
         \/ /\ CommentsOf(p) \subseteq comments
            /\ \A q \in PostIds \ {p} : post'[q] = post[q]
            /\ \A c \in comments : comment'[c] = NoComment
            /\ \A c \in CommentIds \ comments :
                  comment'[c] = [comment[c] EXCEPT !.stray = @ \/ comment[c].parent \in comments]
            /\ notice' = {Detached(n, p, comments) : n \in notice}
  BY DeletedPost
<1> HIDE DEF p, comments
<1>2. CASE UNCHANGED <<post, comment, notice>>
  <2>1. ASSUME NEW c \in CommentIds, CommentExists(c)'
        PROVE  Resolved(c)'
    <3>1. CommentExists(c) /\ Resolved(c)
      BY <1>2, <2>1, ReferencesOK DEF CommentExists
    <3>2. comment[c].author \in Users \cup {NoUser}
      BY <3>1, CommentRows DEF Base
    <3> QED BY <1>2, <3>1, <3>2 DEF Resolved, PostExists, CommentExists
  <2>2. ASSUME NEW n \in notice', ~n.stray
        PROVE  ~Dangles(n)'
    <3>1. n \in notice /\ ~Dangles(n) /\ n.to \in Users
      BY <1>2, <2>2, ReferencesOK DEF Base, NoticesOK, Notice
    <3> QED BY <1>2, <3>1 DEF Dangles, PostExists, CommentExists
  <2> QED BY <2>1, <2>2 DEF ReferencesResolve, ExistingComments, Resolved
<1>3. CASE /\ CommentsOf(p) \subseteq comments
           /\ \A q \in PostIds \ {p} : post'[q] = post[q]
           /\ \A c \in comments : comment'[c] = NoComment
           /\ \A c \in CommentIds \ comments :
                 comment'[c] = [comment[c] EXCEPT !.stray = @ \/ comment[c].parent \in comments]
           /\ notice' = {Detached(n, p, comments) : n \in notice}
  <2>1. ASSUME NEW c \in CommentIds \ comments
        PROVE  /\ comment'[c] # NoComment <=> CommentExists(c)
               /\ comment'[c].post = comment[c].post /\ comment'[c].author = comment[c].author
               /\ comment'[c].parent = comment[c].parent
               /\ CommentExists(c) => (comment'[c].stray <=> comment[c].stray \/ comment[c].parent \in comments)
               /\ CommentExists(c) => comment[c].post # p
    <3> DEFINE new == [comment[c] EXCEPT !.stray = @ \/ comment[c].parent \in comments]
    <3>1. /\ new # NoComment <=> CommentExists(c)
          /\ new.post = comment[c].post /\ new.author = comment[c].author /\ new.parent = comment[c].parent
          /\ CommentExists(c) => new.stray = (comment[c].stray \/ comment[c].parent \in comments)
      BY <1>1, SparedComment
    <3>2. comment'[c] = new
      BY <1>3
    <3> HIDE DEF new
    <3>3. CommentExists(c) => comment[c].post # p
      BY <1>3 DEF CommentsOf, ExistingComments
    <3> QED BY <3>1, <3>2, <3>3
  <2>2. ASSUME NEW c \in CommentIds, CommentExists(c)'
        PROVE  Resolved(c)'
    <3>1. c \notin comments
      BY <1>3, <2>2 DEF CommentExists
    <3>2. CommentExists(c) /\ Resolved(c)
      BY <2>1, <2>2, <3>1, ReferencesOK DEF CommentExists
    <3>3. /\ comment[c].post \in PostIds /\ comment[c].author \in Users \cup {NoUser}
          /\ comment[c].parent \in CommentIds \cup {NoId}
      BY <3>2, CommentRows DEF Base, CommentRow
    <3>4. CASE comment'[c].stray
      BY <3>4 DEF Resolved
    <3>5. CASE ~comment'[c].stray
      <4>1. ~comment[c].stray /\ comment[c].parent \notin comments
        BY <2>1, <3>1, <3>2, <3>5
      <4>2. post'[comment'[c].post] # NoPost
        BY <1>3, <2>1, <3>1, <3>2, <3>3, <4>1 DEF Resolved, PostExists
      <4>3. \/ comment'[c].author = NoUser
            \/ comment'[c].author \in Users /\ user'[comment'[c].author] # Gone
        BY <2>1, <3>1, <3>2, <3>3, <4>1 DEF Resolved, UserExists
      <4>4. comment'[c].parent # NoId => comment'[comment'[c].parent].post = comment'[c].post
        BY <2>1, <3>1, <3>2, <3>3, <4>1 DEF Resolved
      <4> QED BY <4>2, <4>3, <4>4 DEF Resolved, PostExists, UserExists
    <3> QED BY <3>4, <3>5
  <2>3. ASSUME NEW n \in notice', ~n.stray
        PROVE  ~Dangles(n)'
    <3>1. PICK m \in notice : n = Detached(m, p, comments)
      BY <1>3, <2>3
    <3>2. m \in Notice
      BY DEF Base, NoticesOK
    <3>3. /\ n.to = m.to /\ n.stray = m.stray
          /\ n.post = (IF m.post = p THEN NoId ELSE m.post)
          /\ n.comment = (IF m.comment \in comments THEN NoId ELSE m.comment)
      BY <3>1, <3>2, DetachedOK
    <3>4. /\ m.to \in Users /\ m.post \in PostIds \cup {NoId} /\ m.comment \in CommentIds \cup {NoId}
      BY <3>2 DEF Notice
    <3>5. ~Dangles(m)
      BY <2>3, <3>3, ReferencesOK
    <3>6. n.post # NoId => n.post \in PostIds \ {p} /\ PostExists(n.post)
      BY <3>3, <3>4, <3>5 DEF Dangles
    <3>7. n.comment # NoId => n.comment \in CommentIds \ comments /\ CommentExists(n.comment)
      BY <3>3, <3>4, <3>5 DEF Dangles
    <3>8. n.to \in Users /\ UserExists(n.to)'
      BY <3>3, <3>4, <3>5 DEF Dangles
    <3>9. n.post # NoId => post'[n.post] # NoPost
      BY <1>3, <3>6 DEF PostExists
    <3>10. n.comment # NoId => comment'[n.comment] # NoComment
      BY <2>1, <3>7
    <3> QED BY <3>8, <3>9, <3>10 DEF Dangles, PostExists, CommentExists
  <2> QED BY <2>2, <2>3 DEF ReferencesResolve, ExistingComments, Resolved
<1> QED BY <1>1, <1>2, <1>3

LEMMA DeletedCommentReferences ==
    ASSUME Base, Base', ReferencesResolve, NEW w \in Workers, CommitDeleteComment(w),
           \A u \in Users : UserExists(u) => UserExists(u)'
    PROVE  ReferencesResolve'
<1> DEFINE d == job[w].more.comment
           row == [comment[d] EXCEPT !.deleted = TRUE, !.text = "erased"]
<1>1. post' = post
  BY DEF CommitDeleteComment, postVars
<1>2. /\ d \in CommentIds
      /\ \/ UNCHANGED <<comment, notice>>
         \/ /\ CommentExists(d) /\ comment'[d] = row
            /\ \A e \in CommentIds \ {d} : comment'[e] = comment[e]
            /\ UNCHANGED notice
         \/ /\ Replies(d) = {} /\ comment'[d] = NoComment
            /\ \A e \in CommentIds \ {d} : comment'[e] = comment[e]
            /\ notice' = {n \in notice : n.comment # d}
  BY DeletedComment, Zenon
<1>3. CommentExists(d) =>
         /\ row.post = comment[d].post /\ row.author = comment[d].author /\ row.parent = comment[d].parent
         /\ row.stray = comment[d].stray /\ row # NoComment
  <2> SUFFICES ASSUME CommentExists(d)
      PROVE  /\ row.post = comment[d].post /\ row.author = comment[d].author /\ row.parent = comment[d].parent
             /\ row.stray = comment[d].stray /\ row # NoComment
    OBVIOUS
  <2>1. comment[d] \in CommentRow
    BY <1>2, CommentRows DEF Base
  <2> HIDE DEF d
  <2>2. /\ row.post = comment[d].post /\ row.author = comment[d].author /\ row.parent = comment[d].parent
        /\ row.stray = comment[d].stray
    BY <2>1 DEF CommentRow
  <2>3. comment[d].post # NoId /\ NoComment.post = NoId
    BY <2>1 DEF CommentRow, PostIds, NoId, NoComment
  <2> QED BY <2>2, <2>3
<1> HIDE DEF d, row
<1>4. CASE \A c \in CommentIds :
             /\ comment'[c].post = comment[c].post /\ comment'[c].author = comment[c].author
             /\ comment'[c].parent = comment[c].parent /\ comment'[c].stray = comment[c].stray
             /\ comment'[c] # NoComment => CommentExists(c)
  <2>1. \A p \in PostIds : PostExists(p) => PostExists(p)'
    BY <1>1 DEF PostExists
  <2>2. ASSUME NEW c \in CommentIds, CommentExists(c)'
        PROVE  Resolved(c)'
    <3>1. CommentExists(c) /\ Resolved(c)
      BY <1>4, <2>2, ReferencesOK DEF CommentExists
    <3> QED BY <1>4, <2>1, <3>1, StillThere
  <2>3. ASSUME NEW n \in notice', ~n.stray
        PROVE  ~Dangles(n)'
    <3>1. n \in notice
      BY <1>2, <2>3
    <3>2. n \in Notice /\ ~Dangles(n)
      BY <2>3, <3>1, ReferencesOK DEF Base, NoticesOK
    <3> QED BY <1>4, <2>1, <3>2, StillThere
  <2> QED BY <2>2, <2>3 DEF ReferencesResolve, ExistingComments, Resolved
<1>5. CASE /\ Replies(d) = {} /\ comment'[d] = NoComment
           /\ \A e \in CommentIds \ {d} : comment'[e] = comment[e]
           /\ notice' = {n \in notice : n.comment # d}
  <2>1. ASSUME NEW c \in CommentIds, CommentExists(c)'
        PROVE  Resolved(c)'
    <3>1. c # d /\ CommentExists(c) /\ Resolved(c) /\ comment'[c] = comment[c]
      BY <1>5, <2>1, ReferencesOK DEF CommentExists
    <3>2. /\ comment[c].parent # d /\ comment[c].author \in Users \cup {NoUser}
          /\ comment[c].parent \in CommentIds \cup {NoId}
      BY <1>5, <3>1, CommentRows DEF Replies, ExistingComments, Base, CommentRow
    <3>3. comment[c].parent # NoId => comment'[comment[c].parent] = comment[comment[c].parent]
      BY <1>5, <3>2
    <3>4. comment[c].author # NoUser /\ UserExists(comment[c].author) => user'[comment[c].author] # Gone
      BY <3>2 DEF UserExists
    <3>5. post' = post
      BY <1>1
    <3> QED BY <3>1, <3>2, <3>3, <3>4, <3>5 DEF Resolved, PostExists, UserExists
  <2>2. ASSUME NEW n \in notice', ~n.stray
        PROVE  ~Dangles(n)'
    <3>1. n \in notice /\ n.comment # d
      BY <1>5, <2>2
    <3>2. n \in Notice /\ ~Dangles(n)
      BY <2>2, <3>1, ReferencesOK DEF Base, NoticesOK
    <3>3. n.to \in Users /\ n.comment \in CommentIds \cup {NoId}
      BY <3>2 DEF Notice
    <3>4. n.comment # NoId => comment'[n.comment] = comment[n.comment]
      BY <1>5, <3>1, <3>3
    <3> QED BY <1>1, <3>2, <3>3, <3>4 DEF Dangles, PostExists, CommentExists
  <2> QED BY <2>1, <2>2 DEF ReferencesResolve, ExistingComments, Resolved
<1>6. CASE /\ CommentExists(d) /\ comment'[d] = row
           /\ \A e \in CommentIds \ {d} : comment'[e] = comment[e]
  <2> SUFFICES ASSUME NEW c \in CommentIds
      PROVE  /\ comment'[c].post = comment[c].post /\ comment'[c].author = comment[c].author
             /\ comment'[c].parent = comment[c].parent /\ comment'[c].stray = comment[c].stray
             /\ comment'[c] # NoComment => CommentExists(c)
    BY <1>4
  <2>1. CASE c = d
    BY <1>3, <1>6, <2>1
  <2>2. CASE c # d
    BY <1>6, <2>2 DEF CommentExists
  <2> QED BY <2>1, <2>2
<1>7. CASE UNCHANGED <<comment, notice>>
  BY <1>4, <1>7 DEF CommentExists
<1> QED BY <1>2, <1>5, <1>6, <1>7

LEMMA InsertedReferences ==
    ASSUME Base, Base', ReferencesResolve, NEW w \in Workers, Insert(w)
    PROVE  \A c \in CommentIds : CommentExists(c)' => Resolved(c)'
<1> DEFINE j == job[w]
           new == NextId(ExistingComments)
<1>1. /\ new \in CommentIds /\ ~CommentExists(new)
      /\ comment'[new].post = j.post /\ comment'[new].author = j.by /\ comment'[new].parent = j.more.parent
      /\ comment'[new].stray <=> \/ ~UserExists(j.by) \/ ~PostExists(j.post)
                                 \/ j.more.parent # NoId /\ comment[j.more.parent].post # j.post
      /\ \A c \in CommentIds \ {new} : comment'[c] = comment[c]
  BY InsertedComment
<1>2. /\ j.post \in PostIds /\ j.by \in Users /\ j.more.parent \in CommentIds \cup {NoId}
  <2>1. j \in CommentJobs \cup ReplyJobs
    BY JobShape DEF Insert, Base, JobsOK
  <2> QED BY <2>1 DEF CommentJobs, ReplyJobs, Request
<1>3. post' = post /\ user' = user
  BY DEF Insert, postVars
<1> HIDE DEF j, new
<1>4. comment[new].post = NoId
  BY <1>1 DEF CommentExists, NoComment
<1>5. ASSUME NEW c \in CommentIds, c # new, CommentExists(c)'
      PROVE  Resolved(c)'
  <2>1. CommentExists(c) /\ Resolved(c) /\ comment'[c] = comment[c]
    BY <1>1, <1>5, ReferencesOK DEF CommentExists
  <2>2. comment[c].parent \in CommentIds \cup {NoId} /\ comment[c].post \in PostIds
    BY <2>1, CommentRows DEF Base, CommentRow
  <2>3. CASE comment[c].stray
    BY <2>1, <2>3 DEF Resolved
  <2>4. CASE ~comment[c].stray
    <3>1. comment[c].parent # NoId => comment[c].parent # new
      BY <1>4, <2>1, <2>2, <2>4 DEF Resolved, PostIds, NoId
    <3>2. comment[c].parent # NoId => comment'[comment[c].parent] = comment[comment[c].parent]
      BY <1>1, <2>2, <3>1
    <3> QED BY <1>3, <2>1, <2>4, <3>2 DEF Resolved, PostExists, UserExists
  <2> QED BY <2>3, <2>4
<1>6. ASSUME NEW c \in CommentIds, c = new
      PROVE  Resolved(c)'
  <2>1. /\ comment'[c].post = j.post /\ comment'[c].author = j.by /\ comment'[c].parent = j.more.parent
        /\ comment[c].post = NoId
    BY <1>1, <1>4, <1>6
  <2>2. ~comment'[c].stray => /\ UserExists(j.by) /\ PostExists(j.post)
                              /\ j.more.parent # NoId => comment[j.more.parent].post = j.post
    BY <1>1, <1>6, Zenon
  <2>3. \A e \in CommentIds \ {c} : comment'[e] = comment[e]
    BY <1>1, <1>6, Zenon
  <2>4. CASE comment'[c].stray
    BY <2>4 DEF Resolved
  <2>5. CASE ~comment'[c].stray
    <3>1. /\ UserExists(j.by) /\ PostExists(j.post)
          /\ j.more.parent # NoId => comment[j.more.parent].post = j.post
      BY <2>2, <2>5, Zenon
    <3>2. j.more.parent # NoId => j.more.parent # c
      BY <1>2, <2>1, <3>1 DEF PostIds, NoId
    <3>3. j.more.parent # NoId => comment'[j.more.parent] = comment[j.more.parent]
      BY <1>2, <2>3, <3>2
    <3>4. UserExists(comment[c].author)' /\ PostExists(comment[c].post)'
      BY <1>3, <2>1, <3>1 DEF PostExists, UserExists
    <3>5. comment'[c].parent # NoId => comment'[comment'[c].parent].post = comment'[c].post
      BY <2>1, <3>1, <3>3
    <3> QED BY <3>4, <3>5 DEF Resolved
  <2> QED BY <2>4, <2>5
<1> QED BY <1>5, <1>6

LEMMA ReferencesStep ==
    ASSUME Base, [Next]_vars, ReferencesResolve
    PROVE  ReferencesResolve'
<1>1. Base'
  BY StepBase
<1>2. ASSUME NEW w \in Workers, CommitDeleteUser(w)
      PROVE  ReferencesResolve'
  BY <1>1, <1>2, DeletedUserReferences
<1>3. ASSUME NEW w \in Workers, CommitDeletePost(w), \A u \in Users : UserExists(u) => UserExists(u)'
      PROVE  ReferencesResolve'
  BY <1>1, <1>3, DeletedPostReferences
<1>4. ASSUME NEW w \in Workers, CommitDeleteComment(w), \A u \in Users : UserExists(u) => UserExists(u)'
      PROVE  ReferencesResolve'
  BY <1>1, <1>4, DeletedCommentReferences
<1>5. CASE /\ ~ \E w \in Workers : CommitDeleteUser(w)
           /\ ~ \E w \in Workers : CommitDeletePost(w)
           /\ ~ \E w \in Workers : CommitDeleteComment(w)
  <2>1. /\ \A p \in PostIds : PostExists(p) => PostExists(p)'
        /\ \A u \in Users : UserExists(u) => UserExists(u)'
    BY <1>5, PostsStay, UsersStay
  <2>2. CommentsSame \/ \E w \in Workers : Insert(w)
    BY <1>5, CommentsStay
  <2>3. \A c \in CommentIds : CommentExists(c) => comment'[c].post = comment[c].post
    <3>1. CASE CommentsSame
      BY <3>1 DEF CommentsSame
    <3>2. ASSUME NEW w \in Workers, Insert(w)
          PROVE  \A c \in CommentIds : CommentExists(c) => comment'[c].post = comment[c].post
      BY <3>2, InsertedComment
    <3> QED BY <2>2, <3>1, <3>2
  <2>4. /\ \A n \in Notice : ~Dangles(n) => ~Dangles(n)'
        /\ \A c \in CommentIds :
              /\ CommentExists(c) /\ Resolved(c)
              /\ comment'[c].author \in {comment[c].author, NoUser} /\ comment'[c].parent = comment[c].parent
              /\ comment[c].stray => comment'[c].stray
              => Resolved(c)'
    BY <1>1, <2>1, <2>3, StillThere
  <2>5. \A c \in CommentIds : CommentExists(c)' => Resolved(c)'
    <3>1. CASE CommentsSame
      BY <2>4, <3>1, ReferencesOK DEF CommentsSame
    <3>2. ASSUME NEW w \in Workers, Insert(w)
          PROVE  \A c \in CommentIds : CommentExists(c)' => Resolved(c)'
      BY <1>1, <3>2, InsertedReferences
    <3> QED BY <2>2, <3>1, <3>2
  <2>6. ASSUME NEW n \in notice', ~n.stray
        PROVE  ~Dangles(n)'
    <3>1. (\E m \in notice : SameNotice(m, n)) \/ (n \in Notice /\ (n.stray <=> Dangles(n)))
      BY <1>5, NoticesStay
    <3>2. ASSUME NEW m \in notice, SameNotice(m, n)
          PROVE  n \in Notice /\ ~Dangles(n)
      <4>1. ~Dangles(m)
        BY <2>6, <3>2, ReferencesOK DEF SameNotice
      <4>2. ~Dangles(n)
        BY <3>2, <4>1 DEF SameNotice, Dangles
      <4>3. n \in Notice
        BY <1>1 DEF Base, NoticesOK
      <4> QED BY <4>2, <4>3
    <3> QED BY <2>4, <2>6, <3>1, <3>2
  <2> QED BY <2>5, <2>6 DEF ReferencesResolve, ExistingComments, Resolved
<1> QED BY <1>2, <1>3, <1>4, <1>5, UsersStay

(* Deletions clean up: whatever a comment or a notification referred to when it
   was written is still there, or the reference was cleared.                 *)
THEOREM DeletionsCleanUp == Spec => []ReferencesResolve
<1>1. Init => ReferencesResolve
  <2> SUFFICES ASSUME Init PROVE ReferencesResolve
    OBVIOUS
  <2>1. notice = {} /\ \A c \in CommentIds : ~CommentExists(c)
    BY DEF Init, CommentExists
  <2> QED BY <2>1, ReferencesOK
<1>2. Base /\ ReferencesResolve /\ [Next]_vars => ReferencesResolve'
  BY ReferencesStep
<1> QED BY InitBase, StepBase, <1>1, <1>2, PTL DEF Spec

-----------------------------------------------------------------------------
(* Publication and history.  An edit or the hook that has loaded a post is
   harmless while the text tells whether the post is still the one loaded:
   every saving gives a text of its own.                                     *)

\* A request that is about to save a text, and one that has loaded post p
Saving(w) == At(w, "create", "commit") \/ At(w, "edit", "commit")
Loads(w, p) ==
    \/ At(w, "edit", "commit") /\ job[w].post = p
    \/ At(w, "hook", "commit") /\ p \in DOMAIN job[w].more
Seen(w, p) == IF job[w].op = "edit" THEN job[w].more.seen ELSE job[w].more[p]

\* Nothing that concerns a text changed in the posts
SamePost(p) ==
    /\ PostExists(p)' <=> PostExists(p)
    /\ post'[p].published = post[p].published /\ post'[p].draft = post[p].draft
    /\ post'[p].date = post[p].date /\ post'[p].text = post[p].text
    /\ post'[p].asked = post[p].asked /\ post'[p].past = post[p].past
PostsSame == (\A p \in PostIds : SamePost(p)) /\ revision' = revision

\* Post p went, with its revisions
PostGone(p) ==
    /\ p \in PostIds /\ post'[p] = NoPost /\ revision' = revision \ Revisions(p)
    /\ \A q \in PostIds \ {p} : post'[q] = post[q]

LEMMA PostWithoutKeeps ==
    ASSUME NEW p, NEW u, NEW heir, NEW gone, post[p] \in PostRow
    PROVE  /\ PostWithout(p, u, heir, gone).published = post[p].published
           /\ PostWithout(p, u, heir, gone).draft = post[p].draft
           /\ PostWithout(p, u, heir, gone).date = post[p].date
           /\ PostWithout(p, u, heir, gone).text = post[p].text
           /\ PostWithout(p, u, heir, gone).asked = post[p].asked
           /\ PostWithout(p, u, heir, gone).past = post[p].past
<1> DEFINE row == post[p]
           author == IF row.author = u THEN heir ELSE row.author
           likes == Max({0, Uncounted(row.likes, <<"post", p>>, gone)})
<1>1. PostWithout(p, u, heir, gone) = [row EXCEPT !.author = author, !.likes = likes]
  BY DEF PostWithout
<1> HIDE DEF row, author, likes
<1>2. row \in PostRow
  BY DEF row
<1>3. LET new == PostWithout(p, u, heir, gone) IN
        /\ new.published = row.published /\ new.draft = row.draft /\ new.date = row.date
        /\ new.text = row.text /\ new.asked = row.asked /\ new.past = row.past
  BY <1>1, <1>2 DEF PostRow
<1> QED BY <1>3 DEF row

LEMMA PostEffects ==
    ASSUME Base, [Next]_vars
    PROVE  \/ PostsSame
           \/ \E w \in Workers : CommitCreate(w) \/ CommitEdit(w) \/ CommitHook(w)
           \/ \E p \in PostIds : PostGone(p)
<1>1. UNCHANGED <<post, revision>> => PostsSame
  BY DEF PostsSame, SamePost, PostExists
<1>2. CASE UNCHANGED Tables
  BY <1>1, <1>2 DEF Tables, postVars
<1>3. CASE Tick /\ UNCHANGED threadVars
  BY <1>1, <1>3 DEF Tick, postVars
<1>4. CASE \E u \in Users, S \in SUBSET notice : MarkRead(u, S)
  BY <1>1, <1>4 DEF MarkRead, postVars
<1>5. ASSUME NEW w \in Workers, Commits(w)
      PROVE  \/ PostsSame
             \/ CommitCreate(w) \/ CommitEdit(w) \/ CommitHook(w)
             \/ \E p \in PostIds : PostGone(p)
  <2>1. CASE Insert(w) \/ CommitReward(w) \/ CommitEditComment(w) \/ CommitDeleteComment(w)
    BY <1>1, <2>1, Zenon DEF Insert, CommitReward, CommitEditComment, CommitDeleteComment, postVars
  <2>2. CASE RenameBadges(w) \/ CreateBadges(w)
    BY <1>1, <2>2 DEF RenameBadges, CreateBadges, postVars
  <2>3. CASE CommitDeletePost(w)
    BY <1>1, <2>3, DeletedPost DEF PostGone
  <2>4. CASE GiveLike(w) \/ TakeLike(w)
    <3>1. revision' = revision
      BY <2>4 DEF GiveLike, TakeLike
    <3> QED BY <2>4, <3>1, LikesAlike DEF PostsAlike, PostsSame, SamePost
  <2>5. CASE CommitDeleteUser(w)
    <3>1. PICK u \in Users, heir \in Users, gone \in SUBSET like :
               /\ IsFiniteSet(gone) /\ revision' = revision
               /\ post' = [p \in PostIds |-> IF ~PostExists(p) THEN NoPost ELSE PostWithout(p, u, heir, gone)]
      BY <2>5, DeletedUser
    <3>2. ASSUME NEW p \in PostIds
          PROVE  SamePost(p)
      <4>1. CASE ~PostExists(p)
        BY <3>1, <4>1 DEF SamePost, PostExists
      <4>2. CASE PostExists(p)
        <5>1. post[p] \in PostRow /\ post'[p] = PostWithout(p, u, heir, gone)
          BY <3>1, <4>2, PostRows DEF Base
        <5>2. post'[p] \in PostRow
          BY <3>1, <4>2, PostWithoutOK, PostRows DEF Base
        <5>3. post'[p] # NoPost
          BY <5>2, PostRowIsRow
        <5>4. /\ post'[p].published = post[p].published /\ post'[p].draft = post[p].draft
              /\ post'[p].date = post[p].date /\ post'[p].text = post[p].text
              /\ post'[p].asked = post[p].asked /\ post'[p].past = post[p].past
          BY <5>1, PostWithoutKeeps
        <5> QED BY <4>2, <5>3, <5>4 DEF SamePost, PostExists
      <4> QED BY <4>1, <4>2
    <3> QED BY <3>1, <3>2 DEF PostsSame
  <2> QED BY <1>5, <2>1, <2>2, <2>3, <2>4, <2>5 DEF Commits
<1> QED BY <1>2, <1>3, <1>4, <1>5, Steps, StutterTables, ReadsTables

\* The request of w is done with posts; it is about to give or take a like
Done(w) == ~Saving(w) /\ \A p \in PostIds : ~Loads(w, p)
Liking(w) == At(w, "like", "commit")

\* Only a beginning request loads a post, is going to save a text, or to like.
LEMMA JobMoved ==
    ASSUME JobsOK, NEW w \in Workers, NEW at, at # "commit", job[w] # Idle,
           \/ End(w)
           \/ \E p : job' = [job EXCEPT ![w].at = at, ![w].post = p]
           \/ \E more : job' = [job EXCEPT ![w].at = at, ![w].more = more]
           \/ job' = [job EXCEPT ![w].at = at]
    PROVE  Done(w)' /\ ~Liking(w)' /\ \A v \in Workers \ {w} : job'[v] = job[v]
<1>1. job \in [Workers -> Jobs] /\ job[w] \in Jobs \ {Idle}
  BY DEF JobsOK
<1>2. "at" \in DOMAIN job[w]
  BY <1>1 DEF Jobs, CreateJobs, EditJobs, HookJobs, CommentJobs, ReplyJobs, CreatedJobs, InsertedJobs,
     AwardJobs, EditCommentJobs, DeleteCommentJobs, DeletePostJobs, DeleteUserJobs, LikeJobs,
     InitBadgesJobs, Request
<1>3. job'[w] = Idle \/ job'[w].at = at
  <2>1. CASE End(w)
    BY <1>1, <2>1 DEF End
  <2>2. ASSUME NEW p, job' = [job EXCEPT ![w].at = at, ![w].post = p]
        PROVE  job'[w].at = at
    <3>1. job'[w] = [[job[w] EXCEPT !.at = at] EXCEPT !.post = p]
      BY <1>1, <2>2
    <3> QED BY <1>2, <3>1
  <2>3. ASSUME NEW more, job' = [job EXCEPT ![w].at = at, ![w].more = more]
        PROVE  job'[w].at = at
    <3>1. job'[w] = [[job[w] EXCEPT !.at = at] EXCEPT !.more = more]
      BY <1>1, <2>3
    <3> QED BY <1>2, <3>1
  <2>4. CASE job' = [job EXCEPT ![w].at = at]
    BY <1>1, <1>2, <2>4
  <2> QED BY <2>1, <2>2, <2>3, <2>4
<1>4. \A v \in Workers \ {w} : job'[v] = job[v]
  BY <1>1 DEF End
<1> QED BY <1>3, <1>4 DEF Done, Liking, Saving, Loads, At

\* What a step that does not load posts does to the requests
JobsGo == \A w \in Workers : job'[w] = job[w] \/ (Done(w)' /\ (ReadsLikes(w) \/ ~Liking(w)'))

LEMMA JobEffects ==
    ASSUME Base, [Next]_vars
    PROVE  \/ \E w \in Workers : ReadsPosts(w)
           \/ JobsGo /\ started' >= started /\ started' \in Nat
<1>0. JobsOK /\ job \in [Workers -> Jobs] /\ started \in Nat /\ started' \in Nat
  BY StepBase, PostsAssumption DEF Base, JobsOK, SiteOK
<1>1. ASSUME NEW w \in Workers, ReadsThreads(w) \/ ReadsLikes(w)
      PROVE  JobsGo /\ started' >= started
  <2>1. CASE LoadReward(w)
    <3>1. started' = started /\ job[w] # Idle
      BY <2>1 DEF LoadReward
    <3>2. End(w) \/ \E more : job' = [job EXCEPT ![w].at = "award", ![w].more = more]
      BY <2>1 DEF LoadReward
    <3> QED BY <1>0, <3>1, <3>2, JobMoved DEF JobsGo
  <2>2. ASSUME NEW op, NEW at, NEW u, NEW p, NEW more, Begin(w, op, at, u, p, more),
               op \notin {"create", "edit", "hook"}, op = "like" => ReadsLikes(w)
        PROVE  JobsGo /\ started' >= started
    <3>1. started' = started + 1 /\ job' = [job EXCEPT ![w] = Job(op, at, u, p, more)]
      BY <2>2 DEF Begin
    <3>2. job'[w].op = op
      BY <1>0, <3>1 DEF Job
    <3>3. Done(w)'
      BY <2>2, <3>2 DEF Done, Saving, Loads, At
    <3>5. ReadsLikes(w) \/ ~Liking(w)'
      BY <2>2, <3>2 DEF Liking, At
    <3>4. \A v \in Workers \ {w} : job'[v] = job[v]
      BY <1>0, <3>1
    <3> QED BY <1>0, <3>1, <3>3, <3>4, <3>5 DEF JobsGo
  <2>3. CASE ReadsThreads(w)
    <3>1. CASE \E u \in Users, p \in PostIds : BeginComment(w, u, p)
      BY <2>2, <3>1 DEF BeginComment
    <3>2. CASE \E u \in Users, p \in PostIds : BeginDeletePost(w, u, p)
      BY <2>2, <3>2 DEF BeginDeletePost
    <3>3. CASE \E u \in Users, p \in PostIds, c \in CommentIds : BeginReply(w, u, p, c)
      BY <2>2, <3>3 DEF BeginReply
    <3>4. CASE \E u \in Users, c \in CommentIds : BeginEditComment(w, u, c)
      BY <2>2, <3>4 DEF BeginEditComment
    <3>5. CASE \E u \in Users, c \in CommentIds : BeginDeleteComment(w, u, c)
      BY <2>2, <3>5 DEF BeginDeleteComment
    <3>6. CASE \E u \in Users, heir \in Admins : BeginDeleteUser(w, u, heir)
      BY <2>2, <3>6 DEF BeginDeleteUser
    <3>7. CASE \E u \in Users : BeginInitBadges(w, u)
      BY <2>2, <3>7 DEF BeginInitBadges
    <3> QED BY <2>1, <2>3, <3>1, <3>2, <3>3, <3>4, <3>5, <3>6, <3>7 DEF ReadsThreads
  <2>4. CASE ReadsLikes(w)
    <3>1. \E u \in Users : \E p, more : Begin(w, "like", "commit", u, p, more)
      BY <2>4 DEF ReadsLikes, BeginLike
    <3> QED BY <2>2, <2>4, <3>1
  <2> QED BY <1>1, <2>3, <2>4
<1>2. ASSUME NEW w \in Workers, Commits(w)
      PROVE  JobsGo /\ started' = started
  <2>1. job[w] # Idle /\ started' = started
    <3>1. CASE CommitCreate(w) \/ CommitEdit(w) \/ CommitHook(w)
      BY <3>1, Zenon DEF CommitCreate, CommitEdit, CommitHook, At
    <3>2. CASE Insert(w) \/ CommitReward(w) \/ CommitEditComment(w) \/ CommitDeleteComment(w)
      BY <3>2, Zenon DEF Insert, CommitReward, CommitEditComment, CommitDeleteComment, At
    <3>3. CASE CommitDeletePost(w) \/ CommitDeleteUser(w) \/ GiveLike(w) \/ TakeLike(w)
      BY <3>3, Zenon DEF CommitDeletePost, CommitDeleteUser, GiveLike, TakeLike, At
    <3>4. CASE RenameBadges(w) \/ CreateBadges(w)
      BY <3>4 DEF RenameBadges, CreateBadges, At
    <3> QED BY <1>2, <3>1, <3>2, <3>3, <3>4 DEF Commits
  <2>2. \/ End(w)
        \/ \E p : job' = [job EXCEPT ![w].at = "reward", ![w].post = p]
        \/ \E more : job' = [job EXCEPT ![w].at = "reward", ![w].more = more]
        \/ job' = [job EXCEPT ![w].at = "create"]
    <3>1. CASE CommitCreate(w)
      BY <3>1 DEF CommitCreate
    <3>2. CASE CommitEdit(w) \/ CommitHook(w) \/ CommitReward(w) \/ CommitEditComment(w)
      BY <3>2, Zenon DEF CommitEdit, CommitHook, CommitReward, CommitEditComment
    <3>3. CASE Insert(w)
      BY <3>3, Zenon DEF Insert
    <3>4. CASE CommitDeleteComment(w) \/ CommitDeletePost(w) \/ CommitDeleteUser(w)
      BY <3>4, Zenon DEF CommitDeleteComment, CommitDeletePost, CommitDeleteUser
    <3>5. CASE GiveLike(w) \/ TakeLike(w) \/ CreateBadges(w)
      BY <3>5 DEF GiveLike, TakeLike, CreateBadges
    <3>6. CASE RenameBadges(w)
      BY <3>6 DEF RenameBadges
    <3> QED BY <1>2, <3>1, <3>2, <3>3, <3>4, <3>5, <3>6 DEF Commits
  <2>3. Done(w)' /\ ~Liking(w)' /\ \A v \in Workers \ {w} : job'[v] = job[v]
    <3>1. "reward" # "commit" /\ "create" # "commit"
      OBVIOUS
    <3>2. CASE \/ End(w)
               \/ \E p : job' = [job EXCEPT ![w].at = "reward", ![w].post = p]
               \/ \E more : job' = [job EXCEPT ![w].at = "reward", ![w].more = more]
      BY <1>0, <2>1, <3>1, <3>2, JobMoved, Zenon
    <3>3. CASE job' = [job EXCEPT ![w].at = "create"]
      BY <1>0, <2>1, <3>1, <3>3, JobMoved, Zenon
    <3> QED BY <2>2, <3>2, <3>3
  <2> QED BY <2>1, <2>3 DEF JobsGo
<1>3. CASE UNCHANGED vars
  BY <1>0, <1>3 DEF vars, JobsGo
<1>4. CASE Tick /\ UNCHANGED threadVars
  BY <1>0, <1>4 DEF Tick, JobsGo
<1>5. CASE \E u \in Users, S \in SUBSET notice : MarkRead(u, S)
  <2>1. job' = job /\ started' = started + 1
    BY <1>5 DEF MarkRead
  <2> QED BY <1>0, <2>1 DEF JobsGo
<1> QED BY <1>0, <1>1, <1>2, <1>3, <1>4, <1>5, Steps

NextVersion(p) == Max({r.version : r \in Revisions(p)} \cup {0}) + 1

\* What a request that begins has read
LEMMA PostsRead ==
    ASSUME Base, NEW w \in Workers, ReadsPosts(w)
    PROVE  /\ UNCHANGED Tables /\ started' = started + 1 /\ started' \in Nat /\ started \in Nat
           /\ job'[w].number = started + 1 /\ \A v \in Workers \ {w} : job'[v] = job[v]
           /\ \A p \in PostIds : Loads(w, p)' =>
                 /\ PostExists(p) /\ Seen(w, p)' = post[p]
                 /\ At(w, "hook", "commit")' => Due(post[p])
                 /\ At(w, "edit", "commit")' => job'[w].more.version = NextVersion(p)
<1>1. started \in Nat /\ job \in [Workers -> Jobs]
  BY PostsAssumption DEF Base, SiteOK, JobsOK
<1>2. UNCHANGED Tables
  BY ReadsTables
<1>3. ASSUME NEW op, NEW at, NEW u, NEW p, NEW more, Begin(w, op, at, u, p, more)
      PROVE  /\ started' = started + 1 /\ job'[w] = Job(op, at, u, p, more)
             /\ job'[w].number = started + 1 /\ job'[w].op = op /\ job'[w].post = p /\ job'[w].more = more
             /\ \A v \in Workers \ {w} : job'[v] = job[v]
  <2>1. job' = [job EXCEPT ![w] = Job(op, at, u, p, more)] /\ started' = started + 1
    BY <1>3 DEF Begin
  <2>2. job'[w] = Job(op, at, u, p, more) /\ \A v \in Workers \ {w} : job'[v] = job[v]
    BY <1>1, <2>1
  <2> QED BY <2>1, <2>2 DEF Job
<1>4. ASSUME NEW u \in Users, NEW form \in Forms, BeginCreate(w, u, form)
      PROVE  /\ started' = started + 1 /\ job'[w].number = started + 1
             /\ \A v \in Workers \ {w} : job'[v] = job[v]
             /\ \A p \in PostIds : ~Loads(w, p)'
  <2>1. Begin(w, "create", "commit", u, NoId, [form |-> form, new |-> form.tags \ tag])
    BY <1>4 DEF BeginCreate
  <2>2. job'[w].op = "create"
    BY <1>3, <2>1
  <2> QED BY <1>3, <2>1, <2>2 DEF Loads, At
<1>5. ASSUME NEW u \in Users, NEW form \in Forms, NEW q \in PostIds, BeginEdit(w, u, q, form)
      PROVE  /\ started' = started + 1 /\ job'[w].number = started + 1
             /\ \A v \in Workers \ {w} : job'[v] = job[v]
             /\ \A p \in PostIds : Loads(w, p)' =>
                 /\ PostExists(p) /\ Seen(w, p)' = post[p] /\ ~At(w, "hook", "commit")'
                 /\ job'[w].more.version = NextVersion(p)
  <2> DEFINE more == [form |-> form, seen |-> post[q],
                      version |-> NextVersion(q)]
  <2>1. Begin(w, "edit", "commit", u, q, more) /\ PostExists(q)
    BY <1>5 DEF BeginEdit, NextVersion
  <2>2. more.seen = post[q] /\ more.version = NextVersion(q)
    OBVIOUS
  <2> HIDE DEF more
  <2>3. job'[w].op = "edit" /\ job'[w].post = q /\ job'[w].more = more
    BY <1>3, <2>1
  <2>4. ASSUME NEW p \in PostIds, Loads(w, p)'
        PROVE  p = q /\ Seen(w, p)' = more.seen
    BY <2>3, <2>4 DEF Loads, At, Seen
  <2>5. ~At(w, "hook", "commit")'
    BY <2>3 DEF At
  <2> QED BY <1>3, <2>1, <2>2, <2>3, <2>4, <2>5
<1>6. ASSUME BeginHook(w)
      PROVE  /\ started' = started + 1 /\ job'[w].number = started + 1
             /\ \A v \in Workers \ {w} : job'[v] = job[v]
             /\ \A p \in PostIds : Loads(w, p)' =>
                 PostExists(p) /\ Seen(w, p)' = post[p] /\ Due(post[p]) /\ ~At(w, "edit", "commit")'
  <2> DEFINE due == {p \in ExistingPosts : Due(post[p])}
             more == [p \in due |-> post[p]]
  <2>1. Begin(w, "hook", "commit", NoUser, NoId, more)
    BY <1>6 DEF BeginHook
  <2>2. DOMAIN more = due /\ \A p \in due : more[p] = post[p] /\ PostExists(p) /\ Due(post[p])
    BY DEF ExistingPosts
  <2> HIDE DEF more, due
  <2>3. job'[w].op = "hook" /\ job'[w].more = more
    BY <1>3, <2>1
  <2>4. ASSUME NEW p \in PostIds, Loads(w, p)'
        PROVE  p \in DOMAIN more /\ Seen(w, p)' = more[p]
    BY <2>3, <2>4 DEF Loads, At, Seen
  <2>5. ~At(w, "edit", "commit")'
    BY <2>3 DEF At
  <2> QED BY <1>3, <2>1, <2>2, <2>4, <2>5
<1>7. CASE \E u \in Users, form \in Forms : BeginCreate(w, u, form)
  BY <1>1, <1>2, <1>4, <1>7
<1>8. CASE \E u \in Users, form \in Forms, q \in PostIds : BeginEdit(w, u, q, form)
  <2>1. PICK u \in Users, form \in Forms, q \in PostIds : BeginEdit(w, u, q, form)
    BY <1>8
  <2>2. /\ started' = started + 1 /\ job'[w].number = started + 1
        /\ \A v \in Workers \ {w} : job'[v] = job[v]
    BY <1>5, <2>1
  <2>3. ASSUME NEW p \in PostIds, Loads(w, p)'
        PROVE  /\ PostExists(p) /\ Seen(w, p)' = post[p] /\ ~At(w, "hook", "commit")'
               /\ job'[w].more.version = NextVersion(p)
    BY <1>5, <2>1, <2>3
  <2> QED BY <1>1, <1>2, <2>2, <2>3
<1>9. CASE BeginHook(w)
  BY <1>1, <1>2, <1>6, <1>9
<1> QED BY <1>7, <1>8, <1>9 DEF ReadsPosts

LEMMA LoadedRow ==
    ASSUME Base, NEW w \in Workers, NEW p \in PostIds, Loads(w, p)
    PROVE  Seen(w, p) \in PostRow
<1>1. CASE At(w, "edit", "commit")
  <2>1. job[w] \in EditJobs
    BY <1>1, JobShape DEF Base, JobsOK
  <2> QED BY <2>1 DEF EditJobs, Request, Seen
<1>2. CASE At(w, "hook", "commit") /\ p \in DOMAIN job[w].more
  <2>1. job[w] \in HookJobs
    BY <1>2, JobShape DEF Base, JobsOK
  <2> QED BY <1>2, <2>1 DEF HookJobs, Request, Seen, At
<1> QED BY <1>1, <1>2 DEF Loads

\* The requests that have written posts are done.
LEMMA PostCommits ==
    ASSUME Base, NEW w \in Workers, CommitCreate(w) \/ CommitEdit(w) \/ CommitHook(w)
    PROVE  Done(w)' /\ \A v \in Workers \ {w} : job'[v] = job[v]
<1>1. job[w] # Idle /\ JobsOK /\ "reward" # "commit"
  BY Zenon DEF CommitCreate, CommitEdit, CommitHook, At, Base
<1>2. CASE End(w)
  <2>1. PICK at : at = "reward"
    BY Zenon
  <2>2. at # "commit"
    BY <1>1, <2>1, Zenon
  <2> QED BY <1>1, <1>2, <2>2, JobMoved, Zenon
<1>3. CASE \E p : job' = [job EXCEPT ![w].at = "reward", ![w].post = p]
  BY <1>1, <1>3, JobMoved, Zenon
<1>4. End(w) \/ \E p : job' = [job EXCEPT ![w].at = "reward", ![w].post = p]
  BY Zenon DEF CommitCreate, CommitEdit, CommitHook
<1> QED BY <1>2, <1>3, <1>4

\* A text is the one there was, none, or of a request that is done.
LEMMA SavedText ==
    ASSUME Base, [Next]_vars, NEW p \in PostIds
    PROVE  \/ post'[p].text = post[p].text
           \/ post'[p].text = 0
           \/ \E w \in Workers : Saving(w) /\ Done(w)' /\ post'[p].text = job[w].number
<1>1. CASE PostsSame
  BY <1>1 DEF PostsSame, SamePost
<1>2. CASE \E q \in PostIds : PostGone(q)
  BY <1>2 DEF PostGone, NoPost
<1>3. ASSUME NEW w \in Workers, CommitCreate(w)
      PROVE  \/ post'[p].text = post[p].text
             \/ Saving(w) /\ Done(w)' /\ post'[p].text = job[w].number
  <2>1. Saving(w) /\ Done(w)'
    BY <1>3, PostCommits DEF CommitCreate, Saving
  <2>2. \/ post'[p] = post[p]
        \/ post'[p] = NewPost(job[w].by, job[w].more.form, job[w].number)
    BY <1>3, CreatedPost DEF postVars
  <2> QED BY <2>1, <2>2 DEF NewPost
<1>4. ASSUME NEW w \in Workers, CommitEdit(w)
      PROVE  \/ post'[p].text = post[p].text
             \/ Saving(w) /\ Done(w)' /\ post'[p].text = job[w].number
  <2>1. Saving(w) /\ Done(w)'
    BY <1>4, PostCommits, Zenon DEF CommitEdit, Saving
  <2>2. post'[p].text \in {post[p].text, job[w].number}
    BY <1>4, EditedPost DEF postVars
  <2> QED BY <2>1, <2>2
<1>5. ASSUME NEW w \in Workers, CommitHook(w)
      PROVE  post'[p].text = post[p].text
  BY <1>5, HookedPosts
<1> QED BY <1>1, <1>2, <1>3, <1>4, <1>5, PostEffects

(* Every saving gives a text of its own: the number of a request that is about
   to save is of no other request, no post and no row that was loaded.       *)
Used(n) == n <= started /\ \A w \in Workers : Saving(w) => job[w].number # n
Numbered ==
    /\ \A p \in PostIds : Used(post[p].text)
    /\ \A w \in Workers, p \in PostIds : Loads(w, p) => Used(Seen(w, p).text)
    /\ \A w \in Workers : Saving(w) =>
          /\ job[w].number \in 1..started
          /\ \A v \in Workers : Saving(v) /\ job[v].number = job[w].number => v = w

LEMMA NumberedStep ==
    ASSUME Base, Numbered, [Next]_vars
    PROVE  Numbered'
<1>1. \A p \in PostIds : post[p].text \in Nat /\ post'[p].text \in Nat
  <2>1. PostsOK /\ PostsOK'
    BY StepBase DEF Base
  <2> QED BY <2>1 DEF PostsOK, PostRow, NoPost
<1>2. \A w \in Workers, p \in PostIds : Loads(w, p) => Seen(w, p).text \in Nat
  BY LoadedRow DEF PostRow
<1>3. ASSUME NEW w \in Workers, ReadsPosts(w)
      PROVE  Numbered'
  <2>1. /\ post' = post /\ started' = started + 1 /\ started \in Nat
        /\ job'[w].number = started + 1 /\ \A v \in Workers \ {w} : job'[v] = job[v]
        /\ \A p \in PostIds : Loads(w, p)' => Seen(w, p)' = post[p]
    BY <1>3, PostsRead DEF Tables, postVars
  <2>2. \A v \in Workers \ {w} : /\ Saving(v)' => Saving(v)
                                 /\ \A p \in PostIds : Loads(v, p)' => Loads(v, p) /\ Seen(v, p)' = Seen(v, p)
    BY <2>1 DEF Saving, Loads, Seen, At
  <2>3. ASSUME NEW n \in Nat, Used(n)
        PROVE  Used(n)'
    BY <2>1, <2>2, <2>3 DEF Used
  <2>4. \A p \in PostIds : Used(post[p].text)'
    BY <1>1, <2>1, <2>3 DEF Numbered, Used
  <2>5. ASSUME NEW v \in Workers, NEW p \in PostIds, Loads(v, p)'
        PROVE  Used(Seen(v, p).text)'
    <3>1. CASE v = w
      BY <2>1, <2>4, <2>5, <3>1 DEF Used
    <3>2. CASE v # w
      <4>1. Loads(v, p) /\ Seen(v, p)' = Seen(v, p) /\ Seen(v, p).text \in Nat
        BY <1>2, <2>2, <2>5, <3>2
      <4>2. Used(Seen(v, p).text)
        BY <4>1 DEF Numbered
      <4> QED BY <2>3, <4>1, <4>2 DEF Used
    <3> QED BY <3>1, <3>2
  <2>6. ASSUME NEW u \in Workers, Saving(u)'
        PROVE  /\ job'[u].number \in 1..started'
               /\ \A v \in Workers : Saving(v)' /\ job'[v].number = job'[u].number => v = u
    <3>1. \A v \in Workers \ {w} : Saving(v)' => job'[v].number = job[v].number /\ job[v].number \in 1..started
      BY <2>1, <2>2 DEF Numbered
    <3>2. CASE u = w
      BY <2>1, <3>1, <3>2
    <3>3. CASE u # w
      <4>1. Saving(u) /\ job'[u].number = job[u].number /\ job[u].number \in 1..started
        BY <2>2, <2>6, <3>1, <3>3
      <4>2. ASSUME NEW v \in Workers, Saving(v)', job'[v].number = job'[u].number
            PROVE  v = u
        <5>1. v # w
          BY <2>1, <4>1, <4>2
        <5>2. Saving(v) /\ job[v].number = job[u].number
          BY <2>2, <3>1, <4>1, <4>2, <5>1
        <5> QED BY <4>1, <5>2 DEF Numbered
      <4> QED BY <2>1, <4>1, <4>2
    <3> QED BY <3>2, <3>3
  <2> QED BY <2>4, <2>5, <2>6 DEF Numbered
<1>4. CASE JobsGo /\ started' >= started /\ started' \in Nat
  <2>1. started \in Nat
    BY PostsAssumption DEF Base, SiteOK
  <2>2. \A w \in Workers : /\ Saving(w)' => Saving(w) /\ job'[w] = job[w]
                           /\ \A p \in PostIds : Loads(w, p)' => Loads(w, p) /\ Seen(w, p)' = Seen(w, p)
    BY <1>4 DEF JobsGo, Done, Saving, Loads, Seen, At
  <2>3. ASSUME NEW n \in Nat, Used(n)
        PROVE  Used(n)'
    BY <1>4, <2>1, <2>2, <2>3 DEF Used
  <2>4. ASSUME NEW p \in PostIds
        PROVE  Used(post[p].text)'
    <3>1. CASE post'[p].text = post[p].text
      BY <1>1, <2>3, <3>1 DEF Numbered, Used
    <3>2. CASE post'[p].text = 0
      BY <1>4, <2>2, <3>2 DEF Numbered, Used
    <3>3. ASSUME NEW w \in Workers, Saving(w), Done(w)', post'[p].text = job[w].number
          PROVE  Used(post[p].text)'
      <4>1. job[w].number \in 1..started
        BY <3>3 DEF Numbered
      <4>2. ASSUME NEW v \in Workers, Saving(v)'
            PROVE  job'[v].number # job[w].number
        <5>1. v # w
          BY <3>3, <4>2 DEF Done
        <5>2. Saving(v) /\ job'[v] = job[v]
          BY <2>2, <4>2
        <5> QED BY <3>3, <5>1, <5>2 DEF Numbered
      <4> QED BY <1>4, <2>1, <3>3, <4>1, <4>2 DEF Used
    <3> QED BY <3>1, <3>2, <3>3, SavedText
  <2>5. ASSUME NEW w \in Workers, NEW p \in PostIds, Loads(w, p)'
        PROVE  Used(Seen(w, p).text)'
    <3>1. Loads(w, p) /\ Seen(w, p)' = Seen(w, p) /\ Seen(w, p).text \in Nat
      BY <1>2, <2>2, <2>5
    <3>2. Used(Seen(w, p).text)
      BY <3>1 DEF Numbered
    <3> QED BY <2>3, <3>1, <3>2 DEF Used
  <2>6. ASSUME NEW w \in Workers, Saving(w)'
        PROVE  /\ job'[w].number \in 1..started'
               /\ \A v \in Workers : Saving(v)' /\ job'[v].number = job'[w].number => v = w
    <3>1. Saving(w) /\ job'[w] = job[w] /\ job[w].number \in 1..started
      BY <2>2, <2>6 DEF Numbered
    <3>2. \A v \in Workers : Saving(v)' /\ job'[v].number = job'[w].number => v = w
      BY <2>2, <3>1 DEF Numbered
    <3> QED BY <1>4, <2>1, <3>1, <3>2
  <2> QED BY <2>4, <2>5, <2>6 DEF Numbered
<1> QED BY <1>3, <1>4, JobEffects

-----------------------------------------------------------------------------
(* Publication.                                                            *)

(* The date of a post is the one asked for, it is a draft only if that was asked,
   and it is public for a reason.                                          *)
Timely(row) ==
    /\ row.date = row.asked.date /\ (row.draft => IsDraft(row.asked))
    /\ row.published =>
          row.asked.published \/ (row.asked.date # NoDate /\ row.asked.date <= clock /\ ~row.draft)

(* A request that loaded a post knows its date and whether it is a draft, as long
   as the post has the text it had; the hook only loads posts that are due.  *)
Agrees(w, p) ==
    /\ PostExists(p) /\ post[p].text = Seen(w, p).text =>
          Seen(w, p).date = post[p].date /\ (post[p].draft => Seen(w, p).draft)
    /\ At(w, "hook", "commit") => Due(Seen(w, p))
Scheduled ==
    /\ \A p \in PostIds : PostExists(p) => Timely(post[p])
    /\ \A w \in Workers, p \in PostIds : Loads(w, p) => Agrees(w, p)

\* Time does not run backwards.
LEMMA Later ==
    ASSUME Base, [Next]_vars
    PROVE  clock \in Nat /\ clock' \in Nat /\ clock <= clock'
<1>1. clock \in Nat /\ clock' \in Nat
  BY StepBase, PostsAssumption DEF Base, SiteOK
<1>2. CASE UNCHANGED Tables
  BY <1>1, <1>2 DEF Tables, siteVars
<1>3. CASE Tick /\ UNCHANGED threadVars
  BY <1>1, <1>3 DEF Tick
<1>4. CASE \E u \in Users, S \in SUBSET notice : MarkRead(u, S)
  BY <1>1, <1>4 DEF MarkRead, siteVars
<1>5. ASSUME NEW w \in Workers, Commits(w)
      PROVE  clock' = clock
  <2>1. CASE CommitCreate(w) \/ CommitEdit(w) \/ CommitHook(w)
    BY <2>1, Zenon DEF CommitCreate, CommitEdit, CommitHook, siteVars
  <2>2. CASE Insert(w) \/ CommitReward(w) \/ CommitEditComment(w) \/ CommitDeleteComment(w)
    BY <2>2, Zenon DEF Insert, CommitReward, CommitEditComment, CommitDeleteComment, siteVars
  <2>3. CASE CommitDeletePost(w) \/ CommitDeleteUser(w) \/ GiveLike(w) \/ TakeLike(w)
    BY <2>3, Zenon DEF CommitDeletePost, CommitDeleteUser, GiveLike, TakeLike, siteVars
  <2>4. CASE RenameBadges(w) \/ CreateBadges(w)
    BY <2>4 DEF RenameBadges, CreateBadges, siteVars
  <2> QED BY <1>5, <2>1, <2>2, <2>3, <2>4 DEF Commits
<1> QED BY <1>1, <1>2, <1>3, <1>4, <1>5, Steps, StutterTables, ReadsTables

\* A row that keeps its columns stays timely.
LEMMA TimelyKept ==
    ASSUME Base, [Next]_vars, NEW p \in PostIds, PostExists(p), Timely(post[p]), SamePost(p)
    PROVE  Timely(post[p])'
<1>1. clock \in Nat /\ clock' \in Nat /\ clock <= clock'
  BY Later
<1>2. post[p].asked \in Form
  BY PostRows DEF Base, PostRow
<1>3. post[p].asked.date \in Nat
  BY <1>2, PostsAssumption DEF Form, NoDate
<1> QED BY <1>1, <1>3 DEF Timely, SamePost

LEMMA NewPostTimely ==
    ASSUME NEW a, NEW form \in Form, NEW n
    PROVE  Timely(NewPost(a, form, n))
BY DEF Timely, NewPost

\* What a saved form and a publication make of a post
LEMMA EditTimely ==
    ASSUME Base, Numbered, Scheduled, NEW w \in Workers, CommitEdit(w), ~overtaken', NEW q \in PostIds,
           PostExists(q), post'[q] # post[q]
    PROVE  Timely(post[q])' /\ Saving(w) /\ post'[q].text = job[w].number
<1> DEFINE form == job[w].more.form
           seen == job[w].more.seen
<1>1. /\ job[w] \in EditJobs /\ q = job[w].post /\ seen \in PostRow /\ form \in Form
      /\ post[q] \in PostRow /\ post'[q] \in PostRow
      /\ post'[q].published = IF form.published # seen.published THEN form.published ELSE post[q].published
      /\ post'[q].draft = IF IsDraft(form) # seen.draft THEN IsDraft(form) ELSE post[q].draft
      /\ post'[q].date = IF form.date # seen.date THEN form.date ELSE post[q].date
      /\ post'[q].text = IF job[w].number # seen.text THEN job[w].number ELSE post[q].text
      /\ post'[q].asked = form
      /\ post[q].text = seen.text /\ post[q].published = seen.published
  BY EditedPost, PostRows, Zenon DEF Base, postVars
<1>2. Saving(w) /\ At(w, "edit", "commit") /\ Loads(w, q) /\ Seen(w, q) = seen
  BY <1>1 DEF CommitEdit, Saving, Loads, Seen, At
<1>3. job[w].number # seen.text
  BY <1>2 DEF Numbered, Used
<1>4. seen.date = post[q].date /\ (post[q].draft => seen.draft)
  BY <1>1, <1>2 DEF Scheduled, Agrees
<1> HIDE DEF form, seen
<1>5. /\ seen.published \in BOOLEAN /\ seen.draft \in BOOLEAN /\ form.published \in BOOLEAN
      /\ post[q].published \in BOOLEAN /\ post[q].draft \in BOOLEAN /\ IsDraft(form) \in BOOLEAN
  BY <1>1 DEF PostRow, Form, IsDraft
<1>6. post'[q].published = form.published /\ post'[q].date = form.date
  BY <1>1, <1>4, <1>5
<1>7. post'[q].draft => IsDraft(form)
  BY <1>1, <1>4, <1>5
<1>8. Timely(post[q])'
  BY <1>1, <1>6, <1>7 DEF Timely
<1> QED BY <1>1, <1>2, <1>3, <1>8

LEMMA HookTimely ==
    ASSUME Base, Scheduled, [Next]_vars, NEW w \in Workers, CommitHook(w), ~overtaken', NEW q \in PostIds,
           PostExists(q), Timely(post[q])
    PROVE  /\ Timely(post[q])' /\ PostExists(q)'
           /\ post'[q].text = post[q].text /\ post'[q].date = post[q].date
           /\ post'[q].draft => post[q].draft
<1> DEFINE seen == job[w].more[q]
<1>1. /\ At(w, "hook", "commit") /\ clock' = clock /\ clock \in Nat
  BY Later, Zenon DEF CommitHook, siteVars
<1>2. CASE post'[q] = post[q]
  BY <1>1, <1>2 DEF Timely, PostExists
<1>3. CASE post'[q] # post[q]
  <2>1. /\ q \in DOMAIN job[w].more /\ seen \in PostRow /\ post[q] \in PostRow /\ post'[q] \in PostRow
        /\ post'[q].date = post[q].date /\ post'[q].text = post[q].text /\ post'[q].asked = post[q].asked
        /\ post'[q].draft = (~seen.draft /\ post[q].draft)
        /\ post[q].text = seen.text
    <3>1. q \in DOMAIN job[w].more
      BY <1>3, HookedPosts
    <3>2. seen \in PostRow /\ post'[q] \in PostRow /\ post[q] \in PostRow
      BY <1>3, <3>1, HookedPosts, PostRows DEF Base
    <3>3. post'[q].date = post[q].date /\ post'[q].text = post[q].text /\ post'[q].asked = post[q].asked
      BY <1>3, <3>1, HookedPosts
    <3>4. post[q].text = seen.text
      BY <1>3, <3>1, HookedPosts
    <3>5. post'[q].draft = (~seen.draft /\ post[q].draft)
      <4>1. post # post'
        BY <1>3
      <4>2. \A p \in DOMAIN job[w].more : post'[p].draft = (~job[w].more[p].draft /\ post[p].draft)
        BY <4>1, HookedPosts, Zenon
      <4> QED BY <3>1, <4>2, Zenon
    <3> QED BY <3>1, <3>2, <3>3, <3>4, <3>5
  <2>2. Loads(w, q) /\ Seen(w, q) = seen
    BY <1>1, <2>1 DEF Loads, Seen, At
  <2>3. /\ seen.date = post[q].date /\ (post[q].draft => seen.draft)
        /\ seen.date # NoDate /\ seen.date <= clock
    BY <2>1, <2>2, <1>1 DEF Scheduled, Agrees, Due
  <2>4. ~post'[q].draft
    BY <2>1, <2>3
  <2>5. PostExists(q)'
    BY <2>1, PostRowIsRow DEF PostExists
  <2> HIDE DEF seen
  <2> QED BY <1>1, <2>1, <2>3, <2>4, <2>5 DEF Timely
<1> QED BY <1>2, <1>3

LEMMA ScheduledStep ==
    ASSUME Base, Numbered, Scheduled, [Next]_vars, ~overtaken'
    PROVE  Scheduled'
\* what happens to a post, and to what a request has loaded
<1>1. ASSUME NEW p \in PostIds
      PROVE  \/ SamePost(p)
             \/ ~PostExists(p)'
             \/ /\ PostExists(p) /\ post'[p].text = post[p].text /\ post'[p].date = post[p].date
                /\ Timely(post[p])' /\ (post'[p].draft => post[p].draft)
             \/ Timely(post[p])' /\ \E w \in Workers : Saving(w) /\ Done(w)' /\ post'[p].text = job[w].number
  <2>1. CASE PostsSame
    BY <2>1 DEF PostsSame
  <2>2. ASSUME NEW q \in PostIds, PostGone(q)
        PROVE  SamePost(p) \/ ~PostExists(p)'
    BY <2>2 DEF PostGone, SamePost, PostExists
  <2>3. ASSUME NEW w \in Workers, CommitCreate(w)
        PROVE  \/ SamePost(p)
               \/ Timely(post[p])' /\ Saving(w) /\ Done(w)' /\ post'[p].text = job[w].number
    <3>1. CASE post'[p] = post[p]
      BY <3>1 DEF SamePost, PostExists
    <3>2. CASE post'[p] # post[p]
      <4>1. post'[p] = NewPost(job[w].by, job[w].more.form, job[w].number) /\ job[w] \in CreateJobs
        BY <2>3, <3>2, CreatedPost DEF postVars
      <4>2. job[w].more.form \in Form
        BY <4>1, PostsAssumption DEF CreateJobs, Request
      <4>3. Timely(post[p])'
        BY <4>1, <4>2 DEF Timely, NewPost
      <4>4. Saving(w) /\ Done(w)'
        BY <2>3, PostCommits DEF CommitCreate, Saving
      <4> QED BY <4>1, <4>3, <4>4 DEF NewPost
    <3> QED BY <3>1, <3>2
  <2>4. ASSUME NEW w \in Workers, CommitEdit(w)
        PROVE  \/ SamePost(p)
               \/ Timely(post[p])' /\ Saving(w) /\ Done(w)' /\ post'[p].text = job[w].number
    <3>1. CASE post'[p] = post[p]
      BY <3>1 DEF SamePost, PostExists
    <3>2. CASE post'[p] # post[p]
      <4>1. PostExists(p)
        BY <2>4, <3>2, EditedPost DEF postVars
      <4> QED BY <2>4, <3>2, <4>1, EditTimely, PostCommits
    <3> QED BY <3>1, <3>2
  <2>5. ASSUME NEW w \in Workers, CommitHook(w)
        PROVE  \/ SamePost(p)
               \/ /\ PostExists(p) /\ post'[p].text = post[p].text /\ post'[p].date = post[p].date
                  /\ Timely(post[p])' /\ (post'[p].draft => post[p].draft)
    <3>1. CASE ~PostExists(p)
      <4>1. post'[p] = post[p]
        BY <2>5, <3>1, HookedPosts
      <4> QED BY <4>1 DEF SamePost, PostExists
    <3>2. CASE PostExists(p)
      BY <2>5, <3>2, HookTimely DEF Scheduled
    <3> QED BY <3>1, <3>2
  <2> QED BY <2>1, <2>2, <2>3, <2>4, <2>5, PostEffects
<1>2. ASSUME NEW p \in PostIds, PostExists(p)'
      PROVE  Timely(post[p])'
  <2>1. CASE SamePost(p)
    BY <1>2, <2>1, TimelyKept DEF SamePost, Scheduled
  <2> QED BY <1>1, <1>2, <2>1
<1>3. ASSUME NEW w \in Workers, NEW p \in PostIds, Loads(w, p)'
      PROVE  Agrees(w, p)'
  <2>1. clock \in Nat /\ clock' \in Nat /\ clock <= clock'
    BY Later
  <2>2. ASSUME NEW v \in Workers, ReadsPosts(v), v = w
        PROVE  Agrees(w, p)'
    <3>1. /\ Seen(w, p)' = post[p] /\ (At(w, "hook", "commit")' => Due(post[p]))
          /\ post' = post /\ clock' = clock
      BY <1>3, <2>2, PostsRead DEF Tables, postVars, siteVars
    <3> QED BY <3>1 DEF Agrees, Due
  <2>3. CASE job'[w] = job[w]
    <3>1. /\ Loads(w, p) /\ Seen(w, p)' = Seen(w, p)
          /\ At(w, "hook", "commit")' <=> At(w, "hook", "commit")
      BY <1>3, <2>3 DEF Loads, Seen, At
    <3>2. Agrees(w, p) /\ Used(Seen(w, p).text) /\ Seen(w, p) \in PostRow
      BY <3>1, LoadedRow DEF Scheduled, Numbered
    <3>3. Seen(w, p).date \in Nat
      BY <3>2, PostsAssumption DEF PostRow, NoDate
    <3>4. At(w, "hook", "commit")' => Due(Seen(w, p))'
      BY <2>1, <3>1, <3>2, <3>3 DEF Agrees, Due
    <3>5. ASSUME PostExists(p)', post'[p].text = Seen(w, p).text
          PROVE  Seen(w, p).date = post'[p].date /\ (post'[p].draft => Seen(w, p).draft)
      <4>1. CASE \E v \in Workers : Saving(v) /\ Done(v)' /\ post'[p].text = job[v].number
        BY <3>2, <3>5, <4>1 DEF Used
      <4>2. CASE SamePost(p)
        BY <3>2, <3>5, <4>2 DEF SamePost, Agrees
      <4>3. CASE /\ PostExists(p) /\ post'[p].text = post[p].text /\ post'[p].date = post[p].date
                 /\ (post'[p].draft => post[p].draft)
        BY <3>2, <3>5, <4>3 DEF Agrees
      <4> QED BY <1>1, <3>5, <4>1, <4>2, <4>3
    <3> QED BY <3>1, <3>4, <3>5 DEF Agrees
  <2>4. job'[w] # job[w] => \E v \in Workers : ReadsPosts(v) /\ v = w
    <3>1. CASE JobsGo
      BY <1>3, <3>1 DEF JobsGo, Done
    <3>2. ASSUME NEW v \in Workers, ReadsPosts(v)
          PROVE  job'[w] # job[w] => v = w
      BY <3>2, PostsRead
    <3> QED BY <3>1, <3>2, JobEffects
  <2> QED BY <2>2, <2>3, <2>4
<1> QED BY <1>2, <1>3 DEF Scheduled

-----------------------------------------------------------------------------
(* Revisions.                                                              *)

(* What the property says of a post, and what an edit that has loaded it knows of
   its revisions, as long as the post has the text it had.                   *)
Complete(p) ==
    /\ post[p].past = {post[p].text} \cup {r.text : r \in Revisions(p)}
    /\ {r.version : r \in Revisions(p)} = 1..Cardinality(Revisions(p))
Counts(w, p) ==
    PostExists(p) /\ post[p].text = Seen(w, p).text =>
        job[w].more.version = Cardinality(Revisions(p)) + 1
History ==
    /\ \A p \in PostIds : PostExists(p) => Complete(p)
    /\ \A w \in Workers, p \in PostIds : At(w, "edit", "commit") /\ Loads(w, p) => Counts(w, p)

\* Revisions go with their post.
Owned == \A r \in revision : PostExists(r.post)

LEMMA OwnedStep ==
    ASSUME Base, Owned, [Next]_vars
    PROVE  Owned'
<1>1. \A r \in revision : r.post \in PostIds
  BY DEF Base, PostsOK, Revision
<1>2. CASE PostsSame
  BY <1>1, <1>2 DEF PostsSame, SamePost, Owned
<1>3. ASSUME NEW p \in PostIds, PostGone(p)
      PROVE  Owned'
  BY <1>1, <1>3 DEF PostGone, Owned, PostExists, Revisions
<1>4. ASSUME NEW w \in Workers, CommitCreate(w)
      PROVE  Owned'
  <2>1. revision' = revision /\ \A p \in PostIds : PostExists(p) => post'[p] = post[p]
    BY <1>4, CreatedPost DEF postVars
  <2> QED BY <1>1, <2>1 DEF Owned, PostExists
<1>5. ASSUME NEW w \in Workers, CommitEdit(w)
      PROVE  Owned'
  <2>1. \A p \in PostIds : PostExists(p) => PostExists(p)'
    <3>1. CASE post' = post
      BY <3>1 DEF PostExists
    <3>2. CASE post' # post
      BY <1>5, <3>2, EditedPost, PostRowIsRow DEF PostExists, postVars
    <3> QED BY <3>1, <3>2
  <2>2. revision' = revision \/ \E r : /\ r.post \in PostIds /\ PostExists(r.post)
                                       /\ revision' = revision \cup {r}
    BY <1>5, EditedPost DEF postVars
  <2> QED BY <1>1, <2>1, <2>2 DEF Owned
<1>6. ASSUME NEW w \in Workers, CommitHook(w)
      PROVE  Owned'
  <2>1. revision' = revision
    BY <1>6, Zenon DEF CommitHook
  <2>2. \A p \in PostIds : PostExists(p) => PostExists(p)'
    <3>1. CASE post' = post
      BY <3>1 DEF PostExists
    <3>2. CASE post' # post
      BY <1>6, <3>2, HookedPosts, PostRowIsRow DEF PostExists
    <3> QED BY <3>1, <3>2
  <2> QED BY <1>1, <2>1, <2>2 DEF Owned
<1> QED BY <1>2, <1>3, <1>4, <1>5, <1>6, PostEffects

LEMMA Versions ==
    ASSUME PostsOK, NEW p \in PostIds, Complete(p)
    PROVE  /\ IsFiniteSet(Revisions(p)) /\ Cardinality(Revisions(p)) \in Nat
           /\ NextVersion(p) = Cardinality(Revisions(p)) + 1
<1> DEFINE n == Cardinality(Revisions(p))
           S == {r.version : r \in Revisions(p)} \cup {0}
<1>1. IsFiniteSet(Revisions(p)) /\ n \in Nat
  BY FS_Subset, FS_CardinalityType DEF PostsOK, Revisions
<1>2. S = 1..n \cup {0}
  BY DEF Complete
<1> HIDE DEF n
<1>3. S \in SUBSET Nat /\ S # {} /\ n \in S /\ \A x \in S : x <= n
  BY <1>1, <1>2
<1> HIDE DEF S
<1>4. Max(S) \in S /\ \A y \in S : y <= Max(S)
  BY <1>1, <1>3, Greatest
<1>5. Max(S) = n
  <2>1. PICK m \in S : m = Max(S)
    BY <1>4
  <2>2. m \in Nat /\ m <= n /\ n <= m
    BY <1>3, <1>4, <2>1
  <2> QED BY <1>1, <2>1, <2>2
<1> QED BY <1>1, <1>5 DEF NextVersion, S, n

\* The texts and revisions of post p are as they were.
TextKept(p) ==
    /\ PostExists(p)' => PostExists(p)
    /\ post'[p].text = post[p].text /\ post'[p].past = post[p].past
    /\ Revisions(p)' = Revisions(p)

LEMMA EditCompletes ==
    ASSUME Base, Numbered, History, NEW w \in Workers, CommitEdit(w), ~overtaken', NEW p \in PostIds,
           post'[p] # post[p]
    PROVE  Complete(p)' /\ Saving(w) /\ post'[p].text = job[w].number
<1> DEFINE seen == job[w].more.seen
           n == Cardinality(Revisions(p))
           new == [post |-> p, version |-> job[w].more.version, text |-> seen.text]
<1>1. /\ job[w] \in EditJobs /\ p = job[w].post /\ PostExists(p)
      /\ post'[p].text = IF job[w].number # seen.text THEN job[w].number ELSE post[p].text
      /\ post'[p].past = post[p].past \cup {job[w].number}
      /\ revision' = revision \cup {new}
      /\ post[p].text = seen.text
  BY EditedPost DEF postVars
<1>2. Saving(w) /\ At(w, "edit", "commit") /\ Loads(w, p) /\ Seen(w, p) = seen
  BY <1>1 DEF CommitEdit, Saving, Loads, Seen, At
<1>3. job[w].number # seen.text
  BY <1>2 DEF Numbered, Used
<1>4. Complete(p) /\ new.version = n + 1
  BY <1>1, <1>2 DEF History, Counts
<1>5. IsFiniteSet(Revisions(p)) /\ n \in Nat
  BY <1>4, Versions DEF Base
<1>6. Revisions(p)' = Revisions(p) \cup {new}
  BY <1>1 DEF Revisions
<1>7. new.text = seen.text
  OBVIOUS
<1> HIDE DEF new, n, seen
<1>8. new \notin Revisions(p)
  BY <1>4, <1>5 DEF Complete, n
<1>9. Cardinality(Revisions(p) \cup {new}) = n + 1
  BY <1>5, <1>8, FS_AddElement DEF n
<1>10. {r.version : r \in Revisions(p) \cup {new}} = 1..(n + 1)
  <2>1. {r.version : r \in Revisions(p) \cup {new}} = {r.version : r \in Revisions(p)} \cup {new.version}
    OBVIOUS
  <2>2. {r.version : r \in Revisions(p)} = 1..n
    BY <1>4 DEF Complete, n
  <2>3. 1..n \cup {n + 1} = 1..(n + 1)
    BY <1>5
  <2> QED BY <1>4, <2>1, <2>2, <2>3
<1>11. post'[p].past = {post'[p].text} \cup {r.text : r \in Revisions(p) \cup {new}}
  <2>1. {r.text : r \in Revisions(p) \cup {new}} = {r.text : r \in Revisions(p)} \cup {new.text}
    OBVIOUS
  <2>2. post[p].past = {post[p].text} \cup {r.text : r \in Revisions(p)}
    BY <1>4 DEF Complete
  <2>3. post'[p].text = job[w].number
    BY <1>1, <1>3
  <2> HIDE DEF Revisions
  <2> QED BY <1>1, <1>7, <2>1, <2>2, <2>3
<1>12. Complete(p)'
  BY <1>6, <1>9, <1>10, <1>11 DEF Complete
<1> QED BY <1>1, <1>2, <1>3, <1>12

LEMMA HistoryStep ==
    ASSUME Base, Numbered, Owned, History, [Next]_vars, ~overtaken'
    PROVE  History'
<1>0. Owned' /\ \A r \in revision : r.post \in PostIds
  BY OwnedStep DEF Base, PostsOK, Revision
<1>1. ASSUME NEW p \in PostIds
      PROVE  \/ TextKept(p)
             \/ ~PostExists(p)'
             \/ Complete(p)' /\ \E w \in Workers : Saving(w) /\ Done(w)' /\ post'[p].text = job[w].number
  <2>1. CASE PostsSame
    BY <2>1 DEF PostsSame, SamePost, TextKept, Revisions
  <2>2. ASSUME NEW q \in PostIds, PostGone(q)
        PROVE  TextKept(p) \/ ~PostExists(p)'
    <3>1. CASE p = q
      BY <2>2, <3>1 DEF PostGone, PostExists
    <3>2. CASE p # q
      <4>1. post'[p] = post[p]
        BY <2>2, <3>2 DEF PostGone
      <4>2. Revisions(p)' = Revisions(p)
        BY <2>2, <3>2 DEF PostGone, Revisions
      <4> QED BY <4>1, <4>2 DEF TextKept, PostExists
    <3> QED BY <3>1, <3>2
  <2>3. ASSUME NEW w \in Workers, CommitCreate(w)
        PROVE  \/ TextKept(p)
               \/ Complete(p)' /\ Saving(w) /\ Done(w)' /\ post'[p].text = job[w].number
    <3>1. Revisions(p)' = Revisions(p)
      BY <2>3, CreatedPost DEF Revisions, postVars
    <3>2. CASE post'[p] = post[p]
      BY <3>1, <3>2 DEF TextKept, PostExists
    <3>3. CASE post'[p] # post[p]
      <4>1. post'[p] = NewPost(job[w].by, job[w].more.form, job[w].number) /\ ~PostExists(p)
        BY <2>3, <3>3, CreatedPost DEF postVars
      <4>2. Revisions(p) = {}
        BY <4>1 DEF Owned, Revisions
      <4>3. post'[p].text = job[w].number /\ post'[p].past = {job[w].number}
        BY <4>1 DEF NewPost
      <4>4. Cardinality({}) = 0 /\ {r.text : r \in {}} = {} /\ {r.version : r \in {}} = 1..0
        BY FS_EmptySet
      <4>5. Complete(p)'
        BY <3>1, <4>2, <4>3, <4>4 DEF Complete
      <4>6. Saving(w) /\ Done(w)'
        BY <2>3, PostCommits DEF CommitCreate, Saving
      <4> QED BY <4>3, <4>5, <4>6
    <3> QED BY <3>2, <3>3
  <2>4. ASSUME NEW w \in Workers, CommitEdit(w)
        PROVE  \/ TextKept(p)
               \/ Complete(p)' /\ Saving(w) /\ Done(w)' /\ post'[p].text = job[w].number
    <3>1. CASE post'[p] = post[p]
      <4>1. Revisions(p)' = Revisions(p)
        <5>1. CASE revision' = revision
          BY <5>1 DEF Revisions
        <5>2. CASE revision' # revision
          <6>1. /\ job[w].post \in PostIds /\ post'[job[w].post].text =
                     IF job[w].number # job[w].more.seen.text THEN job[w].number ELSE post[job[w].post].text
                /\ revision' = revision \cup {[post |-> job[w].post, version |-> job[w].more.version,
                                               text |-> job[w].more.seen.text]}
            BY <2>4, <5>2, EditedPost DEF postVars
          <6>2. CASE p = job[w].post
            <7>1. Saving(w) /\ Loads(w, p) /\ Seen(w, p) = job[w].more.seen
              BY <2>4, <6>2 DEF CommitEdit, Saving, Loads, Seen, At
            <7>2. job[w].number # job[w].more.seen.text /\ job[w].number # post[p].text
              BY <7>1 DEF Numbered, Used
            <7> QED BY <3>1, <6>1, <6>2, <7>2
          <6>3. CASE p # job[w].post
            BY <6>1, <6>3 DEF Revisions
          <6> QED BY <6>2, <6>3
        <5> QED BY <5>1, <5>2
      <4> QED BY <3>1, <4>1 DEF TextKept, PostExists
    <3>2. CASE post'[p] # post[p]
      BY <2>4, <3>2, EditCompletes, PostCommits
    <3> QED BY <3>1, <3>2
  <2>5. ASSUME NEW w \in Workers, CommitHook(w)
        PROVE  TextKept(p)
    <3>1. Revisions(p)' = Revisions(p)
      BY <2>5, Zenon DEF CommitHook, Revisions
    <3>2. CASE post'[p] = post[p]
      BY <3>1, <3>2 DEF TextKept, PostExists
    <3>3. CASE post'[p] # post[p]
      BY <2>5, <3>1, <3>3, HookedPosts DEF TextKept
    <3> QED BY <3>2, <3>3
  <2> QED BY <2>1, <2>2, <2>3, <2>4, <2>5, PostEffects
<1>2. ASSUME NEW p \in PostIds, PostExists(p)'
      PROVE  Complete(p)'
  <2>1. CASE TextKept(p)
    BY <1>2, <2>1 DEF TextKept, Complete, History
  <2> QED BY <1>1, <1>2, <2>1
<1>3. ASSUME NEW w \in Workers, NEW p \in PostIds, At(w, "edit", "commit")', Loads(w, p)'
      PROVE  Counts(w, p)'
  <2>1. ASSUME NEW v \in Workers, ReadsPosts(v), v = w
        PROVE  Counts(w, p)'
    <3>1. /\ job'[w].more.version = NextVersion(p) /\ PostExists(p) /\ UNCHANGED Tables
      BY <1>3, <2>1, PostsRead
    <3>2. Revisions(p)' = Revisions(p)
      BY <3>1 DEF Tables, postVars, Revisions
    <3>3. NextVersion(p) = Cardinality(Revisions(p)) + 1
      BY <3>1, Versions DEF History, Base
    <3> QED BY <3>1, <3>2, <3>3 DEF Counts
  <2>2. CASE job'[w] = job[w]
    <3>1. Loads(w, p) /\ Seen(w, p)' = Seen(w, p) /\ At(w, "edit", "commit")
      BY <1>3, <2>2 DEF Loads, Seen, At
    <3>2. Counts(w, p) /\ Used(Seen(w, p).text)
      BY <3>1 DEF History, Numbered
    <3>3. ASSUME PostExists(p)', post'[p].text = Seen(w, p).text
          PROVE  job[w].more.version = Cardinality(Revisions(p)') + 1
      <4>1. CASE \E v \in Workers : Saving(v) /\ Done(v)' /\ post'[p].text = job[v].number
        BY <3>2, <3>3, <4>1 DEF Used
      <4>2. CASE TextKept(p)
        BY <3>2, <3>3, <4>2 DEF TextKept, Counts
      <4> QED BY <1>1, <3>3, <4>1, <4>2
    <3> QED BY <2>2, <3>1, <3>3 DEF Counts
  <2>3. job'[w] # job[w] => \E v \in Workers : ReadsPosts(v) /\ v = w
    <3>1. CASE JobsGo
      BY <1>3, <3>1 DEF JobsGo, Done
    <3>2. ASSUME NEW v \in Workers, ReadsPosts(v)
          PROVE  job'[w] # job[w] => v = w
      BY <3>2, PostsRead
    <3> QED BY <3>1, <3>2, JobEffects
  <2> QED BY <2>1, <2>2, <2>3
<1> QED BY <1>2, <1>3 DEF History

-----------------------------------------------------------------------------
(* Both hold until a request is overtaken.                                 *)
PostsInv ==
    /\ Base /\ Numbered /\ Owned
    /\ overtaken \/ (Scheduled /\ History)

LEMMA PostsInit == Init => PostsInv
<1> SUFFICES ASSUME Init PROVE PostsInv
  OBVIOUS
<1>1. PICK a \in Admins : post = [p \in PostIds |-> IF p = 1 THEN NewPost(a, Publish, 0) ELSE NoPost]
  BY DEF Init, InitPosts
<1>2. revision = {} /\ started = 0 /\ \A w \in Workers : job[w] = Idle
  BY DEF Init, InitPosts
<1>3. \A w \in Workers : ~Saving(w) /\ \A p \in PostIds : ~Loads(w, p)
  BY <1>2 DEF Saving, Loads, At
<1>4. \A p \in PostIds : post[p].text = 0
  BY <1>1 DEF NewPost, NoPost
<1>5. \A p \in PostIds : PostExists(p) => post[p] = NewPost(a, Publish, 0)
  BY <1>1 DEF PostExists
<1>6. Numbered
  BY <1>2, <1>3, <1>4 DEF Numbered, Used
<1>7. Scheduled
  <2>1. Publish \in Form
    BY PostsAssumption DEF Publish, Form, NoDate
  <2>2. Timely(NewPost(a, Publish, 0))
    BY <2>1, NewPostTimely
  <2> QED BY <1>3, <1>5, <2>2 DEF Scheduled
<1>8. History
  <2>1. ASSUME NEW p \in PostIds, PostExists(p)
        PROVE  Complete(p)
    <3>1. Revisions(p) = {}
      BY <1>2 DEF Revisions
    <3>2. post[p].text = 0 /\ post[p].past = {0}
      BY <1>5, <2>1 DEF NewPost
    <3>3. Cardinality({}) = 0 /\ {r.text : r \in {}} = {} /\ {r.version : r \in {}} = 1..0
      BY FS_EmptySet
    <3> QED BY <3>1, <3>2, <3>3 DEF Complete
  <2> QED BY <1>3, <2>1 DEF History
<1>9. Owned
  BY <1>2 DEF Owned
<1> QED BY <1>6, <1>7, <1>8, <1>9, InitBase DEF PostsInv

LEMMA PostsStep == PostsInv /\ [Next]_vars => PostsInv'
BY StepBase, NumberedStep, OwnedStep, ScheduledStep, HistoryStep, Forever DEF PostsInv

(* A post is public because the last form saved for it said so, or because the
   date of that form has come, however edits, deletions and the hook of
   every request interleave - until one of them overtakes another.           *)
THEOREM PublishedOnTime == Spec => []OnlyDuePublished
<1>1. PostsInv => OnlyDuePublished
  BY DEF PostsInv, Scheduled, Timely, OnlyDuePublished, ExistingPosts
<1> QED BY PostsInit, PostsStep, <1>1, PTL DEF Spec

(* The history of a post is complete and numbered without a gap, until two edits
   overtake each other: posts are created, edited, published and deleted in
   any order, ids are used again.                                            *)
THEOREM NoTextLost == Spec => []RevisionsComplete
<1>1. PostsInv => RevisionsComplete
  BY DEF PostsInv, History, Complete, RevisionsComplete, ExistingPosts
<1> QED BY PostsInit, PostsStep, <1>1, PTL DEF Spec

-----------------------------------------------------------------------------
(* Likes.  Every operation but two keeps the likes of a target and the count
   beside them, or takes all of the likes with the target.                   *)

Closed(t) == ~PostTarget(t) /\ comment[t[2]].deleted
PostStands(p) ==
    /\ PostExists(p)' <=> PostExists(p)
    /\ post'[p].likes = post[p].likes /\ post'[p].author = post[p].author
CommentStands(c) ==
    /\ CommentExists(c)' <=> CommentExists(c)
    /\ comment'[c].likes = comment[c].likes /\ comment'[c].author = comment[c].author
    /\ comment'[c].deleted = comment[c].deleted
Stands(t) ==
    /\ TargetExists(t)' <=> TargetExists(t)
    /\ TargetLikes(t)' = TargetLikes(t) /\ TargetAuthor(t)' = TargetAuthor(t)
    /\ Closed(t)' <=> Closed(t)
Emptied(t) ==
    /\ LikesOf(t)' = {}
    /\ ~TargetExists(t)' \/ Closed(t)' \/ (~TargetExists(t) /\ TargetLikes(t)' = 0)
Tidy ==
    /\ like' \subseteq like
    /\ \A t \in Targets : (LikesOf(t)' = LikesOf(t) /\ Stands(t)) \/ Emptied(t)

(* What holds of every like and of a request that takes one back.          *)
Hung == \A t \in Targets : ~TargetExists(t) => LikesOf(t) = {}
Foreign == \A l \in like : l.to # l.by
Taking ==
    \A w \in Workers : At(w, "like", "commit") =>
        LET j == job[w] IN
            /\ \A g, h \in j.more.given : g = h
            /\ \A g \in j.more.given : g.by = j.by /\ g.target = j.more.target /\ g.to # g.by
LikesInv == Hung /\ Foreign /\ Taking

LEMMA OnPost ==
    ASSUME NEW p \in PostIds
    PROVE  LET t == <<"post", p>> IN
             /\ t \in Targets /\ PostTarget(t) /\ t[2] = p
             /\ TargetExists(t) = PostExists(p) /\ TargetLikes(t) = post[p].likes
             /\ TargetAuthor(t) = post[p].author /\ TargetPost(t) = p /\ ~Closed(t)
             /\ TargetExists(t)' = PostExists(p)' /\ TargetLikes(t)' = post'[p].likes
             /\ TargetAuthor(t)' = post'[p].author /\ ~Closed(t)'
<1>1. <<"post", p>> \in Targets /\ <<"post", p>>[1] = "post" /\ <<"post", p>>[2] = p
  BY DEF Targets
<1> QED BY <1>1, Zenon DEF PostTarget, TargetExists, TargetLikes, TargetAuthor, TargetPost, Closed, PostExists

LEMMA OnComment ==
    ASSUME NEW c \in CommentIds
    PROVE  LET t == <<"comment", c>> IN
             /\ t \in Targets /\ ~PostTarget(t) /\ t[2] = c
             /\ TargetExists(t) = CommentExists(c) /\ TargetLikes(t) = comment[c].likes
             /\ TargetAuthor(t) = comment[c].author /\ TargetPost(t) = comment[c].post
             /\ (Closed(t) <=> comment[c].deleted)
             /\ TargetExists(t)' = CommentExists(c)' /\ TargetLikes(t)' = comment'[c].likes
             /\ TargetAuthor(t)' = comment'[c].author /\ (Closed(t)' <=> comment'[c].deleted)
<1>1. <<"comment", c>> \in Targets /\ <<"comment", c>>[1] # "post" /\ <<"comment", c>>[2] = c
  BY DEF Targets
<1>2. ~PostTarget(<<"comment", c>>)
  BY <1>1 DEF PostTarget
<1>3. /\ Closed(<<"comment", c>>) <=> comment[c].deleted
      /\ Closed(<<"comment", c>>)' <=> comment'[c].deleted
  BY <1>1, <1>2, Zenon DEF Closed, PostTarget
<1> DEFINE t == <<"comment", c>>
<1>4. /\ TargetExists(t) = CommentExists(c) /\ TargetLikes(t) = comment[c].likes
      /\ TargetAuthor(t) = comment[c].author /\ TargetPost(t) = comment[c].post
  BY <1>1, <1>2 DEF TargetExists, TargetLikes, TargetAuthor, TargetPost
<1>5. /\ TargetExists(t)' = CommentExists(c)' /\ TargetLikes(t)' = comment'[c].likes
      /\ TargetAuthor(t)' = comment'[c].author
  BY <1>1, <1>2 DEF TargetExists, TargetLikes, TargetAuthor, CommentExists, PostTarget
<1> QED BY <1>1, <1>2, <1>3, <1>4, <1>5

LEMMA Target ==
    ASSUME NEW t \in Targets
    PROVE  (\E p \in PostIds : t = <<"post", p>>) \/ (\E c \in CommentIds : t = <<"comment", c>>)
BY DEF Targets

\* A target of which a step changes neither row nor likes
LEMMA Standing ==
    ASSUME NEW t \in Targets,
           \A p \in PostIds : t = <<"post", p>> => PostStands(p),
           \A c \in CommentIds : t = <<"comment", c>> => CommentStands(c)
    PROVE  Stands(t)
<1>1. ASSUME NEW p \in PostIds, t = <<"post", p>>
      PROVE  Stands(t)
  <2>1. PostStands(p)
    BY <1>1
  <2> QED BY <1>1, <2>1, OnPost DEF PostStands, Stands
<1>2. ASSUME NEW c \in CommentIds, t = <<"comment", c>>
      PROVE  Stands(t)
  <2>1. CommentStands(c)
    BY <1>2
  <2> QED BY <1>2, <2>1, OnComment DEF CommentStands, Stands
<1> QED BY <1>1, <1>2, Target

\* Steps that leave the likes alone: a row may come that was not there.
LEMMA QuietTidy ==
    ASSUME Hung, like' = like,
           \A p \in PostIds : PostStands(p) \/ (~PostExists(p) /\ post'[p].likes = 0),
           \A c \in CommentIds : CommentStands(c) \/ (~CommentExists(c) /\ comment'[c].likes = 0)
    PROVE  Tidy
<1>1. \A t \in Targets : LikesOf(t)' = LikesOf(t)
  BY DEF LikesOf
<1>2. ASSUME NEW t \in Targets
      PROVE  Stands(t) \/ Emptied(t)
  <2>1. ASSUME NEW p \in PostIds, t = <<"post", p>>, ~PostExists(p), post'[p].likes = 0
        PROVE  Emptied(t)
    <3>1. ~TargetExists(t) /\ TargetLikes(t)' = 0
      BY <2>1, OnPost
    <3> QED BY <1>1, <3>1 DEF Hung, Emptied
  <2>2. ASSUME NEW c \in CommentIds, t = <<"comment", c>>, ~CommentExists(c), comment'[c].likes = 0
        PROVE  Emptied(t)
    <3>1. ~TargetExists(t) /\ TargetLikes(t)' = 0
      BY <2>2, OnComment
    <3> QED BY <1>1, <3>1 DEF Hung, Emptied
  <2> QED BY <2>1, <2>2, Standing
<1> QED BY <1>1, <1>2 DEF Tidy

LEMMA SameTidy ==
    ASSUME Hung, UNCHANGED <<like, post, comment>>
    PROVE  Tidy
<1>1. /\ \A p \in PostIds : PostStands(p)
      /\ \A c \in CommentIds : CommentStands(c)
  BY DEF PostStands, CommentStands, PostExists, CommentExists
<1> QED BY <1>1, QuietTidy

LEMMA PostingTidy ==
    ASSUME Base, Hung, NEW w \in Workers,
           (CommitCreate(w) \/ CommitEdit(w) \/ CommitHook(w)) /\ UNCHANGED threadVars
    PROVE  Tidy
<1>1. UNCHANGED <<like, comment>> /\ \A c \in CommentIds : CommentStands(c)
  BY DEF threadVars, CommentStands, CommentExists
<1>2. \A p \in PostIds : post'[p] = post[p] => PostStands(p)
  BY DEF PostStands, PostExists
<1>3. CASE CommitCreate(w)
  <2> DEFINE new == NextId(ExistingPosts)
  <2>1. \/ UNCHANGED post
        \/ /\ ~PostExists(new) /\ post'[new] = NewPost(job[w].by, job[w].more.form, job[w].number)
           /\ \A p \in PostIds \ {new} : post'[p] = post[p]
    BY <1>3, CreatedPost DEF postVars
  <2> HIDE DEF new
  <2> QED BY <1>1, <1>2, <2>1, QuietTidy DEF NewPost
<1>4. CASE CommitEdit(w)
  <2>1. PICK p \in PostIds :
           \/ UNCHANGED post
           \/ /\ PostExists(p) /\ post'[p] \in PostRow
              /\ post'[p].author = post[p].author /\ post'[p].likes = post[p].likes
              /\ \A q \in PostIds \ {p} : post'[q] = post[q]
    BY <1>4, EditedPost DEF postVars
  <2>2. post'[p] \in PostRow => PostExists(p)'
    BY PostRowIsRow DEF PostExists
  <2> QED BY <1>1, <1>2, <2>1, <2>2, QuietTidy DEF PostStands
<1>5. CASE CommitHook(w)
  <2> DEFINE due == DOMAIN job[w].more
  <2>1. \/ UNCHANGED post
        \/ /\ \A p \in due : /\ PostExists(p) /\ post'[p] \in PostRow
                             /\ post'[p].author = post[p].author /\ post'[p].likes = post[p].likes
           /\ \A p \in PostIds \ due : post'[p] = post[p]
    BY <1>5, HookedPosts
  <2> HIDE DEF due
  <2>2. \A p \in PostIds : post'[p] \in PostRow => PostExists(p)'
    BY PostRowIsRow DEF PostExists
  <2> QED BY <1>1, <1>2, <2>1, <2>2, QuietTidy DEF PostStands
<1> QED BY <1>3, <1>4, <1>5

LEMMA InsertTidy ==
    ASSUME Base, Hung, NEW w \in Workers, Insert(w)
    PROVE  Tidy
<1> DEFINE new == NextId(ExistingComments)
<1>1. UNCHANGED <<like, post>> /\ \A p \in PostIds : PostStands(p)
  BY DEF Insert, postVars, PostStands, PostExists
<1>2. /\ ~CommentExists(new) /\ comment'[new].likes = 0
      /\ \A c \in CommentIds \ {new} : comment'[c] = comment[c]
  BY InsertedComment
<1> HIDE DEF new
<1>3. \A c \in CommentIds \ {new} : CommentStands(c)
  BY <1>2 DEF CommentStands, CommentExists
<1> QED BY <1>1, <1>2, <1>3, QuietTidy

LEMMA EditCommentTidy ==
    ASSUME Base, Hung, NEW w \in Workers, CommitEditComment(w)
    PROVE  Tidy
<1> DEFINE d == job[w].more.comment
           row == [comment[d] EXCEPT !.text = "edited"]
<1>1. UNCHANGED <<like, post>>
  BY DEF CommitEditComment, postVars
<1>2. CASE UNCHANGED comment
  BY <1>1, <1>2, SameTidy
<1>3. CASE CommentExists(d) /\ comment' = [comment EXCEPT ![d].text = "edited"]
  <2>1. d \in CommentIds
    <3>1. job[w] \in EditCommentJobs
      BY JobShape DEF CommitEditComment, Base, JobsOK
    <3> QED BY <3>1 DEF EditCommentJobs, Request
  <2>2. comment'[d] = row /\ \A c \in CommentIds \ {d} : comment'[c] = comment[c]
    BY <1>3, <2>1 DEF Base, CommentsOK
  <2>3. comment[d] \in CommentRow
    BY <1>3, <2>1, CommentRows DEF Base
  <2>4. \A p \in PostIds : PostStands(p)
    BY <1>1 DEF PostStands, PostExists
  <2> HIDE DEF d
  <2>5. /\ row.likes = comment[d].likes /\ row.author = comment[d].author
        /\ row.deleted = comment[d].deleted /\ row.post = comment[d].post
    BY <2>3 DEF CommentRow
  <2>6. row # NoComment
    BY <2>3, <2>5 DEF CommentRow, NoComment, PostIds, NoId
  <2> HIDE DEF row
  <2>7. \A c \in CommentIds : CommentStands(c)
    BY <1>3, <2>2, <2>5, <2>6 DEF CommentStands, CommentExists
  <2> QED BY <1>1, <2>4, <2>7, QuietTidy
<1> QED BY <1>2, <1>3 DEF CommitEditComment

LEMMA DeleteCommentTidy ==
    ASSUME Base, Hung, NEW w \in Workers, CommitDeleteComment(w)
    PROVE  Tidy
<1>1. post' = post /\ \A p \in PostIds : PostStands(p)
  BY DEF CommitDeleteComment, postVars, PostStands, PostExists
<1>2. PICK c \in CommentIds :
         \/ UNCHANGED <<comment, like>>
         \/ /\ comment'[c] = [comment[c] EXCEPT !.deleted = TRUE, !.text = "erased"] /\ CommentExists(c)
            /\ \A d \in CommentIds \ {c} : comment'[d] = comment[d]
            /\ like' = like \ LikesOf(<<"comment", c>>)
         \/ /\ comment'[c] = NoComment
            /\ \A d \in CommentIds \ {c} : comment'[d] = comment[d]
            /\ like' = like \ LikesOf(<<"comment", c>>)
  BY DeletedComment, Zenon
<1> DEFINE x == <<"comment", c>>
<1>3. CASE UNCHANGED <<comment, like>>
  BY <1>1, <1>3, SameTidy
<1>4. CASE /\ comment'[c].deleted \/ comment'[c] = NoComment
           /\ \A d \in CommentIds \ {c} : comment'[d] = comment[d]
           /\ like' = like \ LikesOf(x)
  <2>1. like' \subseteq like
    BY <1>4
  <2>2. \A t \in Targets : LikesOf(t)' = IF t = x THEN {} ELSE LikesOf(t)
    <3> HIDE DEF x
    <3> QED BY <1>4 DEF LikesOf
  <2>3. Emptied(x)
    <3>1. x \in Targets /\ (TargetExists(x)' <=> CommentExists(c)') /\ (Closed(x)' <=> comment'[c].deleted)
      BY <1>2, OnComment
    <3>2. CommentExists(c)' => comment'[c].deleted
      BY <1>4 DEF CommentExists
    <3> QED BY <2>2, <3>1, <3>2 DEF Emptied
  <2>4. ASSUME NEW t \in Targets, t # x
        PROVE  Stands(t)
    <3>1. ASSUME NEW d \in CommentIds, t = <<"comment", d>>
          PROVE  CommentStands(d)
      BY <1>4, <2>4, <3>1 DEF CommentStands, CommentExists
    <3> QED BY <1>1, <3>1, Standing
  <2> QED BY <2>1, <2>2, <2>3, <2>4 DEF Tidy
<1>5. CommentExists(c) => [comment[c] EXCEPT !.deleted = TRUE, !.text = "erased"].deleted
  <2>1. CommentExists(c) => comment[c] \in CommentRow
    BY <1>2, CommentRows DEF Base
  <2> QED BY <2>1 DEF CommentRow
<1> HIDE DEF x
<1> QED BY <1>2, <1>3, <1>4, <1>5 DEF x

LEMMA DeletePostTidy ==
    ASSUME Base, Hung, NEW w \in Workers, CommitDeletePost(w)
    PROVE  Tidy
<1>1. PICK p \in PostIds, comments \in SUBSET CommentIds :
         \/ UNCHANGED <<post, comment, like>>
         \/ /\ post'[p] = NoPost /\ \A q \in PostIds \ {p} : post'[q] = post[q]
            /\ \A c \in comments : comment'[c] = NoComment
            /\ \A c \in CommentIds \ comments :
                  comment'[c] = [comment[c] EXCEPT !.stray = @ \/ comment[c].parent \in comments]
            /\ like' = like \ LikesUnder(p, comments)
  BY DeletedPost, Zenon
<1> DEFINE T == {<<"post", p>>} \cup {<<"comment", c>> : c \in comments}
<1>2. CASE UNCHANGED <<post, comment, like>>
  BY <1>2, SameTidy
<1>3. CASE /\ post'[p] = NoPost /\ \A q \in PostIds \ {p} : post'[q] = post[q]
           /\ \A c \in comments : comment'[c] = NoComment
           /\ \A c \in CommentIds \ comments :
                 comment'[c] = [comment[c] EXCEPT !.stray = @ \/ comment[c].parent \in comments]
           /\ like' = like \ LikesUnder(p, comments)
  <2>1. like' = like \ {l \in like : l.target \in T}
    <3>1. LikesUnder(p, comments) = {l \in like : l.target \in T}
      BY DEF LikesUnder, LikesOf
    <3> QED BY <1>3, <3>1
  <2>2. \A t \in Targets : LikesOf(t)' = IF t \in T THEN {} ELSE LikesOf(t)
    <3> HIDE DEF T
    <3> QED BY <2>1 DEF LikesOf
  <2>3. ASSUME NEW t \in T
        PROVE  Emptied(t) /\ t \in Targets
    <3>1. t \in Targets /\ ~TargetExists(t)'
      <4>1. CASE t = <<"post", p>>
        BY <1>1, <1>3, <4>1, OnPost DEF PostExists
      <4>2. ASSUME NEW c \in comments, t = <<"comment", c>>
            PROVE  t \in Targets /\ ~TargetExists(t)'
        BY <1>1, <1>3, <4>2, OnComment DEF CommentExists
      <4> QED BY <4>1, <4>2
    <3> QED BY <2>2, <3>1 DEF Emptied
  <2>4. ASSUME NEW t \in Targets, t \notin T
        PROVE  Stands(t)
    <3>1. ASSUME NEW q \in PostIds, t = <<"post", q>>
          PROVE  PostStands(q)
      <4>1. q # p
        BY <2>4, <3>1
      <4> QED BY <1>3, <4>1 DEF PostStands, PostExists
    <3>2. ASSUME NEW c \in CommentIds, t = <<"comment", c>>
          PROVE  CommentStands(c)
      <4>1. c \notin comments
        BY <2>4, <3>2
      <4> DEFINE new == [comment[c] EXCEPT !.stray = @ \/ comment[c].parent \in comments]
      <4>2. /\ new # NoComment <=> CommentExists(c)
            /\ new.author = comment[c].author /\ new.deleted = comment[c].deleted
            /\ new.likes = comment[c].likes
        BY <1>1, SparedComment
      <4>3. comment'[c] = new
        BY <1>3, <4>1
      <4> HIDE DEF new
      <4> QED BY <4>2, <4>3 DEF CommentStands, CommentExists
    <3> QED BY <3>1, <3>2, Standing
  <2> QED BY <2>1, <2>2, <2>3, <2>4 DEF Tidy
<1> QED BY <1>1, <1>2, <1>3

LEMMA TidyStep ==
    ASSUME Base, Hung, [Next]_vars
    PROVE  Tidy \/ \E w \in Workers : CommitDeleteUser(w) \/ GiveLike(w) \/ TakeLike(w)
<1>1. CASE UNCHANGED Tables
  BY <1>1, SameTidy DEF Tables, postVars, threadVars
<1>2. CASE Tick /\ UNCHANGED threadVars
  BY <1>2, SameTidy DEF Tick, postVars, threadVars
<1>3. CASE \E u \in Users, S \in SUBSET notice : MarkRead(u, S)
  BY <1>3, SameTidy DEF MarkRead, postVars
<1>4. ASSUME NEW w \in Workers, CommitReward(w) \/ RenameBadges(w) \/ CreateBadges(w)
      PROVE  Tidy
  <2>1. UNCHANGED <<postVars, comment, like>>
    BY <1>4, Zenon DEF CommitReward, RenameBadges, CreateBadges
  <2> QED BY <2>1, SameTidy DEF postVars
<1> QED BY <1>1, <1>2, <1>3, <1>4, Steps, StutterTables, ReadsTables, PostingTidy, InsertTidy, EditCommentTidy,
   DeleteCommentTidy, DeletePostTidy DEF Commits

\* The deletion of an account, told by targets
LEMMA UserGone ==
    ASSUME Base, NEW w \in Workers, CommitDeleteUser(w)
    PROVE  \E u \in Users, gone \in SUBSET like :
             /\ IsFiniteSet(gone) /\ gone = {l \in like : l.by = u}
             /\ like' = like \ gone /\ erased' = erased + Cardinality(gone) /\ overtaken' = overtaken
             /\ notice' = {n \in notice : n.to # u} /\ user' = [Kept(user, gone) EXCEPT ![u] = Gone]
             /\ \A t \in Targets :
                  /\ TargetExists(t)' <=> TargetExists(t)
                  /\ TargetExists(t) =>
                       /\ Closed(t)' <=> Closed(t)
                       /\ TargetLikes(t)' = Max({0, Uncounted(TargetLikes(t), t, gone)})
                       /\ TargetAuthor(t)' = TargetAuthor(t) \/ TargetAuthor(t) = u
<1>1. PICK u \in Users, heir \in Users, gone \in SUBSET like :
             /\ gone = {l \in like : l.by = u} /\ IsFiniteSet(gone)
             /\ comment' = [c \in CommentIds |-> IF ~CommentExists(c) THEN NoComment
                                                 ELSE CommentWithout(c, u, gone)]
             /\ post' = [p \in PostIds |-> IF ~PostExists(p) THEN NoPost
                                           ELSE PostWithout(p, u, heir, gone)]
             /\ like' = like \ gone /\ erased' = erased + Cardinality(gone)
             /\ notice' = {n \in notice : n.to # u}
             /\ user' = [Kept(user, gone) EXCEPT ![u] = Gone]
             /\ UNCHANGED <<revision, tag, siteVars, started, overtaken, badge>>
  BY DeletedUser
<1>2. ASSUME NEW p \in PostIds
      PROVE  /\ PostExists(p)' <=> PostExists(p)
             /\ PostExists(p) =>
                  /\ post'[p].likes = Max({0, Uncounted(post[p].likes, <<"post", p>>, gone)})
                  /\ post'[p].author = post[p].author \/ post[p].author = u
  <2>1. CASE ~PostExists(p)
    BY <1>1, <2>1 DEF PostExists
  <2>2. CASE PostExists(p)
    <3>1. post[p] \in PostRow /\ post'[p] = PostWithout(p, u, heir, gone) /\ IsFiniteSet(gone)
      BY <1>1, <2>2, PostRows DEF Base
    <3>2. /\ post'[p] \in PostRow /\ post'[p].author = (IF post[p].author = u THEN heir ELSE post[p].author)
          /\ post'[p].likes = Max({0, Uncounted(post[p].likes, <<"post", p>>, gone)})
      BY <3>1, PostWithoutOK
    <3>3. PostExists(p)'
      BY <3>2, PostRowIsRow DEF PostExists
    <3> QED BY <2>2, <3>2, <3>3
  <2> QED BY <2>1, <2>2
<1>3. ASSUME NEW c \in CommentIds
      PROVE  /\ CommentExists(c)' <=> CommentExists(c)
             /\ CommentExists(c) =>
                  /\ comment'[c].likes = Max({0, Uncounted(comment[c].likes, <<"comment", c>>, gone)})
                  /\ comment'[c].author = comment[c].author \/ comment[c].author = u
                  /\ comment'[c].deleted = comment[c].deleted
  <2>1. CASE ~CommentExists(c)
    BY <1>1, <2>1 DEF CommentExists
  <2>2. CASE CommentExists(c)
    <3>1. comment[c] \in CommentRow /\ comment'[c] = CommentWithout(c, u, gone) /\ IsFiniteSet(gone)
      BY <1>1, <2>2, CommentRows DEF Base
    <3>2. /\ comment'[c] \in CommentRow /\ comment'[c].deleted = comment[c].deleted
          /\ comment'[c].author = (IF comment[c].author = u THEN NoUser ELSE comment[c].author)
          /\ comment'[c].likes = Max({0, Uncounted(comment[c].likes, <<"comment", c>>, gone)})
      BY <3>1, CommentWithoutOK
    <3>3. CommentExists(c)'
      BY <3>2 DEF CommentExists, CommentRow, NoComment, PostIds, NoId
    <3> QED BY <2>2, <3>2, <3>3
  <2> QED BY <2>1, <2>2
<1>4. ASSUME NEW t \in Targets
      PROVE  /\ TargetExists(t)' <=> TargetExists(t)
             /\ TargetExists(t) =>
                  /\ Closed(t)' <=> Closed(t)
                  /\ TargetLikes(t)' = Max({0, Uncounted(TargetLikes(t), t, gone)})
                  /\ TargetAuthor(t)' = TargetAuthor(t) \/ TargetAuthor(t) = u
  <2>1. ASSUME NEW p \in PostIds, t = <<"post", p>>
        PROVE  /\ TargetExists(t)' <=> TargetExists(t)
               /\ TargetExists(t) =>
                    /\ Closed(t)' <=> Closed(t)
                    /\ TargetLikes(t)' = Max({0, Uncounted(TargetLikes(t), t, gone)})
                    /\ TargetAuthor(t)' = TargetAuthor(t) \/ TargetAuthor(t) = u
    BY <1>2, <2>1, OnPost
  <2>2. ASSUME NEW c \in CommentIds, t = <<"comment", c>>
        PROVE  /\ TargetExists(t)' <=> TargetExists(t)
               /\ TargetExists(t) =>
                    /\ Closed(t)' <=> Closed(t)
                    /\ TargetLikes(t)' = Max({0, Uncounted(TargetLikes(t), t, gone)})
                    /\ TargetAuthor(t)' = TargetAuthor(t) \/ TargetAuthor(t) = u
    BY <1>3, <2>2, OnComment
  <2> QED BY <2>1, <2>2, Target
<1> QED BY <1>1, <1>4

\* A target that keeps all but its count
Alike(t) ==
    /\ TargetExists(t)' <=> TargetExists(t)
    /\ Closed(t)' <=> Closed(t)
    /\ TargetAuthor(t)' = TargetAuthor(t)

LEMMA AllAlike ==
    ASSUME NEW w \in Workers, Base, GiveLike(w) \/ TakeLike(w), NEW t \in Targets
    PROVE  Alike(t)
<1>1. PostsAlike /\ CommentsAlike
  BY LikesAlike
<1>2. CASE \E p \in PostIds : t = <<"post", p>>
  <2>1. PICK p \in PostIds : t = <<"post", p>>
    BY <1>2
  <2> QED BY <1>1, <2>1, OnPost DEF PostsAlike, Alike
<1>3. CASE \E c \in CommentIds : t = <<"comment", c>>
  <2>1. PICK c \in CommentIds : t = <<"comment", c>>
    BY <1>3
  <2> QED BY <1>1, <2>1, OnComment DEF CommentsAlike, Alike
<1> QED BY <1>2, <1>3, Target

LEMMA CountSet ==
    ASSUME Base, NEW t \in Targets, TargetExists(t), NEW n \in Nat, SetLikes(t, n), NEW x \in Targets
    PROVE  TargetLikes(x)' = IF x = t THEN n ELSE TargetLikes(x)
<1>1. /\ \A p \in PostIds : post'[p].likes = IF t = <<"post", p>> THEN n ELSE post[p].likes
      /\ \A c \in CommentIds : comment'[c].likes = IF t = <<"comment", c>> THEN n ELSE comment[c].likes
  BY SetLikesOK
<1>2. CASE \E p \in PostIds : x = <<"post", p>>
  BY <1>1, <1>2, OnPost
<1>3. CASE \E c \in CommentIds : x = <<"comment", c>>
  BY <1>1, <1>3, OnComment
<1> QED BY <1>2, <1>3, Target

\* A like that is given: its row, its count, whom it rewards
LEMMA LikeGiven ==
    ASSUME Base, NEW w \in Workers, GiveLike(w), ~ UNCHANGED <<post, comment, like, user, notice, overtaken>>
    PROVE  \E t \in Targets, l \in Like :
             /\ t = job[w].more.target /\ TargetExists(t) /\ l.target = t /\ l.by = job[w].by
             /\ l \notin like /\ l.by \notin Likers(t) /\ l.to # l.by
             /\ Rewarded(job[w]) = IF l.to = NoUser THEN {} ELSE {l.to}
             /\ \A a \in Rewarded(job[w]) : UserExists(a)
             /\ like' = like \cup {l}
             /\ \A x \in Targets : TargetLikes(x)' = IF x = t THEN job[w].more.likes + 1 ELSE TargetLikes(x)
             /\ user' = [u \in Users |-> IF u = l.to THEN Gain(user[u], Worth(t)) ELSE user[u]]
             /\ notice' = notice \cup GivenNotices(job[w])
             /\ ~overtaken' => AsLoaded(job[w]) /\ (l.to # NoUser => TargetAuthor(t) = l.to)
<1> DEFINE j == job[w]
           t == j.more.target
           l == GivenLike(j)
<1>1. At(w, "like", "commit")
  BY DEF GiveLike
<1>2. /\ j.by \in Users /\ t \in Targets /\ j.more.likes \in Nat
      /\ Rewarded(j) \in SUBSET Users /\ \A a \in Rewarded(j) : a = j.more.author /\ a # j.by
  BY <1>1, LikeJob
<1>3. /\ l \in Like /\ (\A k \in like : k.id < l.id) /\ l.by = j.by /\ l.target = t
      /\ l.to = IF Rewarded(j) = {} THEN NoUser ELSE j.more.author
  BY <1>1, GivenOK
<1>4. /\ j.by \notin Likers(t) /\ TargetExists(t) /\ \A a \in Rewarded(j) : UserExists(a)
      /\ SetLikes(t, j.more.likes + 1)
      /\ like' = like \cup {l}
      /\ user' = [u \in Users |-> IF u \in Rewarded(j) THEN Gain(user[u], Worth(t)) ELSE user[u]]
      /\ notice' = notice \cup GivenNotices(j)
      /\ overtaken' = (overtaken \/ ~AsLoaded(j))
  BY DEF GiveLike, GivenLike, GivenNotices
<1>5. PICK x \in Targets, k \in Like : x = t /\ k = l
  BY <1>2, <1>3
<1> HIDE DEF l
<1>6. /\ k \notin like /\ k.to # k.by
      /\ Rewarded(j) = IF k.to = NoUser THEN {} ELSE {k.to}
  <2>1. l \notin like
    BY <1>3 DEF Like
  <2> HIDE DEF j
  <2> QED BY <1>2, <1>3, <1>5, <2>1, PostsAssumption
<1>7. \A y \in Targets : TargetLikes(y)' = IF y = x THEN j.more.likes + 1 ELSE TargetLikes(y)
  <2>1. PICK n \in Nat : n = j.more.likes + 1
    BY <1>2
  <2>2. SetLikes(x, n) /\ TargetExists(x)
    BY <1>4, <1>5, <2>1 DEF SetLikes
  <2>3. \A y \in Targets : TargetLikes(y)' = IF y = x THEN n ELSE TargetLikes(y)
    BY <2>2, CountSet
  <2> QED BY <2>1, <2>3
<1>8. \A u \in Users : u \in Rewarded(j) <=> u = k.to
  BY <1>6, PostsAssumption
<1>9. user' = [u \in Users |-> IF u = k.to THEN Gain(user[u], Worth(x)) ELSE user[u]]
  <2> HIDE DEF t, j
  <2> QED BY <1>4, <1>5, <1>8
<1>10. ~overtaken' => AsLoaded(j) /\ (k.to # NoUser => TargetAuthor(x) = k.to)
  <2>1. AsLoaded(j) => TargetAuthor(x) = j.more.author
    BY <1>5 DEF AsLoaded
  <2>2. k.to # NoUser => k.to = j.more.author
    BY <1>3, <1>5
  <2> QED BY <1>4, <2>1, <2>2
<1>11. /\ x = j.more.target /\ TargetExists(x) /\ k.target = x /\ k.by = j.by /\ k.by \notin Likers(x)
       /\ like' = like \cup {k}
  BY <1>3, <1>4, <1>5
<1> HIDE DEF j, t
<1> QED BY <1>4, <1>6, <1>7, <1>9, <1>10, <1>11 DEF j

\* A like that is taken back
LEMMA LikeTaken ==
    ASSUME Base, Taking, NEW w \in Workers, TakeLike(w), ~ UNCHANGED <<post, comment, like, user, notice, overtaken>>
    PROVE  \E t \in Targets, g \in Like :
             /\ t = job[w].more.target /\ job[w].more.given = {g}
             /\ g.target = t /\ g.by = job[w].by /\ g.to # g.by
             /\ like' \subseteq like
             /\ \A x \in Targets \ {t} : TargetLikes(x)' = TargetLikes(x)
             /\ \/ TargetLikes(t)' = TargetLikes(t) /\ job[w].more.likes = 0
                \/ TargetLikes(t)' = job[w].more.likes - 1 /\ job[w].more.likes # 0
             /\ \/ (\A a \in Rewarded(job[w]) : ~UserExists(a)) /\ UNCHANGED <<user, notice>>
                \/ \E a \in Users :
                      /\ Rewarded(job[w]) = {a} /\ a = job[w].more.author /\ UserExists(a)
                      /\ user' = [user EXCEPT ![a].xp = Max({0, @ - Worth(t)})]
                      /\ notice' = notice \ Latest(UnreadLikes(a, t))
             /\ ~overtaken' =>
                  ~overtaken /\ TargetLikes(t) = job[w].more.likes /\ g \in like /\ like' = like \ {g}
<1> DEFINE j == job[w]
<1>1. At(w, "like", "commit") /\ j.more.given # {}
  BY DEF TakeLike
<1>2. PICK t \in Targets, g \in Like :
         /\ t = j.more.target /\ j.more.given = {g} /\ g.target = t /\ g.by = j.by /\ g.to # g.by
  <2>1. PICK g \in j.more.given : TRUE
    BY <1>1
  <2>2. /\ \A h \in j.more.given : h = g
        /\ g.by = j.by /\ g.target = j.more.target /\ g.to # g.by
    BY <1>1, <2>1 DEF Taking
  <2>3. g \in Like /\ j.more.target \in Targets
    BY <1>1, <2>1, LikeJob
  <2> HIDE DEF j
  <2> QED BY <2>1, <2>2, <2>3
<1>3. /\ \/ UNCHANGED <<post, comment>> /\ j.more.likes = 0
         \/ TargetExists(t) /\ j.more.likes # 0 /\ SetLikes(t, j.more.likes - 1)
      /\ like' = {l \in like : \A k \in j.more.given : l.id # k.id}
      /\ \/ (\A x \in Rewarded(j) : ~UserExists(x)) /\ UNCHANGED <<user, notice>>
         \/ /\ Rewarded(j) = {j.more.author} /\ j.more.author \in Users /\ UserExists(j.more.author)
            /\ user' = [user EXCEPT ![j.more.author].xp = Max({0, @ - Worth(t)})]
            /\ notice' = notice \ Latest(UnreadLikes(j.more.author, t))
      /\ overtaken' = (overtaken \/ TargetLikes(t) # j.more.likes \/ ~(j.more.given \subseteq like))
  BY <1>2, TakenLike
<1>4. j.more.likes \in Nat
  BY <1>1, LikeJob
<1>5. /\ \A x \in Targets \ {t} : TargetLikes(x)' = TargetLikes(x)
      /\ \/ TargetLikes(t)' = TargetLikes(t) /\ j.more.likes = 0
         \/ TargetLikes(t)' = j.more.likes - 1 /\ j.more.likes # 0
  <2>1. CASE UNCHANGED <<post, comment>> /\ j.more.likes = 0
    BY <2>1 DEF TargetLikes, PostTarget
  <2>2. CASE TargetExists(t) /\ j.more.likes # 0 /\ SetLikes(t, j.more.likes - 1)
    <3>1. PICK n \in Nat : n = j.more.likes - 1
      BY <1>4, <2>2
    <3>2. \A x \in Targets : TargetLikes(x)' = IF x = t THEN n ELSE TargetLikes(x)
      BY <2>2, <3>1, CountSet DEF SetLikes
    <3> QED BY <2>2, <3>1, <3>2
  <2> QED BY <1>3, <2>1, <2>2
<1>6. like' = {l \in like : l.id # g.id}
  BY <1>2, <1>3
<1>7. g \in like => like' = like \ {g}
  BY <1>6 DEF Base, LikesOK
<1>8. \/ (\A a \in Rewarded(j) : ~UserExists(a)) /\ UNCHANGED <<user, notice>>
      \/ \E a \in Users :
            /\ Rewarded(j) = {a} /\ a = j.more.author /\ UserExists(a)
            /\ user' = [user EXCEPT ![a].xp = Max({0, @ - Worth(t)})]
            /\ notice' = notice \ Latest(UnreadLikes(a, t))
  BY <1>3, Zenon
<1>9. ~overtaken' => ~overtaken /\ TargetLikes(t) = j.more.likes /\ g \in like
  BY <1>2, <1>3
<1> QED BY <1>2, <1>5, <1>6, <1>7, <1>8, <1>9

\* Only a beginning like loads the likes of a target.
LEMMA LikeLoads ==
    ASSUME Base, [Next]_vars, NEW w \in Workers, Liking(w)'
    PROVE  job'[w] = job[w] \/ \E u \in Users, t \in Targets : BeginLike(w, u, t)
<1>1. CASE JobsGo
  BY <1>1 DEF JobsGo, ReadsLikes
<1>2. ASSUME NEW v \in Workers, ReadsPosts(v)
      PROVE  job'[w] = job[w]
  <2>1. \A x \in Workers \ {v} : job'[x] = job[x]
    BY <1>2, PostsRead
  <2>2. PICK op \in {"create", "edit", "hook"} : \E u, p, more : Begin(v, op, "commit", u, p, more)
    BY <1>2 DEF ReadsPosts, BeginCreate, BeginEdit, BeginHook
  <2>3. PICK u, p, more : job' = [job EXCEPT ![v] = Job(op, "commit", u, p, more)]
    BY <2>2 DEF Begin
  <2>4. job'[v].op # "like"
    BY <2>3 DEF Job, Base, JobsOK
  <2> QED BY <2>1, <2>4 DEF Liking, At
<1> QED BY <1>1, <1>2, JobEffects

LEMMA LikeBegun ==
    ASSUME Base, NEW w \in Workers, NEW u \in Users, NEW t \in Targets, BeginLike(w, u, t)
    PROVE  /\ job'[w].by = u /\ job'[w].more.target = t /\ job'[w].more.author = TargetAuthor(t)
           /\ job'[w].more.given = {l \in LikesOf(t) : l.by = u}
           /\ UNCHANGED <<like, user, post, comment>>
<1> DEFINE more == [target |-> t, likes |-> TargetLikes(t), author |-> TargetAuthor(t),
                    given |-> {l \in LikesOf(t) : l.by = u}]
<1>1. /\ more.target = t /\ more.author = TargetAuthor(t) /\ more.given = {l \in LikesOf(t) : l.by = u}
  OBVIOUS
<1>2. Begin(w, "like", "commit", u, TargetPost(t), more) /\ UNCHANGED <<like, user, post, comment>>
  BY DEF BeginLike, threadVars, postVars
<1> HIDE DEF more
<1>3. job'[w] = Job("like", "commit", u, TargetPost(t), more)
  BY <1>2 DEF Begin, Base, JobsOK
<1> QED BY <1>1, <1>2, <1>3 DEF Job

LEMMA TakingStep ==
    ASSUME Base, Foreign, Taking, [Next]_vars
    PROVE  Taking'
<1> SUFFICES ASSUME NEW w \in Workers, Liking(w)'
    PROVE  /\ \A g, h \in job'[w].more.given : g = h
           /\ \A g \in job'[w].more.given :
                 g.by = job'[w].by /\ g.target = job'[w].more.target /\ g.to # g.by
  BY DEF Taking, Liking
<1>1. CASE job'[w] = job[w]
  BY <1>1 DEF Taking, Liking, At
<1>2. ASSUME NEW u \in Users, NEW t \in Targets, BeginLike(w, u, t)
      PROVE  /\ \A g, h \in job'[w].more.given : g = h
             /\ \A g \in job'[w].more.given :
                   g.by = job'[w].by /\ g.target = job'[w].more.target /\ g.to # g.by
  <2>1. /\ job'[w].by = u /\ job'[w].more.target = t
        /\ job'[w].more.given = {l \in LikesOf(t) : l.by = u}
    BY <1>2, LikeBegun
  <2>2. \A g, h \in LikesOf(t) : g.by = h.by => g = h
    BY DEF Base, LikesOK, LikesOf
  <2> QED BY <2>1, <2>2 DEF LikesOf, Foreign
<1> QED BY <1>1, <1>2, LikeLoads

LEMMA LikesInvStep ==
    ASSUME Base, LikesInv, [Next]_vars
    PROVE  LikesInv'
<1>1. ASSUME NEW w \in Workers, CommitDeleteUser(w)
      PROVE  Hung' /\ Foreign'
  <2>1. like' \subseteq like /\ \A t \in Targets : TargetExists(t)' <=> TargetExists(t)
    BY <1>1, UserGone
  <2> QED BY <2>1 DEF LikesInv, Hung, Foreign, LikesOf
<1>2. ASSUME NEW w \in Workers, GiveLike(w) \/ TakeLike(w)
      PROVE  Hung' /\ Foreign'
  <2>1. \A t \in Targets : TargetExists(t)' <=> TargetExists(t)
    BY <1>2, AllAlike DEF Alike
  <2>2. CASE like' \subseteq like
    BY <2>1, <2>2 DEF LikesInv, Hung, Foreign, LikesOf
  <2>3. CASE \E t \in Targets, l \in Like : TargetExists(t) /\ l.target = t /\ l.to # l.by /\ like' = like \cup {l}
    BY <2>1, <2>3 DEF LikesInv, Hung, Foreign, LikesOf
  <2>4. CASE UNCHANGED <<post, comment, like, user, notice, overtaken>>
    BY <2>2, <2>4
  <2>5. CASE GiveLike(w) /\ ~ UNCHANGED <<post, comment, like, user, notice, overtaken>>
    BY <2>3, <2>5, LikeGiven
  <2>6. CASE TakeLike(w) /\ ~ UNCHANGED <<post, comment, like, user, notice, overtaken>>
    BY <2>2, <2>6, LikeTaken DEF LikesInv
  <2> QED BY <1>2, <2>4, <2>5, <2>6
<1>3. Hung' /\ Foreign'
  <2>1. CASE Tidy
    BY <2>1 DEF LikesInv, Tidy, Emptied, Stands, Hung, Foreign
  <2> QED BY <1>1, <1>2, <2>1, TidyStep DEF LikesInv
<1> QED BY <1>3, TakingStep DEF LikesInv

\* The count beside the likes, until two requests had loaded the same one
Counted(t) == TargetExists(t) /\ ~Closed(t) => TargetLikes(t) = Cardinality(LikesOf(t))
CountsRight == \A t \in Targets : Counted(t)

LEMMA LikesFinite ==
    ASSUME Base, NEW t
    PROVE  IsFiniteSet(LikesOf(t)) /\ Cardinality(LikesOf(t)) \in Nat
<1>1. IsFiniteSet(LikesOf(t))
  BY FS_Subset DEF Base, LikesOK, LikesOf
<1> QED BY <1>1, FS_CardinalityType

LEMMA UserGoneCounts ==
    ASSUME Base, CountsRight, NEW w \in Workers, CommitDeleteUser(w)
    PROVE  CountsRight'
<1>1. PICK u \in Users, gone \in SUBSET like :
         /\ IsFiniteSet(gone) /\ like' = like \ gone
         /\ \A t \in Targets :
              /\ TargetExists(t)' <=> TargetExists(t)
              /\ TargetExists(t) =>
                   /\ Closed(t)' <=> Closed(t)
                   /\ TargetLikes(t)' = Max({0, Uncounted(TargetLikes(t), t, gone)})
  BY UserGone
<1> SUFFICES ASSUME NEW t \in Targets, TargetExists(t)', ~Closed(t)'
    PROVE  TargetLikes(t)' = Cardinality(LikesOf(t)')
  BY DEF CountsRight, Counted
<1> DEFINE lost == {l \in gone : l.target = t}
           n == Cardinality(LikesOf(t))
<1>2. TargetLikes(t) = n /\ TargetLikes(t)' = Max({0, Uncounted(TargetLikes(t), t, gone)})
  BY <1>1 DEF CountsRight, Counted
<1>3. IsFiniteSet(LikesOf(t)) /\ n \in Nat
  BY LikesFinite
<1>4. lost \in SUBSET LikesOf(t) /\ LikesOf(t)' = LikesOf(t) \ lost /\ LikesOf(t) \cap lost = lost
  BY <1>1 DEF LikesOf
<1>5. Cardinality(lost) <= n /\ Cardinality(LikesOf(t) \ lost) = n - Cardinality(lost)
  <2> HIDE DEF lost
  <2>1. Cardinality(lost) <= n
    BY <1>3, <1>4, FS_Subset
  <2>2. Cardinality(LikesOf(t) \ lost) = n - Cardinality(LikesOf(t) \cap lost)
    BY <1>3, FS_Difference
  <2> QED BY <1>4, <2>1, <2>2
<1>6. Max({0, Uncounted(n, t, gone)}) = IF Cardinality(lost) <= n THEN n - Cardinality(lost) ELSE 0
  BY <1>1, <1>3, UncountedOK
<1> HIDE DEF lost, n
<1> QED BY <1>2, <1>4, <1>5, <1>6

LEMMA CountsStep ==
    ASSUME Base, LikesInv, CountsRight, [Next]_vars, ~overtaken'
    PROVE  CountsRight'
<1>1. CASE Tidy
  <2> SUFFICES ASSUME NEW t \in Targets PROVE Counted(t)'
    BY DEF CountsRight
  <2>1. CASE LikesOf(t)' = LikesOf(t) /\ Stands(t)
    BY <2>1 DEF CountsRight, Counted, Stands
  <2>2. CASE Emptied(t)
    BY <2>2, FS_EmptySet DEF Emptied, Counted
  <2> QED BY <1>1, <2>1, <2>2 DEF Tidy
<1>2. ASSUME NEW w \in Workers, GiveLike(w) \/ TakeLike(w), UNCHANGED <<post, comment, like, user, notice, overtaken>>
      PROVE  CountsRight'
  <2>1. \A t \in Targets : LikesOf(t)' = LikesOf(t) /\ TargetLikes(t)' = TargetLikes(t) /\ Alike(t)
    BY <1>2, AllAlike DEF LikesOf, TargetLikes, PostTarget
  <2> QED BY <2>1 DEF CountsRight, Counted, Alike
<1>3. ASSUME NEW w \in Workers, GiveLike(w), ~ UNCHANGED <<post, comment, like, user, notice, overtaken>>
      PROVE  CountsRight'
  <2>1. PICK t \in Targets, l \in Like :
           /\ t = job[w].more.target /\ l.target = t /\ l \notin like /\ like' = like \cup {l}
           /\ \A x \in Targets : TargetLikes(x)' = IF x = t THEN job[w].more.likes + 1 ELSE TargetLikes(x)
           /\ AsLoaded(job[w]) /\ TargetExists(t)
    BY <1>3, LikeGiven
  <2>2. TargetLikes(t) = job[w].more.likes
    BY <2>1 DEF AsLoaded
  <2>3. \A x \in Targets : Alike(x)
    BY <1>3, AllAlike
  <2>4. /\ LikesOf(t)' = LikesOf(t) \cup {l} /\ l \notin LikesOf(t)
        /\ \A x \in Targets \ {t} : LikesOf(x)' = LikesOf(x)
    BY <2>1 DEF LikesOf
  <2>5. Cardinality(LikesOf(t)') = Cardinality(LikesOf(t)) + 1
    BY <2>4, LikesFinite, FS_AddElement
  <2>6. Counted(t)'
    BY <2>1, <2>2, <2>3, <2>5 DEF CountsRight, Counted, Alike
  <2>7. \A x \in Targets \ {t} : Counted(x)'
    BY <2>1, <2>3, <2>4 DEF CountsRight, Counted, Alike
  <2> QED BY <2>6, <2>7 DEF CountsRight
<1>4. ASSUME NEW w \in Workers, TakeLike(w), ~ UNCHANGED <<post, comment, like, user, notice, overtaken>>
      PROVE  CountsRight'
  <2>1. PICK t \in Targets, g \in Like :
           /\ g.target = t /\ g \in like /\ like' = like \ {g}
           /\ \A x \in Targets \ {t} : TargetLikes(x)' = TargetLikes(x)
           /\ \/ TargetLikes(t)' = TargetLikes(t) /\ TargetLikes(t) = 0
              \/ TargetLikes(t)' = TargetLikes(t) - 1
    BY <1>4, LikeTaken DEF LikesInv
  <2>2. \A x \in Targets : Alike(x)
    BY <1>4, AllAlike
  <2>3. /\ LikesOf(t)' = LikesOf(t) \ {g} /\ g \in LikesOf(t)
        /\ \A x \in Targets \ {t} : LikesOf(x)' = LikesOf(x)
    BY <2>1 DEF LikesOf
  <2>4. /\ Cardinality(LikesOf(t)') = Cardinality(LikesOf(t)) - 1
        /\ Cardinality(LikesOf(t)) # 0
    <3>1. Cardinality(LikesOf(t) \ {g}) = Cardinality(LikesOf(t)) - 1
      BY <2>3, LikesFinite, FS_RemoveElement
    <3>2. Cardinality(LikesOf(t)) # 0
      BY <2>3, LikesFinite, FS_EmptySet
    <3> QED BY <2>3, <3>1, <3>2
  <2>5. Counted(t)'
    BY <2>1, <2>2, <2>4 DEF CountsRight, Counted, Alike
  <2>6. \A x \in Targets \ {t} : Counted(x)'
    BY <2>1, <2>2, <2>3 DEF CountsRight, Counted, Alike
  <2> QED BY <2>5, <2>6 DEF CountsRight
<1> QED BY <1>1, <1>2, <1>3, <1>4, TidyStep, UserGoneCounts DEF LikesInv

LEMMA LikesInit ==
    ASSUME Init
    PROVE  LikesInv /\ \A t \in Targets : LikesOf(t) = {}
<1>1. like = {} /\ \A w \in Workers : job[w] = Idle
  BY DEF Init, InitPosts
<1> QED BY <1>1 DEF LikesInv, Hung, Foreign, Taking, LikesOf, At

CountInv == Base /\ LikesInv /\ (overtaken \/ CountsRight)

(* likes_count is the number of likes, through deletions of posts, comments and
   accounts in any order, until two requests have loaded the same count; a
   deleted comment keeps the count it had.                                   *)
THEOREM LikesAreCounted == Spec => []LikesCounted
<1>1. Init => CountInv
  <2> SUFFICES ASSUME Init PROVE CountInv
    OBVIOUS
  <2>1. CountsRight
    <3>1. PICK a \in Admins : post = [p \in PostIds |-> IF p = 1 THEN NewPost(a, Publish, 0) ELSE NoPost]
      BY DEF Init, InitPosts
    <3>2. /\ \A p \in PostIds : post[p].likes = 0
          /\ \A c \in CommentIds : comment[c].likes = 0
      BY <3>1 DEF Init, NewPost, NoPost, NoComment
    <3>3. \A t \in Targets : TargetLikes(t) = 0
      BY <3>2, Target, OnPost, OnComment
    <3> QED BY <3>3, LikesInit, FS_EmptySet DEF CountsRight, Counted
  <2> QED BY <2>1, InitBase, LikesInit DEF CountInv
<1>2. CountInv /\ [Next]_vars => CountInv'
  BY StepBase, LikesInvStep, CountsStep, Forever DEF CountInv
<1>3. CountInv => LikesCounted
  BY DEF CountInv, CountsRight, Counted, Closed, LikesCounted
<1> QED BY <1>1, <1>2, <1>3, PTL DEF Spec

-----------------------------------------------------------------------------
(* Points.  What likes are worth to an account is the sum of what those that go
   and those that stay are worth.                                            *)

LEMMA OwedSplit ==
    ASSUME NEW u, NEW S, IsFiniteSet(S), NEW T \in SUBSET S
    PROVE  /\ Owed(u, S) \in Nat /\ Owed(u, S \ T) \in Nat /\ Owed(u, T) \in Nat
           /\ Owed(u, S) = Owed(u, S \ T) + Owed(u, T)
<1> DEFINE OnPosts(L) == {l \in {k \in L : k.to = u} : PostTarget(l.target)}
           OnComments(L) == {l \in {k \in L : k.to = u} : ~PostTarget(l.target)}
<1>1. \A L : Owed(u, L) = PostLike * Cardinality(OnPosts(L)) + CommentLike * Cardinality(OnComments(L))
  BY DEF Owed
<1>2. /\ OnPosts(S \ T) = OnPosts(S) \ OnPosts(T) /\ OnPosts(S) \cap OnPosts(T) = OnPosts(T)
      /\ OnComments(S \ T) = OnComments(S) \ OnComments(T) /\ OnComments(S) \cap OnComments(T) = OnComments(T)
  OBVIOUS
<1>3. IsFiniteSet(OnPosts(S)) /\ IsFiniteSet(OnComments(S))
  BY FS_Subset
<1>4. IsFiniteSet(T) /\ IsFiniteSet(S \ T)
  BY FS_Subset
<1>5. Owed(u, S) \in Nat /\ Owed(u, S \ T) \in Nat /\ Owed(u, T) \in Nat
  BY <1>4, OwedOK
<1> HIDE DEF OnPosts, OnComments
<1>6. /\ Cardinality(OnPosts(S \ T)) = Cardinality(OnPosts(S)) - Cardinality(OnPosts(T))
      /\ Cardinality(OnComments(S \ T)) = Cardinality(OnComments(S)) - Cardinality(OnComments(T))
  <2>1. Cardinality(OnPosts(S) \ OnPosts(T)) = Cardinality(OnPosts(S)) - Cardinality(OnPosts(S) \cap OnPosts(T))
    BY <1>3, FS_Difference
  <2>2. Cardinality(OnComments(S) \ OnComments(T)) =
           Cardinality(OnComments(S)) - Cardinality(OnComments(S) \cap OnComments(T))
    BY <1>3, FS_Difference
  <2> QED BY <1>2, <2>1, <2>2
<1>7. /\ OnPosts(T) \in SUBSET OnPosts(S) /\ OnComments(T) \in SUBSET OnComments(S)
  BY <1>2
<1>8. /\ Cardinality(OnPosts(S)) \in Nat /\ Cardinality(OnPosts(T)) \in Nat
      /\ Cardinality(OnComments(S)) \in Nat /\ Cardinality(OnComments(T)) \in Nat
  BY <1>3, <1>7, FS_Subset, FS_CardinalityType
<1> QED BY <1>1, <1>5, <1>6, <1>8 DEF PostLike, CommentLike

LEMMA OwedOne ==
    ASSUME NEW u, NEW l
    PROVE  Owed(u, {l}) = IF l.to = u THEN Worth(l.target) ELSE 0
<1>1. CASE l.to # u
  <2>1. {k \in {l} : k.to = u} = {}
    BY <1>1
  <2>3. Owed(u, {l}) = PostLike * Cardinality({}) + CommentLike * Cardinality({})
    <3>1. /\ {k \in {j \in {l} : j.to = u} : PostTarget(k.target)} = {}
          /\ {k \in {j \in {l} : j.to = u} : ~PostTarget(k.target)} = {}
      BY <2>1
    <3> QED BY <3>1 DEF Owed
  <2> QED BY <1>1, <2>3, FS_EmptySet DEF PostLike, CommentLike
<1>2. CASE l.to = u /\ PostTarget(l.target)
  <2>1. /\ {k \in {j \in {l} : j.to = u} : PostTarget(k.target)} = {l}
        /\ {k \in {j \in {l} : j.to = u} : ~PostTarget(k.target)} = {}
    BY <1>2
  <2>2. Owed(u, {l}) = PostLike * Cardinality({l}) + CommentLike * Cardinality({})
    BY <2>1 DEF Owed
  <2>3. Cardinality({l}) = 1 /\ Cardinality({}) = 0
    BY FS_EmptySet, FS_Singleton
  <2>4. Owed(u, {l}) = PostLike
    BY <2>2, <2>3 DEF PostLike, CommentLike
  <2> QED BY <1>2, <2>4 DEF Worth
<1>3. CASE l.to = u /\ ~PostTarget(l.target)
  <2>1. /\ {k \in {j \in {l} : j.to = u} : PostTarget(k.target)} = {}
        /\ {k \in {j \in {l} : j.to = u} : ~PostTarget(k.target)} = {l}
    BY <1>3
  <2>2. Owed(u, {l}) = PostLike * Cardinality({}) + CommentLike * Cardinality({l})
    BY <2>1 DEF Owed
  <2>3. Cardinality({l}) = 1 /\ Cardinality({}) = 0
    BY FS_EmptySet, FS_Singleton
  <2>4. Owed(u, {l}) = CommentLike
    BY <2>2, <2>3 DEF PostLike, CommentLike
  <2> QED BY <1>3, <2>4 DEF Worth
<1> QED BY <1>1, <1>2, <1>3

\* One like more, or one less
LEMMA OwedWith ==
    ASSUME NEW u, NEW S, IsFiniteSet(S), NEW l \in S
    PROVE  /\ Owed(u, S) \in Nat /\ Owed(u, S \ {l}) \in Nat
           /\ Owed(u, S) = Owed(u, S \ {l}) + (IF l.to = u THEN Worth(l.target) ELSE 0)
<1>1. {l} \in SUBSET S
  OBVIOUS
<1>2. /\ Owed(u, S) \in Nat /\ Owed(u, S \ {l}) \in Nat
      /\ Owed(u, S) = Owed(u, S \ {l}) + Owed(u, {l})
  BY <1>1, OwedSplit
<1> QED BY <1>2, OwedOne

\* Rewards for something else than likes, and renamed badges
LEMMA Reworked ==
    ASSUME Base, NEW w \in Workers, CommitReward(w) \/ RenameBadges(w) \/ CreateBadges(w), NEW u \in Users
    PROVE  /\ UserExists(u)' => UserExists(u)
           /\ ~overtaken' => user'[u].xp + user[u].granted = user[u].xp + user'[u].granted
<1>0. user[u] \in UserRow
  BY UserRows DEF Base
<1>1. CASE user' = user
  BY <1>0, <1>1 DEF UserExists, UserRow
<1>2. CASE CommitReward(w)
  <2> DEFINE j == job[w]
             seen == j.more.row
             row == Awarded(Granted(seen, Points(j.op)), j.by)
  <2>1. CASE user'[u] = user[u]
    BY <1>0, <2>1 DEF UserExists, UserRow
  <2>2. \/ UNCHANGED user
        \/ user'[u] = user[u]
        \/ /\ u = j.by /\ UserExists(u) /\ seen \in UserRow /\ row \in UserRow
           /\ user'[u] = Rewritten(user[u], seen, row)
           /\ row.granted >= seen.granted /\ row.awards >= seen.awards
           /\ row.xp - seen.xp = row.granted - seen.granted
           /\ overtaken' = (overtaken \/ Columns(user[u]) # Columns(seen))
    BY <1>2, RewardedUser
  <2> HIDE DEF row, seen
  <2>3. CASE /\ UserExists(u) /\ seen \in UserRow /\ row \in UserRow
             /\ user'[u] = Rewritten(user[u], seen, row)
             /\ row.granted >= seen.granted /\ row.awards >= seen.awards
             /\ row.xp - seen.xp = row.granted - seen.granted
             /\ overtaken' = (overtaken \/ Columns(user[u]) # Columns(seen))
    <3>1. /\ user'[u].xp = IF row.xp # seen.xp THEN row.xp ELSE user[u].xp
          /\ user'[u].granted = user[u].granted + (row.granted - seen.granted)
      BY <1>0, <2>3, RewrittenUser
    <3>2. ~overtaken' => user[u].xp = seen.xp
      BY <2>3 DEF Columns
    <3>3. /\ user[u].xp \in Nat /\ user[u].granted \in Nat /\ seen.xp \in Nat /\ seen.granted \in Nat
          /\ row.xp \in Nat /\ row.granted \in Nat
      BY <1>0, <2>3 DEF UserRow
    <3>4. ~overtaken' => user'[u].xp = row.xp
      BY <3>1, <3>2
    <3>5. row.xp - seen.xp = row.granted - seen.granted
      BY <2>3
    <3> QED BY <2>3, <3>1, <3>2, <3>3, <3>4, <3>5
  <2> QED BY <1>1, <2>1, <2>2, <2>3
<1>3. CASE RenameBadges(w) /\ ~ End(w)
  <2> DEFINE seen == AccountsRead(job[w])[u]
             new == Renamed(seen)
  <2>1. /\ AccountsRead(job[w]) \in Accounts
        /\ user'[u] = user[u] \/ (UserExists(u) /\ seen # Gone /\ user'[u] = Rewritten(user[u], seen, new))
    BY <1>3, RenamedTables
  <2>2. seen # Gone => seen \in UserRow
    BY <2>1 DEF Accounts
  <2> HIDE DEF seen, new
  <2>3. seen # Gone => /\ seen \in UserRow /\ new \in UserRow /\ new.xp = seen.xp
                       /\ new.granted = seen.granted /\ new.awards = seen.awards
                       /\ seen.granted \in Nat /\ seen.awards \in Nat
    BY <2>2, RenamedRow DEF new, UserRow
  <2>4. seen # Gone => new.granted >= seen.granted /\ new.awards >= seen.awards
    BY <2>3
  <2>5. seen # Gone => /\ Rewritten(user[u], seen, new).xp = user[u].xp
                       /\ Rewritten(user[u], seen, new).granted = user[u].granted + (new.granted - seen.granted)
    BY <1>0, <2>3, <2>4, RewrittenUser
  <2>6. user[u].granted \in Nat /\ user[u].xp \in Nat
    BY <1>0 DEF UserRow
  <2>7. user'[u].xp = user[u].xp /\ user'[u].granted = user[u].granted
    BY <2>1, <2>3, <2>5, <2>6
  <2>8. UserExists(u)' => UserExists(u)
    BY <2>1 DEF UserExists
  <2> QED BY <2>6, <2>7, <2>8
<1>4. CASE RenameBadges(w) /\ End(w)
  BY <1>1, <1>4, RenamedBack
<1>5. CASE CreateBadges(w)
  BY <1>1, <1>5 DEF CreateBadges
<1> QED BY <1>2, <1>3, <1>4, <1>5

\* The steps that write likes or accounts
LEMMA LikeSteps ==
    ASSUME [Next]_vars
    PROVE  \/ UNCHANGED <<user, like, erased>>
           \/ \E w \in Workers :
                 /\ CommitReward(w) \/ RenameBadges(w) \/ CreateBadges(w)
                 /\ UNCHANGED <<like, erased>>
           \/ \E w \in Workers :
                 \/ CommitDeleteComment(w) \/ CommitDeletePost(w) \/ CommitDeleteUser(w)
                 \/ GiveLike(w) \/ TakeLike(w)
<1>1. CASE UNCHANGED Tables
  BY <1>1 DEF Tables, threadVars
<1>2. CASE Tick /\ UNCHANGED threadVars
  BY <1>2 DEF threadVars
<1>3. CASE \E u \in Users, S \in SUBSET notice : MarkRead(u, S)
  BY <1>3 DEF MarkRead
<1>4. CASE \E w \in Workers : Commits(w)
  <2>1. PICK w \in Workers : Commits(w)
    BY <1>4
  <2>2. CASE (CommitCreate(w) \/ CommitEdit(w) \/ CommitHook(w)) /\ UNCHANGED threadVars
    BY <2>2 DEF threadVars
  <2>3. CASE Insert(w) \/ CommitEditComment(w)
    BY <2>3, Zenon DEF Insert, CommitEditComment
  <2>4. CASE CommitReward(w) \/ RenameBadges(w) \/ CreateBadges(w)
    <3>1. UNCHANGED <<like, erased>>
      BY <2>4, Zenon DEF CommitReward, RenameBadges, CreateBadges
    <3> QED BY <2>4, <3>1
  <2> QED BY <2>1, <2>2, <2>3, <2>4 DEF Commits
<1> QED BY <1>1, <1>2, <1>3, <1>4, Steps, StutterTables, ReadsTables

LEMMA ErasedLikes ==
    ASSUME Base, [Next]_vars
    PROVE  UNCHANGED erased \/ \E w \in Workers : CommitDeleteUser(w)
<1>1. ASSUME NEW w \in Workers, CommitDeleteComment(w) \/ CommitDeletePost(w) \/ GiveLike(w) \/ TakeLike(w)
      PROVE  UNCHANGED erased
  BY <1>1, Zenon DEF CommitDeleteComment, CommitDeletePost, GiveLike, TakeLike
<1> QED BY <1>1, LikeSteps

\* What the deletion of a post or of a comment does to likes and accounts
LEMMA LikesGone ==
    ASSUME Base, NEW w \in Workers, CommitDeleteComment(w) \/ CommitDeletePost(w)
    PROVE  \/ UNCHANGED <<user, like>>
           \/ \E gone \in SUBSET like : like' = like \ gone /\ user' = Kept(user, gone)
<1>1. \A t : LikesOf(t) \in SUBSET like
  BY DEF LikesOf
<1>2. LikesUnder(job[w].post, job[w].more.comments) \in SUBSET like
  BY <1>1 DEF LikesUnder
<1>3. CASE CommitDeleteComment(w)
  BY <1>1, <1>3, DeletedComment
<1>4. CASE CommitDeletePost(w)
  BY <1>2, <1>4, DeletedPost
<1> QED BY <1>3, <1>4

LEMMA SomeLikes ==
    ASSUME Base, NEW S \in SUBSET like
    PROVE  IsFiniteSet(S)
BY FS_Subset DEF Base, LikesOK

LEMMA WorthOK ==
    ASSUME NEW t
    PROVE  Worth(t) \in Nat
BY DEF Worth, PostLike, CommentLike

\* The names of deleted accounts are not taken again.
LEMMA NobodyNew ==
    ASSUME Base, Taking, [Next]_vars, NEW u \in Users, UserExists(u)'
    PROVE  UserExists(u)
<1>1. CASE UNCHANGED user
  BY <1>1 DEF UserExists
<1>2. ASSUME NEW w \in Workers, CommitDeleteComment(w) \/ CommitDeletePost(w)
      PROVE  UserExists(u)
  <2>1. ASSUME NEW gone \in SUBSET like, user' = Kept(user, gone)
        PROVE  UserExists(u)
    BY <2>1, SomeLikes, UsersKept DEF Base
  <2> QED BY <1>1, <1>2, <2>1, LikesGone
<1>3. ASSUME NEW w \in Workers, CommitDeleteUser(w)
      PROVE  UserExists(u)
  <2>1. PICK v \in Users, gone \in SUBSET like : user' = [Kept(user, gone) EXCEPT ![v] = Gone]
    BY <1>3, UserGone
  <2>2. Kept(user, gone) \in Accounts /\ (UserExists(u) <=> Kept(user, gone)[u] # Gone)
    BY SomeLikes, KeptOK DEF Base
  <2>3. user'[u] # Gone
    BY DEF UserExists
  <2> QED BY <2>1, <2>2, <2>3 DEF Accounts
<1>4. ASSUME NEW w \in Workers, GiveLike(w), ~ UNCHANGED <<post, comment, like, user, notice, overtaken>>
      PROVE  UserExists(u)
  <2>1. PICK t \in Targets, l \in Like :
           /\ Rewarded(job[w]) = IF l.to = NoUser THEN {} ELSE {l.to}
           /\ \A a \in Rewarded(job[w]) : UserExists(a)
           /\ user' = [x \in Users |-> IF x = l.to THEN Gain(user[x], Worth(t)) ELSE user[x]]
    BY <1>4, LikeGiven
  <2>2. CASE u = l.to
    <3>1. l.to # NoUser
      BY <2>2, PostsAssumption
    <3> QED BY <2>1, <2>2, <3>1
  <2>3. CASE u # l.to
    BY <2>1, <2>3 DEF UserExists
  <2> QED BY <2>2, <2>3
<1>5. ASSUME NEW w \in Workers, TakeLike(w), ~ UNCHANGED <<post, comment, like, user, notice, overtaken>>
      PROVE  UserExists(u)
  <2>1. PICK t \in Targets, g \in Like :
           \/ UNCHANGED user
           \/ \E a \in Users : UserExists(a) /\ user' = [user EXCEPT ![a].xp = Max({0, @ - Worth(t)})]
    BY <1>5, LikeTaken
  <2>2. ASSUME NEW a \in Users, UserExists(a), user' = [user EXCEPT ![a].xp = Max({0, @ - Worth(t)})]
        PROVE  UserExists(u)
    BY <2>2, WorthOK, RevokedXp DEF Base
  <2> QED BY <1>1, <2>1, <2>2
<1> QED BY <1>1, <1>2, <1>3, <1>4, <1>5, Reworked, LikeSteps

-----------------------------------------------------------------------------
(* Whom a like rewards.  A like went to the author its target has now, and a
   request that takes it back has loaded that author.                        *)
Rewards == \A t \in Targets : \A l \in LikesOf(t) : UserExists(l.to) => TargetAuthor(t) = l.to
Revokes ==
    \A w \in Workers : Liking(w) =>
        \A g \in job[w].more.given : UserExists(g.to) => job[w].more.author = g.to

LEMMA RewardsStep ==
    ASSUME Base, LikesInv, Rewards, [Next]_vars, ~overtaken'
    PROVE  Rewards'
<1> SUFFICES ASSUME NEW t \in Targets, NEW l \in LikesOf(t)', UserExists(l.to)'
    PROVE  TargetAuthor(t)' = l.to
  BY DEF Rewards
<1>1. l.to \in Users /\ UserExists(l.to)
  BY NobodyNew DEF LikesInv, UserExists
<1>2. l \in LikesOf(t) => TargetAuthor(t) = l.to /\ TargetExists(t)
  BY <1>1 DEF Rewards, LikesInv, Hung
<1>3. CASE Tidy
  BY <1>2, <1>3 DEF Tidy, Stands, Emptied
<1>4. ASSUME NEW w \in Workers, CommitDeleteUser(w)
      PROVE  TargetAuthor(t)' = l.to
  <2>1. PICK u \in Users, gone \in SUBSET like :
           /\ like' = like \ gone /\ user' = [Kept(user, gone) EXCEPT ![u] = Gone]
           /\ TargetExists(t) => TargetAuthor(t)' = TargetAuthor(t) \/ TargetAuthor(t) = u
    BY <1>4, UserGone
  <2>2. l \in LikesOf(t)
    BY <2>1 DEF LikesOf
  <2>3. Kept(user, gone) \in Accounts
    BY SomeLikes, KeptOK DEF Base
  <2>4. user'[u] = Gone
    BY <2>1, <2>3 DEF Accounts
  <2>5. l.to # u
    BY <1>1, <2>4 DEF UserExists
  <2> QED BY <1>2, <2>1, <2>2, <2>5
<1>5. ASSUME NEW w \in Workers, GiveLike(w) \/ TakeLike(w), like' \subseteq like
      PROVE  TargetAuthor(t)' = l.to
  <2>1. l \in LikesOf(t) /\ TargetAuthor(t)' = TargetAuthor(t)
    BY <1>5, AllAlike DEF LikesOf, Alike
  <2> QED BY <1>2, <2>1
<1>6. ASSUME NEW w \in Workers, GiveLike(w), ~ UNCHANGED <<post, comment, like, user, notice, overtaken>>
      PROVE  TargetAuthor(t)' = l.to
  <2>1. PICK x \in Targets, k \in Like :
           k.target = x /\ like' = like \cup {k} /\ (k.to # NoUser => TargetAuthor(x) = k.to)
    BY <1>6, LikeGiven
  <2>2. TargetAuthor(t)' = TargetAuthor(t)
    BY <1>6, AllAlike DEF Alike
  <2>3. l \in LikesOf(t) \/ (l = k /\ t = x)
    BY <2>1 DEF LikesOf
  <2>4. l.to # NoUser
    BY <1>1, PostsAssumption
  <2> QED BY <1>2, <2>1, <2>2, <2>3, <2>4
<1>7. ASSUME NEW w \in Workers, TakeLike(w), ~ UNCHANGED <<post, comment, like, user, notice, overtaken>>
      PROVE  like' \subseteq like
  BY <1>7, LikeTaken DEF LikesInv
<1> QED BY <1>3, <1>4, <1>5, <1>6, <1>7, TidyStep DEF LikesInv

LEMMA RevokesStep ==
    ASSUME Base, LikesInv, Rewards, Revokes, [Next]_vars
    PROVE  Revokes'
<1> SUFFICES ASSUME NEW w \in Workers, Liking(w)', NEW g \in job'[w].more.given, UserExists(g.to)'
    PROVE  job'[w].more.author = g.to
  BY DEF Revokes
<1>1. g.to \in Users /\ UserExists(g.to)
  BY NobodyNew DEF LikesInv, UserExists
<1>2. CASE job'[w] = job[w]
  BY <1>1, <1>2 DEF Revokes, Liking, At
<1>3. ASSUME NEW u \in Users, NEW t \in Targets, BeginLike(w, u, t)
      PROVE  job'[w].more.author = g.to
  BY <1>1, <1>3, LikeBegun DEF Rewards
<1> QED BY <1>2, <1>3, LikeLoads

\* A like taken back is taken back from the account it went to.
LEMMA TakenFrom ==
    ASSUME Base, Revokes, NEW w \in Workers, TakeLike(w), NEW g \in job[w].more.given,
           g.by = job[w].by, g.to # g.by, UserExists(g.to)
    PROVE  Rewarded(job[w]) = {g.to}
<1>1. At(w, "like", "commit")
  BY DEF TakeLike
<1>2. job[w].more.author = g.to /\ g.to \in Users
  BY <1>1 DEF Revokes, Liking, UserExists
<1> QED BY <1>1, <1>2, LikeJob

Earned(u) == user[u].xp <= user[u].granted + Owed(u, like)

LEMMA EarnedStep ==
    ASSUME Base, LikesInv, Revokes, [Next]_vars, ~overtaken', NEW u \in Users, UserExists(u)', Earned(u)
    PROVE  Earned(u)'
<1>1. UserExists(u) /\ user[u] \in UserRow /\ user[u].xp \in Nat /\ user[u].granted \in Nat
  <2>1. user[u] \in UserRow
    BY UserRows DEF Base
  <2> QED BY <2>1, NobodyNew DEF LikesInv, UserRow
<1>2. IsFiniteSet(like) /\ Owed(u, like) \in Nat
  <2>1. IsFiniteSet(like)
    BY DEF Base, LikesOK
  <2> QED BY <2>1, OwedOK
<1>3. CASE UNCHANGED <<user, like>>
  BY <1>3 DEF Earned
<1>4. ASSUME NEW w \in Workers, CommitReward(w) \/ RenameBadges(w) \/ CreateBadges(w), UNCHANGED like
      PROVE  Earned(u)'
  <2>1. user'[u].xp + user[u].granted = user[u].xp + user'[u].granted
    BY <1>4, Reworked
  <2>2. user'[u].xp \in Nat /\ user'[u].granted \in Nat
    <3>1. Base'
      BY StepBase
    <3> QED BY <3>1 DEF Base, UsersOK, Accounts, UserRow, Gone
  <2> DEFINE owed == Owed(u, like)
  <2>3. user[u].xp <= user[u].granted + owed
    BY DEF Earned
  <2>4. Owed(u, like)' = owed
    BY <1>4
  <2>5. owed \in Nat
    BY <1>2
  <2> HIDE DEF owed
  <2>6. user'[u].xp <= user'[u].granted + owed
    BY <1>1, <2>1, <2>2, <2>3, <2>5
  <2> QED BY <2>4, <2>6 DEF Earned
<1>5. ASSUME NEW gone \in SUBSET like, like' = like \ gone, user'[u] = Kept(user, gone)[u]
      PROVE  Earned(u)'
  <2>1. user'[u].xp = user[u].xp /\ user'[u].granted = user[u].granted + Owed(u, gone)
    BY <1>1, <1>5, SomeLikes, KeptOK DEF Base
  <2>2. /\ Owed(u, like \ gone) \in Nat /\ Owed(u, gone) \in Nat
        /\ Owed(u, like) = Owed(u, like \ gone) + Owed(u, gone)
    BY <1>2, OwedSplit
  <2>3. Owed(u, like)' = Owed(u, like \ gone)
    BY <1>5 DEF Owed
  <2>4. user[u].xp <= user[u].granted + Owed(u, like)
    BY DEF Earned
  <2>5. user'[u].xp <= user'[u].granted + Owed(u, like \ gone)
    BY <1>1, <2>1, <2>2, <2>4
  <2> QED BY <2>3, <2>5 DEF Earned
<1>6. ASSUME NEW w \in Workers, CommitDeleteComment(w) \/ CommitDeletePost(w)
      PROVE  Earned(u)'
  BY <1>3, <1>5, <1>6, LikesGone
<1>7. ASSUME NEW w \in Workers, CommitDeleteUser(w)
      PROVE  Earned(u)'
  <2>1. PICK v \in Users, gone \in SUBSET like :
           like' = like \ gone /\ user' = [Kept(user, gone) EXCEPT ![v] = Gone]
    BY <1>7, UserGone
  <2>2. Kept(user, gone) \in Accounts
    BY SomeLikes, KeptOK DEF Base
  <2>3. user'[u] = Kept(user, gone)[u]
    BY <2>1, <2>2 DEF Accounts, UserExists
  <2> QED BY <1>5, <2>1, <2>3
<1>8. ASSUME NEW w \in Workers, GiveLike(w), ~ UNCHANGED <<post, comment, like, user, notice, overtaken>>
      PROVE  Earned(u)'
  <2>1. PICK t \in Targets, l \in Like :
           /\ l.target = t /\ l \notin like /\ like' = like \cup {l}
           /\ user' = [x \in Users |-> IF x = l.to THEN Gain(user[x], Worth(t)) ELSE user[x]]
    BY <1>8, LikeGiven
  <2> DEFINE more == like \cup {l}
  <2>2. IsFiniteSet(more) /\ more \ {l} = like /\ l \in more
    BY <1>2, <2>1, FS_AddElement
  <2>3. Owed(u, like)' = Owed(u, more)
    BY <2>1 DEF Owed
  <2> HIDE DEF more
  <2>4. Owed(u, more) = Owed(u, like) + (IF l.to = u THEN Worth(t) ELSE 0)
    BY <2>1, <2>2, OwedWith
  <2>5. Worth(t) \in Nat
    BY WorthOK
  <2>6. /\ user'[u].xp = user[u].xp + (IF l.to = u THEN Worth(t) ELSE 0)
        /\ user'[u].granted = user[u].granted
    BY <1>1, <2>1, <2>5, GainOK
  <2>7. user[u].xp <= user[u].granted + Owed(u, like)
    BY DEF Earned
  <2>8. user'[u].xp <= user'[u].granted + Owed(u, more)
    BY <1>1, <1>2, <2>4, <2>5, <2>6, <2>7
  <2> QED BY <2>3, <2>8 DEF Earned
<1>9. ASSUME NEW w \in Workers, TakeLike(w), ~ UNCHANGED <<post, comment, like, user, notice, overtaken>>
      PROVE  Earned(u)'
  <2>1. PICK t \in Targets, g \in Like :
           /\ job[w].more.given = {g} /\ g.target = t /\ g.by = job[w].by /\ g.to # g.by
           /\ g \in like /\ like' = like \ {g}
           /\ \/ (\A a \in Rewarded(job[w]) : ~UserExists(a)) /\ UNCHANGED <<user, notice>>
              \/ \E a \in Users :
                    /\ Rewarded(job[w]) = {a} /\ UserExists(a)
                    /\ user' = [user EXCEPT ![a].xp = Max({0, @ - Worth(t)})]
    BY <1>9, LikeTaken DEF LikesInv
  <2>2. g.to = u => Rewarded(job[w]) = {u}
    BY <1>1, <1>9, <2>1, TakenFrom
  <2>3. /\ Owed(u, like \ {g}) \in Nat
        /\ Owed(u, like) = Owed(u, like \ {g}) + (IF g.to = u THEN Worth(t) ELSE 0)
    BY <1>2, <2>1, OwedWith
  <2>4. Owed(u, like)' = Owed(u, like \ {g})
    BY <2>1 DEF Owed
  <2>5. user[u].xp <= user[u].granted + Owed(u, like)
    BY DEF Earned
  <2>6. Worth(t) \in Nat
    BY WorthOK
  <2>7. ASSUME user'[u] = user[u], g.to # u
        PROVE  user'[u].xp <= user'[u].granted + Owed(u, like \ {g})
    BY <1>1, <2>3, <2>5, <2>7
  <2>8. ASSUME NEW a \in Users, Rewarded(job[w]) = {a}, UserExists(a),
               user' = [user EXCEPT ![a].xp = Max({0, @ - Worth(t)})]
        PROVE  user'[u].xp <= user'[u].granted + Owed(u, like \ {g})
    <3>1. /\ user'[a].xp = (IF Worth(t) <= user[a].xp THEN user[a].xp - Worth(t) ELSE 0)
          /\ user'[a].granted = user[a].granted /\ \A x \in Users \ {a} : user'[x] = user[x]
      BY <2>6, <2>8, RevokedXp DEF Base
    <3>2. CASE a = u
      BY <1>1, <2>3, <2>5, <2>6, <3>1, <3>2
    <3>3. CASE a # u
      BY <2>2, <2>7, <2>8, <3>1, <3>3
    <3> QED BY <3>2, <3>3
  <2>9. user'[u].xp <= user'[u].granted + Owed(u, like \ {g})
    BY <1>1, <2>1, <2>2, <2>7, <2>8
  <2> QED BY <2>4, <2>9 DEF Earned
<1> QED BY <1>3, <1>4, <1>6, <1>7, <1>8, <1>9, LikeSteps

-----------------------------------------------------------------------------
(* What an unread notification of a like is about is there: a post, or a comment
   on the post it names.  The deletion of a post detaches it from both.      *)
UnreadLike(n) == n.type = "like" /\ ~n.read
Fixed(n) ==
    IF n.comment = NoId THEN n.post # NoId => PostExists(n.post)
    ELSE CommentExists(n.comment) /\ comment[n.comment].post = n.post
Attached == \A n \in notice : UnreadLike(n) => Fixed(n)

LEMMA UnreadSteps ==
    ASSUME Base, [Next]_vars
    PROVE  \/ \A n \in notice' : UnreadLike(n) => n \in notice
           \/ \E w \in Workers : CommitDeletePost(w)
           \/ \E w \in Workers : GiveLike(w) /\ ~ UNCHANGED <<post, comment, like, user, notice, overtaken>>
<1>1. CASE notice' \subseteq notice
  BY <1>1
<1>2. ASSUME NEW u \in Users, NEW S \in SUBSET notice, MarkRead(u, S), NEW n \in notice', ~n.read
      PROVE  n \in notice
  <2>1. n \in notice \/ n \in {[m EXCEPT !.read = TRUE] : m \in S}
    BY <1>2 DEF MarkRead
  <2>2. \A m \in S : [m EXCEPT !.read = TRUE].read
    <3>1. \A m \in S : m \in Notice
      BY DEF Base, NoticesOK
    <3> QED BY <3>1 DEF Notice
  <2> QED BY <1>2, <2>1, <2>2
<1>3. ASSUME NEW w \in Workers, CommitReward(w), NEW n \in notice', n.type = "like"
      PROVE  n \in notice
  <2>1. n \in notice \/ n \in RewardNews(w)
    BY <1>3, RewardedUser
  <2>2. n \notin RewardNews(w)
    BY <1>3, RewardNewsOK DEF CommitReward
  <2> QED BY <2>1, <2>2
<1>4. ASSUME NEW w \in Workers, TakeLike(w)
      PROVE  notice' \subseteq notice
  BY <1>4, TakenLike
<1>5. ASSUME NEW w \in Workers, CommitDeleteComment(w)
      PROVE  notice' \subseteq notice
  BY <1>5 DEF CommitDeleteComment
<1>6. ASSUME NEW w \in Workers, CommitDeleteUser(w)
      PROVE  notice' \subseteq notice
  BY <1>6, Zenon DEF CommitDeleteUser
<1> QED BY <1>1, <1>2, <1>3, <1>4, <1>5, <1>6, NoticeSteps DEF UnreadLike

\* Comments stay with their post.
LEMMA CommentsHold ==
    ASSUME Base, [Next]_vars
    PROVE  \/ \A c \in CommentIds : CommentExists(c) => CommentExists(c)' /\ comment'[c].post = comment[c].post
           \/ \E w \in Workers : CommitDeleteComment(w) \/ CommitDeletePost(w)
<1>1. CASE CommentsSame
  BY <1>1 DEF CommentsSame
<1>2. ASSUME NEW w \in Workers, Insert(w), NEW c \in CommentIds, CommentExists(c)
      PROVE  CommentExists(c)' /\ comment'[c].post = comment[c].post
  <2>1. comment'[c] = comment[c]
    BY <1>2, InsertedComment
  <2> QED BY <1>2, <2>1 DEF CommentExists
<1>3. ASSUME NEW w \in Workers, CommitDeleteUser(w), NEW c \in CommentIds, CommentExists(c)
      PROVE  CommentExists(c)' /\ comment'[c].post = comment[c].post
  <2>1. PICK u \in Users, gone \in SUBSET like :
           comment' = [d \in CommentIds |-> IF ~CommentExists(d) THEN NoComment ELSE CommentWithout(d, u, gone)]
    BY <1>3, DeletedUser
  <2>2. comment[c] \in CommentRow /\ comment[c].post \in PostIds
    BY <1>3, CommentRows DEF Base
  <2>3. comment'[c].post = comment[c].post
    BY <1>3, <2>1, <2>2, CommentWithoutKeeps
  <2>4. comment'[c] # NoComment
    BY <2>2, <2>3 DEF NoComment, PostIds, NoId
  <2> QED BY <2>3, <2>4 DEF CommentExists
<1> QED BY <1>1, <1>2, <1>3, CommentsStay

\* The deletion of a post, told by what notifications refer to
DeletesPost(p, comments) ==
    /\ \A q \in PostIds \ {p} : PostExists(q)' <=> PostExists(q)
    /\ \A c \in comments : CommentExists(c) => comment[c].post = p
    /\ \A c \in CommentIds \ comments : CommentExists(c) =>
          /\ CommentExists(c)'
          /\ comment'[c].post = comment[c].post /\ comment[c].post # p
    /\ notice' = {Detached(n, p, comments) : n \in notice}

LEMMA PostDeletion ==
    ASSUME Base, NEW w \in Workers, CommitDeletePost(w), ~overtaken'
    PROVE  \/ UNCHANGED <<post, comment, notice>>
           \/ \E p \in PostIds, comments \in SUBSET CommentIds : DeletesPost(p, comments)
<1>1. PICK p \in PostIds, comments \in SUBSET CommentIds :
         \/ UNCHANGED <<post, comment, notice>>
         \/ /\ CommentsOf(p) \subseteq comments
            /\ \A q \in PostIds \ {p} : post'[q] = post[q]
            /\ \A c \in CommentIds \ comments :
                  comment'[c] = [comment[c] EXCEPT !.stray = @ \/ comment[c].parent \in comments]
            /\ notice' = {Detached(n, p, comments) : n \in notice}
            /\ overtaken' = (overtaken \/ \E c \in comments : CommentExists(c) /\ comment[c].post # p)
  <2>1. /\ job[w].post \in PostIds /\ job[w].more.comments \in SUBSET CommentIds
        /\ \/ UNCHANGED <<post, comment, notice>>
           \/ /\ CommentsOf(job[w].post) \subseteq job[w].more.comments
              /\ \A q \in PostIds \ {job[w].post} : post'[q] = post[q]
              /\ \A c \in CommentIds \ job[w].more.comments :
                    comment'[c] = [comment[c] EXCEPT !.stray = @ \/ comment[c].parent \in job[w].more.comments]
              /\ notice' = {Detached(n, job[w].post, job[w].more.comments) : n \in notice}
              /\ overtaken' = (overtaken \/ \E c \in job[w].more.comments :
                                               CommentExists(c) /\ comment[c].post # job[w].post)
    BY DeletedPost
  <2> QED BY <2>1, Zenon
<1>2. CASE /\ CommentsOf(p) \subseteq comments
           /\ \A q \in PostIds \ {p} : post'[q] = post[q]
           /\ \A c \in CommentIds \ comments :
                 comment'[c] = [comment[c] EXCEPT !.stray = @ \/ comment[c].parent \in comments]
           /\ notice' = {Detached(n, p, comments) : n \in notice}
           /\ overtaken' = (overtaken \/ \E c \in comments : CommentExists(c) /\ comment[c].post # p)
  <2>1. \A q \in PostIds \ {p} : PostExists(q)' <=> PostExists(q)
    BY <1>2 DEF PostExists
  <2>2. \A c \in comments : CommentExists(c) => comment[c].post = p
    BY <1>2
  <2>3. ASSUME NEW c \in CommentIds \ comments, CommentExists(c)
        PROVE  /\ CommentExists(c)'
               /\ comment'[c].post = comment[c].post /\ comment[c].post # p
    <3> DEFINE new == [comment[c] EXCEPT !.stray = @ \/ comment[c].parent \in comments]
    <3>1. new # NoComment /\ new.post = comment[c].post
      BY <2>3, SparedComment
    <3>2. comment'[c] = new
      BY <1>2
    <3> HIDE DEF new
    <3>3. comment[c].post # p
      BY <1>2, <2>3 DEF CommentsOf, ExistingComments
    <3> QED BY <3>1, <3>2, <3>3 DEF CommentExists
  <2>4. DeletesPost(p, comments)
    BY <1>2, <2>1, <2>2, <2>3 DEF DeletesPost
  <2> QED BY <2>4
<1> QED BY <1>1, <1>2

LEMMA AttachedStep ==
    ASSUME Base, Attached, [Next]_vars, ~overtaken'
    PROVE  Attached'
<1>1. \A n \in notice : n \in Notice
  BY DEF Base, NoticesOK
<1>2. CASE /\ \A n \in notice' : UnreadLike(n) => n \in notice
           /\ \A p \in PostIds : PostExists(p) => PostExists(p)'
           /\ \A c \in CommentIds : CommentExists(c) => CommentExists(c)' /\ comment'[c].post = comment[c].post
  <2> SUFFICES ASSUME NEW n \in notice', UnreadLike(n)
      PROVE  Fixed(n)'
    BY DEF Attached, UnreadLike
  <2>1. n \in Notice /\ Fixed(n)
    BY <1>1, <1>2 DEF Attached
  <2>2. n.post \in PostIds \cup {NoId} /\ n.comment \in CommentIds \cup {NoId}
    BY <2>1 DEF Notice
  <2> QED BY <1>2, <2>1, <2>2 DEF Fixed
<1>3. ASSUME NEW w \in Workers, CommitDeletePost(w)
      PROVE  Attached'
  <2>1. CASE UNCHANGED <<post, comment, notice>>
    BY <1>2, <2>1 DEF PostExists, CommentExists
  <2>2. ASSUME NEW p \in PostIds, NEW comments \in SUBSET CommentIds, DeletesPost(p, comments),
               NEW n \in notice', UnreadLike(n)
        PROVE  Fixed(n)'
    <3>1. PICK m \in notice : n = Detached(m, p, comments)
      BY <2>2 DEF DeletesPost
    <3>2. /\ m \in Notice /\ UnreadLike(m)
          /\ n.post = (IF m.post = p THEN NoId ELSE m.post)
          /\ n.comment = (IF m.comment \in comments THEN NoId ELSE m.comment)
      BY <1>1, <2>2, <3>1, DetachedOK DEF UnreadLike
    <3>3. Fixed(m) /\ m.post \in PostIds \cup {NoId} /\ m.comment \in CommentIds \cup {NoId}
      BY <3>2 DEF Attached, Notice
    <3>4. NoId \notin CommentIds
      BY DEF NoId, CommentIds
    <3>5. CASE m.comment = NoId
      BY <2>2, <3>2, <3>3, <3>4, <3>5 DEF Fixed, DeletesPost
    <3>6. CASE m.comment \in comments
      BY <2>2, <3>2, <3>3, <3>4, <3>6 DEF Fixed, DeletesPost
    <3>7. CASE m.comment \in CommentIds \ comments
      BY <2>2, <3>2, <3>3, <3>4, <3>7 DEF Fixed, DeletesPost
    <3> QED BY <3>3, <3>5, <3>6, <3>7
  <2>3. ASSUME NEW p \in PostIds, NEW comments \in SUBSET CommentIds, DeletesPost(p, comments)
        PROVE  Attached'
    BY <2>2, <2>3 DEF Attached, UnreadLike
  <2> QED BY <1>3, <2>1, <2>3, PostDeletion
<1>4. ASSUME NEW w \in Workers, CommitDeleteComment(w)
      PROVE  Attached'
  <2>1. PICK c \in CommentIds :
           \/ UNCHANGED <<comment, notice>>
           \/ /\ CommentExists(c) /\ comment'[c] = [comment[c] EXCEPT !.deleted = TRUE, !.text = "erased"]
              /\ \A d \in CommentIds \ {c} : comment'[d] = comment[d]
              /\ UNCHANGED notice
           \/ /\ comment'[c] = NoComment
              /\ \A d \in CommentIds \ {c} : comment'[d] = comment[d]
              /\ notice' = {n \in notice : n.comment # c}
    BY <1>4, DeletedComment, Zenon
  <2>2. \A p \in PostIds : PostExists(p)' <=> PostExists(p)
    BY <1>4 DEF CommitDeleteComment, postVars, PostExists
  <2>3. CASE UNCHANGED <<comment, notice>>
    BY <1>2, <2>2, <2>3 DEF CommentExists
  <2>4. CASE /\ CommentExists(c) /\ comment'[c] = [comment[c] EXCEPT !.deleted = TRUE, !.text = "erased"]
             /\ \A d \in CommentIds \ {c} : comment'[d] = comment[d]
             /\ UNCHANGED notice
    <3>1. comment[c] \in CommentRow
      BY <2>4, CommentRows DEF Base
    <3>2. comment'[c].post = comment[c].post /\ comment'[c].post \in PostIds
      BY <2>4, <3>1 DEF CommentRow
    <3>3. comment'[c] # NoComment
      BY <3>2 DEF NoComment, PostIds, NoId
    <3>4. \A d \in CommentIds : CommentExists(d) => CommentExists(d)' /\ comment'[d].post = comment[d].post
      BY <2>4, <3>2, <3>3 DEF CommentExists
    <3> QED BY <1>2, <2>2, <2>4, <3>4
  <2>5. CASE /\ comment'[c] = NoComment
             /\ \A d \in CommentIds \ {c} : comment'[d] = comment[d]
             /\ notice' = {n \in notice : n.comment # c}
    <3> SUFFICES ASSUME NEW n \in notice', UnreadLike(n)
        PROVE  Fixed(n)'
      BY DEF Attached, UnreadLike
    <3>1. n \in Notice /\ Fixed(n) /\ n.comment # c
      BY <1>1, <2>5 DEF Attached
    <3>2. n.post \in PostIds \cup {NoId} /\ n.comment \in CommentIds \cup {NoId}
      BY <3>1 DEF Notice
    <3> QED BY <2>2, <2>5, <3>1, <3>2 DEF Fixed, CommentExists
  <2> QED BY <2>1, <2>3, <2>4, <2>5
<1>5. ASSUME NEW w \in Workers, GiveLike(w), ~ UNCHANGED <<post, comment, like, user, notice, overtaken>>,
             NEW n \in notice', UnreadLike(n)
      PROVE  Fixed(n)'
  <2> DEFINE j == job[w]
  <2>1. PICK t \in Targets : /\ t = j.more.target /\ TargetExists(t) /\ TargetPost(t) = j.post
                             /\ notice' = notice \cup GivenNotices(j)
    BY <1>5, LikeGiven DEF AsLoaded
  <2>2. /\ \A p \in PostIds : PostExists(p)' <=> PostExists(p)
        /\ \A c \in CommentIds : (CommentExists(c)' <=> CommentExists(c)) /\ comment'[c].post = comment[c].post
    BY <1>5, LikesAlike DEF PostsAlike, CommentsAlike
  <2>3. CASE n \in notice
    <3>1. n \in Notice /\ Fixed(n)
      BY <1>1, <1>5, <2>3 DEF Attached
    <3>2. n.post \in PostIds \cup {NoId} /\ n.comment \in CommentIds \cup {NoId}
      BY <3>1 DEF Notice
    <3> QED BY <2>2, <3>1, <3>2 DEF Fixed
  <2>4. CASE n \in GivenNotices(j)
    <3>1. At(w, "like", "commit")
      BY <1>5 DEF GiveLike
    <3>2. n.post = j.post /\ n.comment = IF PostTarget(t) THEN NoId ELSE t[2]
      BY <2>1, <2>4, <3>1, GivenNoticesOK
    <3>3. NoId \notin CommentIds
      BY DEF NoId, CommentIds
    <3> HIDE DEF j
    <3>4. ASSUME NEW p \in PostIds, t = <<"post", p>>
          PROVE  Fixed(n)'
      <4>1. PostTarget(t) /\ TargetPost(t) = p /\ PostExists(p)
        BY <2>1, <3>4, OnPost
      <4> QED BY <2>1, <2>2, <3>2, <4>1 DEF Fixed
    <3>5. ASSUME NEW c \in CommentIds, t = <<"comment", c>>
          PROVE  Fixed(n)'
      <4>1. ~PostTarget(t) /\ TargetPost(t) = comment[c].post /\ CommentExists(c) /\ t[2] = c
        BY <2>1, <3>5, OnComment
      <4> QED BY <2>1, <2>2, <3>2, <3>3, <4>1 DEF Fixed
    <3> QED BY <3>4, <3>5, Target
  <2> QED BY <2>1, <2>3, <2>4
<1>6. ASSUME NEW w \in Workers, GiveLike(w), ~ UNCHANGED <<post, comment, like, user, notice, overtaken>>
      PROVE  Attached'
  BY <1>5, <1>6 DEF Attached, UnreadLike
<1> QED BY <1>2, <1>3, <1>4, <1>6, UnreadSteps, CommentsHold, PostsStay

-----------------------------------------------------------------------------
(* Notifications of likes.  Of a target that stands, an account has no more
   unread ones than likes that went to it, but for those whose likers are gone. *)
Mine(u, t) == {l \in LikesOf(t) : l.to = u}
Told(u, t) == ~Closed(t) => Cardinality(UnreadLikes(u, t)) <= Cardinality(Mine(u, t)) + erased
Loose == \A t \in Targets, u \in Users : ~TargetExists(t) => UnreadLikes(u, t) = {}

LEMMA TellingFinite ==
    ASSUME Base, NEW u, NEW t
    PROVE  /\ IsFiniteSet(UnreadLikes(u, t)) /\ Cardinality(UnreadLikes(u, t)) \in Nat
           /\ IsFiniteSet(Mine(u, t)) /\ Cardinality(Mine(u, t)) \in Nat
<1>1. IsFiniteSet(notice) /\ IsFiniteSet(like)
  BY DEF Base, NoticesOK, LikesOK
<1>2. UnreadLikes(u, t) \in SUBSET notice /\ Mine(u, t) \in SUBSET like
  BY DEF UnreadLikes, Mine, LikesOf
<1> QED BY <1>1, <1>2, FS_Subset, FS_CardinalityType

LEMMA AboutPost ==
    ASSUME NEW n, NEW p \in PostIds
    PROVE  About(n, <<"post", p>>) <=> n.post = p /\ n.comment = NoId
BY OnPost DEF About

LEMMA AboutComment ==
    ASSUME NEW n, NEW c \in CommentIds
    PROVE  About(n, <<"comment", c>>) <=> n.comment = c
BY OnComment DEF About

LEMMA NothingLoose == Attached => Loose
<1> SUFFICES ASSUME Attached, NEW t \in Targets, NEW u \in Users, ~TargetExists(t), NEW n \in UnreadLikes(u, t)
    PROVE  FALSE
  BY DEF Loose
<1>1. Fixed(n) /\ About(n, t)
  BY DEF UnreadLikes, Attached, UnreadLike
<1>2. ASSUME NEW p \in PostIds, t = <<"post", p>>
      PROVE  FALSE
  BY <1>1, <1>2, OnPost, AboutPost DEF Fixed, PostIds, NoId
<1>3. ASSUME NEW c \in CommentIds, t = <<"comment", c>>
      PROVE  FALSE
  BY <1>1, <1>3, OnComment, AboutComment DEF Fixed, CommentIds, NoId
<1> QED BY <1>2, <1>3, Target

\* No step but a like makes a notification one of an unread like.
LEMMA UnreadShrinks ==
    ASSUME Base, Attached, [Next]_vars, ~overtaken', NEW u \in Users, NEW t \in Targets,
           ~ \E w \in Workers : GiveLike(w) /\ ~ UNCHANGED <<post, comment, like, user, notice, overtaken>>
    PROVE  UnreadLikes(u, t)' \subseteq UnreadLikes(u, t)
<1>1. CASE \A n \in notice' : UnreadLike(n) => n \in notice
  BY <1>1 DEF UnreadLikes, UnreadLike
<1>2. ASSUME NEW p \in PostIds, NEW comments \in SUBSET CommentIds, DeletesPost(p, comments),
             NEW n \in UnreadLikes(u, t)'
      PROVE  n \in UnreadLikes(u, t)
  <2>1. n \in notice' /\ n.to = u /\ n.type = "like" /\ ~n.read /\ About(n, t)
    BY <1>2 DEF UnreadLikes
  <2>2. PICK m \in notice : n = Detached(m, p, comments)
    BY <1>2, <2>1 DEF DeletesPost
  <2>3. m \in Notice
    BY DEF Base, NoticesOK
  <2>4. /\ n \in Notice /\ n.id = m.id /\ n.to = m.to /\ n.type = m.type /\ n.read = m.read /\ n.stray = m.stray
        /\ n.post = (IF m.post = p THEN NoId ELSE m.post)
        /\ n.comment = (IF m.comment \in comments THEN NoId ELSE m.comment)
    BY <2>2, <2>3, DetachedOK
  <2>5. Fixed(m)
    BY <2>1, <2>4 DEF Attached, UnreadLike
  <2>6. NoId \notin CommentIds /\ NoId \notin PostIds
    BY DEF NoId, CommentIds, PostIds
  <2>7. m.post # p /\ m.comment \notin comments
    <3>1. ASSUME NEW q \in PostIds, t = <<"post", q>>
          PROVE  m.post # p /\ m.comment \notin comments
      <4>1. n.post = q /\ n.comment = NoId
        BY <2>1, <3>1, AboutPost
      <4>2. m.post # p
        BY <2>4, <2>6, <4>1
      <4>3. m.comment \in comments => comment[m.comment].post = m.post /\ CommentExists(m.comment)
        BY <2>5, <2>6 DEF Fixed
      <4> QED BY <1>2, <4>2, <4>3 DEF DeletesPost
    <3>2. ASSUME NEW c \in CommentIds, t = <<"comment", c>>
          PROVE  m.post # p /\ m.comment \notin comments
      <4>1. n.comment = c
        BY <2>1, <3>2, AboutComment
      <4>2. m.comment \notin comments /\ m.comment = c
        BY <2>4, <2>6, <4>1
      <4>3. CommentExists(c) /\ comment[c].post = m.post
        BY <2>5, <2>6, <4>2 DEF Fixed
      <4> QED BY <1>2, <4>2, <4>3 DEF DeletesPost
    <3> QED BY <3>1, <3>2, Target
  <2>8. n = m
    BY <2>3, <2>4, <2>7 DEF Notice
  <2> QED BY <2>1, <2>8 DEF UnreadLikes
<1>3. ASSUME NEW w \in Workers, CommitDeletePost(w)
      PROVE  UnreadLikes(u, t)' \subseteq UnreadLikes(u, t)
  BY <1>1, <1>2, <1>3, PostDeletion
<1> QED BY <1>1, <1>3, UnreadSteps

\* Of some unread notifications, one is the latest.
LEMMA SomeLatest ==
    ASSUME Base, NEW u, NEW t, UnreadLikes(u, t) # {}
    PROVE  \E n \in UnreadLikes(u, t) : n \in Latest(UnreadLikes(u, t))
<1> DEFINE S == {n.id : n \in UnreadLikes(u, t)}
<1>1. \A n \in UnreadLikes(u, t) : n \in notice /\ n.id \in Nat
  BY DEF UnreadLikes, Base, NoticesOK, Notice
<1>2. PICK b \in Nat : \A n \in notice : n.id <= b
  BY DEF Base, NoticesOK, Bounded
<1>3. S \in SUBSET Nat /\ S # {} /\ \A x \in S : x <= b
  BY <1>1, <1>2
<1>4. \A n \in UnreadLikes(u, t) : n.id \in S
  OBVIOUS
<1>5. \A x \in S : \E n \in UnreadLikes(u, t) : n.id = x
  OBVIOUS
<1> HIDE DEF S
<1>6. Max(S) \in S /\ \A y \in S : y <= Max(S)
  BY <1>3, Greatest
<1> QED BY <1>4, <1>5, <1>6 DEF Latest

\* The likes that go with an account are as many fewer as are counted erased.
LEMMA ToldUserGone ==
    ASSUME Base, Loose', NEW w \in Workers, CommitDeleteUser(w),
           NEW u \in Users, NEW t \in Targets, Told(u, t), UnreadLikes(u, t)' \subseteq UnreadLikes(u, t)
    PROVE  Told(u, t)'
<1> DEFINE unread == Cardinality(UnreadLikes(u, t))
           mine == Cardinality(Mine(u, t))
<1>1. PICK gone \in SUBSET like :
         /\ IsFiniteSet(gone) /\ like' = like \ gone /\ erased' = erased + Cardinality(gone)
         /\ TargetExists(t)' <=> TargetExists(t)
         /\ TargetExists(t) => (Closed(t)' <=> Closed(t))
  BY UserGone
<1>2. erased \in Nat /\ Cardinality(gone) \in Nat
  BY <1>1, FS_CardinalityType DEF Base, SiteOK
<1>3. IsFiniteSet(UnreadLikes(u, t)) /\ unread \in Nat /\ IsFiniteSet(Mine(u, t)) /\ mine \in Nat
  BY TellingFinite
<1>4. Cardinality(UnreadLikes(u, t)') \in Nat /\ Cardinality(UnreadLikes(u, t)') <= unread
  BY <1>3, FS_Subset, FS_CardinalityType
<1>5. Mine(u, t)' = Mine(u, t) \ gone
  BY <1>1 DEF Mine, LikesOf
<1>6. Cardinality(Mine(u, t)') \in Nat /\ mine <= Cardinality(Mine(u, t)') + Cardinality(gone)
  <2> DEFINE both == Mine(u, t) \cap gone
  <2>1. Cardinality(Mine(u, t) \ gone) = mine - Cardinality(both)
    BY <1>3, FS_Difference
  <2>2. both \in SUBSET gone /\ both \in SUBSET Mine(u, t)
    OBVIOUS
  <2> HIDE DEF both
  <2>3. Cardinality(both) \in Nat /\ Cardinality(both) <= Cardinality(gone) /\ Cardinality(both) <= mine
    BY <1>1, <1>3, <2>2, FS_Subset, FS_CardinalityType
  <2> QED BY <1>2, <1>3, <1>5, <2>1, <2>3
<1> HIDE DEF unread, mine
<1>7. CASE ~TargetExists(t)
  <2>1. UnreadLikes(u, t)' = {}
    BY <1>1, <1>7 DEF Loose
  <2>2. Cardinality(UnreadLikes(u, t)') = 0
    BY <2>1, FS_EmptySet
  <2> QED BY <1>1, <1>2, <1>6, <2>2 DEF Told
<1>8. CASE TargetExists(t) /\ ~Closed(t)
  <2>1. unread <= mine + erased
    BY <1>8 DEF Told, unread, mine
  <2>2. Cardinality(UnreadLikes(u, t)') <= Cardinality(Mine(u, t)') + (erased + Cardinality(gone))
    BY <1>2, <1>3, <1>4, <1>6, <2>1
  <2> QED BY <1>1, <2>2 DEF Told
<1>9. CASE TargetExists(t) /\ Closed(t)
  BY <1>1, <1>9 DEF Told
<1> QED BY <1>7, <1>8, <1>9

\* A like is one like more, and one notification more at most.
LEMMA ToldGiven ==
    ASSUME Base, NEW w \in Workers, GiveLike(w), ~ UNCHANGED <<post, comment, like, user, notice, overtaken>>,
           ~overtaken', UNCHANGED erased, NEW u \in Users, NEW t \in Targets, Told(u, t)
    PROVE  Told(u, t)'
<1> DEFINE unread == Cardinality(UnreadLikes(u, t))
           mine == Cardinality(Mine(u, t))
<1>1. PICK x \in Targets, l \in Like :
         /\ x = job[w].more.target /\ TargetExists(x) /\ l.target = x /\ l \notin like
         /\ Rewarded(job[w]) = IF l.to = NoUser THEN {} ELSE {l.to}
         /\ like' = like \cup {l} /\ notice' = notice \cup GivenNotices(job[w])
         /\ AsLoaded(job[w])
  BY LikeGiven
<1>2. Closed(t)' <=> Closed(t)
  BY AllAlike DEF Alike
<1>3. erased \in Nat
  BY DEF Base, SiteOK
<1>4. IsFiniteSet(UnreadLikes(u, t)) /\ unread \in Nat /\ IsFiniteSet(Mine(u, t)) /\ mine \in Nat
  BY TellingFinite
<1>5. /\ \A m, n \in GivenNotices(job[w]) : m = n
      /\ \A n \in GivenNotices(job[w]) :
            /\ n.to \in Rewarded(job[w]) /\ n.post = job[w].post
            /\ n.comment = IF PostTarget(x) THEN NoId ELSE x[2]
  <2>1. At(w, "like", "commit")
    BY DEF GiveLike
  <2> QED BY <1>1, <2>1, GivenNoticesOK
<1>6. CASE l.to = u /\ x = t
  <2>1. Mine(u, t)' = Mine(u, t) \cup {l} /\ l \notin Mine(u, t)
    BY <1>1, <1>6 DEF Mine, LikesOf
  <2>2. Cardinality(Mine(u, t)') = mine + 1
    BY <1>4, <2>1, FS_AddElement
  <2>3. Cardinality(UnreadLikes(u, t)') <= unread + 1 /\ Cardinality(UnreadLikes(u, t)') \in Nat
    <3>1. CASE UnreadLikes(u, t)' \subseteq UnreadLikes(u, t)
      <4>1. Cardinality(UnreadLikes(u, t)') <= unread /\ Cardinality(UnreadLikes(u, t)') \in Nat
        BY <1>4, <3>1, FS_Subset, FS_CardinalityType
      <4> QED BY <1>4, <4>1
    <3>2. ASSUME NEW n \in UnreadLikes(u, t)', n \notin UnreadLikes(u, t)
          PROVE  Cardinality(UnreadLikes(u, t)') <= unread + 1 /\ Cardinality(UnreadLikes(u, t)') \in Nat
      <4>1. \A m \in UnreadLikes(u, t)' : m \in UnreadLikes(u, t) \/ m \in GivenNotices(job[w])
        BY <1>1 DEF UnreadLikes
      <4>2. UnreadLikes(u, t)' \subseteq UnreadLikes(u, t) \cup {n}
        BY <1>5, <3>2, <4>1
      <4>3. /\ IsFiniteSet(UnreadLikes(u, t) \cup {n})
            /\ Cardinality(UnreadLikes(u, t) \cup {n}) = unread + 1
        BY <1>4, <3>2, FS_AddElement
      <4> QED BY <4>2, <4>3, FS_Subset, FS_CardinalityType
    <3> QED BY <3>1, <3>2
  <2> HIDE DEF unread, mine
  <2>4. ~Closed(t) => unread <= mine + erased
    BY DEF Told, unread, mine
  <2>5. ~Closed(t) => Cardinality(UnreadLikes(u, t)') <= Cardinality(Mine(u, t)') + erased
    BY <1>3, <1>4, <2>2, <2>3, <2>4
  <2> QED BY <1>2, <2>5 DEF Told
<1>7. CASE ~(l.to = u /\ x = t)
  <2>1. Mine(u, t)' = Mine(u, t)
    BY <1>1, <1>7 DEF Mine, LikesOf
  <2>2. \A n \in GivenNotices(job[w]) : n.to = u /\ About(n, t) => l.to = u /\ x = t
    <3> SUFFICES ASSUME NEW n \in GivenNotices(job[w]), n.to = u, About(n, t)
        PROVE  l.to = u /\ x = t
      OBVIOUS
    <3>1. l.to = u
      BY <1>1, <1>5
    <3>2. n.post = TargetPost(x) /\ n.comment = IF PostTarget(x) THEN NoId ELSE x[2]
      BY <1>1, <1>5 DEF AsLoaded
    <3>3. NoId \notin CommentIds
      BY DEF NoId, CommentIds
    <3>4. ASSUME NEW p \in PostIds, x = <<"post", p>>
          PROVE  x = t
      <4>1. n.post = p /\ n.comment = NoId
        BY <3>2, <3>4, OnPost
      <4>2. ASSUME NEW q \in PostIds, t = <<"post", q>> PROVE x = t
        BY <3>4, <4>1, <4>2, AboutPost
      <4>3. ASSUME NEW c \in CommentIds, t = <<"comment", c>> PROVE x = t
        BY <3>3, <4>1, <4>3, AboutComment
      <4> QED BY <4>2, <4>3, Target
    <3>5. ASSUME NEW c \in CommentIds, x = <<"comment", c>>
          PROVE  x = t
      <4>1. n.comment = c
        BY <3>2, <3>5, OnComment
      <4>2. ASSUME NEW q \in PostIds, t = <<"post", q>> PROVE x = t
        BY <3>3, <4>1, <4>2, AboutPost
      <4>3. ASSUME NEW d \in CommentIds, t = <<"comment", d>> PROVE x = t
        BY <3>5, <4>1, <4>3, AboutComment
      <4> QED BY <4>2, <4>3, Target
    <3> QED BY <3>1, <3>4, <3>5, Target
  <2>3. UnreadLikes(u, t)' = UnreadLikes(u, t)
    BY <1>1, <1>7, <2>2 DEF UnreadLikes
  <2> QED BY <1>2, <2>1, <2>3 DEF Told
<1> QED BY <1>6, <1>7

\* A like taken back takes the latest unread notification with it.
LEMMA ToldTaken ==
    ASSUME Base, LikesInv, Revokes, NEW w \in Workers, TakeLike(w),
           ~ UNCHANGED <<post, comment, like, user, notice, overtaken>>, ~overtaken', UNCHANGED erased,
           NEW u \in Users, UserExists(u), NEW t \in Targets, Told(u, t),
           UnreadLikes(u, t)' \subseteq UnreadLikes(u, t)
    PROVE  Told(u, t)'
<1> DEFINE unread == Cardinality(UnreadLikes(u, t))
           mine == Cardinality(Mine(u, t))
<1>1. PICK x \in Targets, g \in Like :
         /\ job[w].more.given = {g} /\ g.target = x /\ g.by = job[w].by /\ g.to # g.by
         /\ \/ (\A a \in Rewarded(job[w]) : ~UserExists(a)) /\ UNCHANGED <<user, notice>>
            \/ \E a \in Users :
                  /\ Rewarded(job[w]) = {a} /\ a = job[w].more.author /\ UserExists(a)
                  /\ user' = [user EXCEPT ![a].xp = Max({0, @ - Worth(x)})]
                  /\ notice' = notice \ Latest(UnreadLikes(a, x))
         /\ g \in like /\ like' = like \ {g}
  BY LikeTaken DEF LikesInv
<1>2. Closed(t)' <=> Closed(t)
  BY AllAlike DEF Alike
<1>3. erased \in Nat
  BY DEF Base, SiteOK
<1>4. IsFiniteSet(UnreadLikes(u, t)) /\ unread \in Nat /\ IsFiniteSet(Mine(u, t)) /\ mine \in Nat
  BY TellingFinite
<1>5. Cardinality(UnreadLikes(u, t)') \in Nat /\ Cardinality(UnreadLikes(u, t)') <= unread
  BY <1>4, FS_Subset, FS_CardinalityType
<1>6. ~Closed(t) => unread <= mine + erased
  BY DEF Told
<1>7. CASE ~(g.to = u /\ x = t)
  <2>1. Mine(u, t)' = Mine(u, t)
    BY <1>1, <1>7 DEF Mine, LikesOf
  <2> HIDE DEF unread
  <2>2. ~Closed(t) => Cardinality(UnreadLikes(u, t)') <= mine + erased
    BY <1>3, <1>4, <1>5, <1>6
  <2> QED BY <1>2, <2>1, <2>2 DEF Told
<1>8. CASE g.to = u /\ x = t
  <2>1. notice' = notice \ Latest(UnreadLikes(u, t))
    <3>1. Rewarded(job[w]) = {u}
      BY <1>1, <1>8, TakenFrom
    <3> QED BY <1>1, <1>8, <3>1
  <2>2. Mine(u, t)' = Mine(u, t) \ {g} /\ g \in Mine(u, t)
    BY <1>1, <1>8 DEF Mine, LikesOf
  <2>3. Cardinality(Mine(u, t)') = mine - 1 /\ mine # 0
    <3>1. Cardinality(Mine(u, t) \ {g}) = mine - 1
      BY <1>4, <2>2, FS_RemoveElement
    <3>2. mine # 0
      BY <1>4, <2>2, FS_EmptySet
    <3> QED BY <2>2, <3>1, <3>2
  <2>4. Cardinality(UnreadLikes(u, t)') = 0 \/ (unread # 0 /\ Cardinality(UnreadLikes(u, t)') <= unread - 1)
    <3>1. CASE UnreadLikes(u, t) = {}
      <4>1. UnreadLikes(u, t)' = {}
        BY <3>1
      <4> QED BY <4>1, FS_EmptySet
    <3>2. CASE UnreadLikes(u, t) # {}
      <4>1. PICK n \in UnreadLikes(u, t) : n \in Latest(UnreadLikes(u, t))
        BY <3>2, SomeLatest
      <4>2. UnreadLikes(u, t)' \in SUBSET (UnreadLikes(u, t) \ {n})
        BY <2>1, <4>1 DEF UnreadLikes
      <4>3. /\ IsFiniteSet(UnreadLikes(u, t) \ {n})
            /\ Cardinality(UnreadLikes(u, t) \ {n}) = unread - 1
        BY <1>4, <4>1, FS_RemoveElement
      <4>4. unread # 0
        BY <1>4, <3>2, FS_EmptySet
      <4>5. Cardinality(UnreadLikes(u, t)') <= Cardinality(UnreadLikes(u, t) \ {n})
        BY <4>2, <4>3, FS_Subset
      <4> QED BY <4>3, <4>4, <4>5
    <3> QED BY <3>1, <3>2
  <2> HIDE DEF unread, mine
  <2>5. ~Closed(t) => Cardinality(UnreadLikes(u, t)') <= Cardinality(Mine(u, t)') + erased
    BY <1>3, <1>4, <1>5, <1>6, <2>3, <2>4
  <2> QED BY <1>2, <2>5 DEF Told
<1> QED BY <1>7, <1>8

LEMMA ToldStep ==
    ASSUME Base, LikesInv, Revokes, Attached, Loose, Loose', [Next]_vars, ~overtaken',
           NEW u \in Users, UserExists(u), NEW t \in Targets, Told(u, t)
    PROVE  Told(u, t)'
<1>1. ASSUME NEW w \in Workers, CommitDeleteUser(w)
      PROVE  Told(u, t)'
  <2>1. UnreadLikes(u, t)' \subseteq UnreadLikes(u, t)
    BY <1>1, UserGone DEF UnreadLikes
  <2> QED BY <1>1, <2>1, ToldUserGone
<1>2. ASSUME NEW w \in Workers, GiveLike(w), ~ UNCHANGED <<post, comment, like, user, notice, overtaken>>,
             UNCHANGED erased
      PROVE  Told(u, t)'
  BY <1>2, ToldGiven
<1>3. ASSUME ~ \E w \in Workers : GiveLike(w) /\ ~ UNCHANGED <<post, comment, like, user, notice, overtaken>>
      PROVE  UnreadLikes(u, t)' \subseteq UnreadLikes(u, t)
  BY <1>3, UnreadShrinks
<1>4. ASSUME NEW w \in Workers, TakeLike(w), ~ UNCHANGED <<post, comment, like, user, notice, overtaken>>,
             UNCHANGED erased, UnreadLikes(u, t)' \subseteq UnreadLikes(u, t)
      PROVE  Told(u, t)'
  BY <1>4, ToldTaken
<1>5. ASSUME NEW w \in Workers, GiveLike(w) \/ TakeLike(w),
             UNCHANGED <<post, comment, like, user, notice, overtaken>>, UNCHANGED erased
      PROVE  Told(u, t)'
  <2>1. Closed(t)' <=> Closed(t)
    BY <1>5, AllAlike DEF Alike
  <2>2. UnreadLikes(u, t)' = UnreadLikes(u, t) /\ Mine(u, t)' = Mine(u, t)
    BY <1>5 DEF UnreadLikes, Mine, LikesOf
  <2> QED BY <1>5, <2>1, <2>2 DEF Told
<1>6. ASSUME Tidy, UNCHANGED erased, UnreadLikes(u, t)' \subseteq UnreadLikes(u, t)
      PROVE  Told(u, t)'
  <2>1. erased \in Nat /\ Cardinality(UnreadLikes(u, t)) \in Nat /\ Cardinality(Mine(u, t)) \in Nat
    BY TellingFinite DEF Base, SiteOK
  <2>2. Cardinality(UnreadLikes(u, t)') \in Nat /\ Cardinality(UnreadLikes(u, t)') <= Cardinality(UnreadLikes(u, t))
    BY <1>6, TellingFinite, FS_Subset, FS_CardinalityType
  <2>3. CASE LikesOf(t)' = LikesOf(t) /\ Stands(t)
    <3>1. Mine(u, t)' = Mine(u, t) /\ (Closed(t)' <=> Closed(t))
      BY <2>3 DEF Mine, Stands
    <3> QED BY <1>6, <2>1, <2>2, <3>1 DEF Told
  <2>4. CASE Emptied(t)
    <3>1. Closed(t)' \/ UnreadLikes(u, t)' = {}
      BY <1>6, <2>4 DEF Emptied, Loose
    <3>2. Mine(u, t)' = {}
      BY <2>4 DEF Emptied, Mine
    <3>3. UnreadLikes(u, t)' = {} => Told(u, t)'
      BY <1>6, <2>1, <3>2, FS_EmptySet DEF Told
    <3> QED BY <3>1, <3>3 DEF Told
  <2> QED BY <1>6, <2>3, <2>4 DEF Tidy
<1>7. ASSUME ~ \E w \in Workers : CommitDeleteUser(w)
      PROVE  UNCHANGED erased
  BY <1>7, ErasedLikes
<1> QED BY <1>1, <1>2, <1>3, <1>4, <1>5, <1>6, <1>7, TidyStep DEF LikesInv

\* Nobody likes a thing twice, and nobody is rewarded for a like of their own.
LEMMA LikersMine ==
    ASSUME Base, Foreign, NEW u, NEW t
    PROVE  Cardinality(Mine(u, t)) <= Cardinality(Likers(t) \ {u}) /\ Cardinality(Likers(t) \ {u}) \in Nat
<1> DEFINE S == Mine(u, t)
           T == Likers(t) \ {u}
           f == [l \in S |-> l.by]
<1>1. IsFiniteSet(LikesOf(t))
  BY LikesFinite
<1>2. IsFiniteSet(Likers(t))
  <2> DEFINE who == [l \in LikesOf(t) |-> l.by]
  <2>1. /\ who \in [LikesOf(t) -> Likers(t)]
        /\ \A v \in Likers(t) : \E l \in LikesOf(t) : who[l] = v
    BY DEF Likers
  <2> HIDE DEF who
  <2>2. who \in Surjection(LikesOf(t), Likers(t))
    BY <2>1 DEF Surjection
  <2> QED BY <1>1, <2>2, FS_Surjection
<1>3. IsFiniteSet(T) /\ Cardinality(T) \in Nat
  BY <1>2, FS_Subset, FS_CardinalityType
<1>4. \A l \in S : l \in LikesOf(t) /\ l.by \in Likers(t) /\ l.by # u
  BY DEF Mine, LikesOf, Likers, Foreign
<1>5. \A k, l \in S : k.by = l.by => k = l
  BY DEF Mine, LikesOf, Base, LikesOK
<1>6. f \in Injection(S, T)
  <2>1. \A l \in S : l.by \in T
    BY <1>4
  <2> HIDE DEF S, T
  <2>2. f \in [S -> T] /\ \A k, l \in S : f[k] = f[l] => k = l
    BY <1>5, <2>1
  <2> HIDE DEF f
  <2> QED BY <2>2 DEF Injection, IsInjective
<1> HIDE DEF S, T, f
<1>7. Cardinality(S) <= Cardinality(T)
  BY <1>3, <1>6, FS_Injection
<1> QED BY <1>3, <1>7 DEF S, T

Fair(u) == Earned(u) /\ \A t \in Targets : Told(u, t)
FarmInv ==
    /\ Base /\ LikesInv
    /\ \/ overtaken
       \/ /\ Rewards /\ Revokes /\ Attached
          /\ \A u \in Users : UserExists(u) => Fair(u)

LEMMA FarmInit == Init => FarmInv
<1> SUFFICES ASSUME Init PROVE FarmInv
  OBVIOUS
<1>1. notice = {} /\ like = {} /\ erased = 0 /\ (\A u \in Users : user[u].xp = 0 /\ user[u].granted = 0)
  BY DEF Init
<1>2. \A w \in Workers : job[w] = Idle
  BY DEF Init, InitPosts
<1>3. Rewards /\ Revokes /\ Attached
  BY <1>1, <1>2 DEF Rewards, Revokes, Attached, LikesOf, Liking, At
<1>4. ASSUME NEW u \in Users
      PROVE  Fair(u)
  <2>1. Owed(u, like) \in Nat
    BY <1>1, OwedOK, FS_EmptySet
  <2>2. Earned(u)
    BY <1>1, <2>1 DEF Earned
  <2>3. \A t \in Targets : UnreadLikes(u, t) = {} /\ Mine(u, t) = {}
    BY <1>1 DEF UnreadLikes, Mine, LikesOf
  <2>4. \A t \in Targets : Told(u, t)
    BY <1>1, <2>3, FS_EmptySet DEF Told
  <2> QED BY <2>2, <2>4 DEF Fair
<1> QED BY <1>3, <1>4, InitBase, LikesInit DEF FarmInv

LEMMA FarmStep == FarmInv /\ [Next]_vars => FarmInv'
<1> SUFFICES ASSUME FarmInv, [Next]_vars PROVE FarmInv'
  OBVIOUS
<1>1. Base' /\ LikesInv'
  BY StepBase, LikesInvStep DEF FarmInv
<1>2. CASE overtaken'
  BY <1>1, <1>2 DEF FarmInv
<1>3. CASE ~overtaken'
  <2>1. /\ ~overtaken /\ Rewards /\ Revokes /\ Attached
        /\ \A u \in Users : UserExists(u) => Fair(u)
    BY <1>3, Forever DEF FarmInv
  <2>2. Rewards' /\ Revokes' /\ Attached'
    BY <1>3, <2>1, RewardsStep, RevokesStep, AttachedStep DEF FarmInv
  <2>3. Loose /\ Loose'
    <3>1. Attached' => Loose'
      BY NothingLoose, PTL
    <3> QED BY <2>1, <2>2, <3>1, NothingLoose
  <2>4. ASSUME NEW u \in Users, UserExists(u)'
        PROVE  Fair(u)'
    <3>1. UserExists(u)
      BY <2>4, NobodyNew DEF FarmInv, LikesInv
    <3>2. Earned(u) /\ \A t \in Targets : Told(u, t)
      BY <2>1, <3>1 DEF Fair
    <3>3. Earned(u)'
      BY <1>3, <2>1, <2>4, <3>2, EarnedStep DEF FarmInv
    <3>4. ASSUME NEW t \in Targets
          PROVE  Told(u, t)'
      BY <1>3, <2>1, <2>3, <3>1, <3>2, ToldStep DEF FarmInv
    <3> QED BY <3>3, <3>4 DEF Fair
  <2> QED BY <1>1, <2>2, <2>4 DEF FarmInv
<1> QED BY <1>2, <1>3

(* Likes given and taken back in a loop, by any number of accounts and through
   deletions of posts, comments and accounts, leave neither points nor unread
   notifications behind: beyond what was granted for something else, points are
   worth the likes that exist, and nobody has more unread notifications of likes
   of a target than accounts that like it or were deleted - until a request has
   written what another one changed after it had loaded it.                  *)
THEOREM NothingToFarm == Spec => []NoFarming
<1>1. FarmInv => NoFarming
  <2> SUFFICES ASSUME FarmInv, ~overtaken, NEW u \in Users, UserExists(u)
      PROVE  /\ user[u].xp <= user[u].granted + Owed(u, like)
             /\ \A t \in Targets : PostTarget(t) \/ ~comment[t[2]].deleted =>
                    Cardinality(UnreadLikes(u, t)) <= Cardinality(Likers(t) \ {u}) + erased
    BY DEF NoFarming, UserExists
  <2>1. Base /\ Foreign /\ Earned(u) /\ \A t \in Targets : Told(u, t)
    BY DEF FarmInv, Fair, LikesInv
  <2>2. user[u].xp <= user[u].granted + Owed(u, like)
    BY <2>1 DEF Earned
  <2>3. ASSUME NEW t \in Targets, PostTarget(t) \/ ~comment[t[2]].deleted
        PROVE  Cardinality(UnreadLikes(u, t)) <= Cardinality(Likers(t) \ {u}) + erased
    <3>1. Cardinality(UnreadLikes(u, t)) <= Cardinality(Mine(u, t)) + erased
      BY <2>1, <2>3 DEF Told, Closed
    <3>2. /\ Cardinality(Mine(u, t)) <= Cardinality(Likers(t) \ {u})
          /\ Cardinality(Likers(t) \ {u}) \in Nat
      BY <2>1, LikersMine
    <3>3. Cardinality(UnreadLikes(u, t)) \in Nat /\ Cardinality(Mine(u, t)) \in Nat /\ erased \in Nat
      BY <2>1, TellingFinite DEF Base, SiteOK
    <3> QED BY <3>1, <3>2, <3>3
  <2> QED BY <2>2, <2>3
<1> QED BY FarmInit, FarmStep, <1>1, PTL DEF Spec
=============================================================================
