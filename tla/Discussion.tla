----------------------------- MODULE Discussion -----------------------------
(***************************************************************************)
(* What hangs on posts: comments and replies, likes, experience, badges    *)
(* and notifications; the deletion of posts, comments and accounts, which  *)
(* has to clean up after all of them since SQLite enforces no foreign key. *)
(***************************************************************************)
EXTENDS Posts

CONSTANTS
    MaxComment,   \* bound on comment.id
    PerLevel,     \* experience points per level (100)
    BadgeAt,      \* comments for the badge (10)
    Badges,       \* the table of badges at the start: a subset of BadgeNames
    Holders       \* the accounts that hold the badge then

CommentIds == 1..MaxComment
BadgeNames == {"legacy", "current"}   \* French names were renamed to English

ASSUME DiscussionAssumption ==
    /\ MaxComment \in Nat /\ PerLevel \in Nat \ {0} /\ BadgeAt \in Nat \ {0}
    /\ Badges \in {{}, {"legacy"}, {"current"}}
    /\ Holders \subseteq Users
    /\ Badges = {} => Holders = {}

VARIABLES
    comment,   \* table comment: id -> row, or NoComment
    like,      \* table like
    notice,    \* table notification: its rows
    user,      \* table user: name -> row, or Gone
    badge,     \* table badge: the names of the one badge modelled
    erased     \* history: like rows that went with their account

threadVars == <<comment, like, notice, user, badge, erased>>
vars == <<postVars, siteVars, job, started, overtaken, threadVars>>

-----------------------------------------------------------------------------
(* Rows.  uid is the number of the request that wrote the comment, which tells
   it from a later one with the same id; stray (history): when the row was
   written, something it refers to was already gone - its handler had loaded it
   before - or the comment it answers was taken for another with its id.   *)

CommentRow == [uid: Nat, post: PostIds, author: Users \cup {NoUser}, parent: CommentIds \cup {NoId},
               deleted: BOOLEAN, text: {"written", "edited", "erased"}, likes: Nat,
               stray: BOOLEAN]
NoComment == [uid |-> 0, post |-> NoId, author |-> NoUser, parent |-> NoId, deleted |-> FALSE,
              text |-> "erased", likes |-> 0, stray |-> FALSE]

(* to (history): the account this like was rewarded to.                    *)
Targets == ({"post"} \X PostIds) \cup ({"comment"} \X CommentIds)
Like == [id: Nat \ {0}, by: Users, target: Targets, to: Users \cup {NoUser}]

Notice == [id: Nat \ {0}, to: Users, type: {"comment", "reply", "like", "badge"},
           post: PostIds \cup {NoId}, comment: CommentIds \cup {NoId},
           read: BOOLEAN, stray: BOOLEAN]

(* granted and awards (history): the points the account keeps whatever becomes
   of likes, and how often it earned the badge.                            *)
UserRow == [xp: Nat, level: Nat, badges: SUBSET BadgeNames, granted: Nat, awards: Nat]
Gone == [xp |-> 0, level |-> 0, badges |-> {}, granted |-> 0, awards |-> 0]

CommentExists(c) == comment[c] # NoComment
ExistingComments == {c \in CommentIds : CommentExists(c)}
UserExists(u) == u \in Users /\ user[u] # Gone
CommentsOf(p) == {c \in ExistingComments : comment[c].post = p}
Replies(c) == {d \in ExistingComments : comment[d].parent = c}
LikesOf(t) == {l \in like : l.target = t}
Likers(t) == {l.by : l \in LikesOf(t)}

\* The columns of an account, and an UPDATE of it that leaves the history right
Columns(row) == <<row.xp, row.level, row.badges>>
Rewritten(row, seen, new) ==
    [Merged(row, seen, new) EXCEPT !.granted = row.granted + (new.granted - seen.granted),
                                   !.awards = row.awards + (new.awards - seen.awards)]

PostTarget(t) == t[1] = "post"
PostLike == 5
CommentLike == 2
Worth(t) == IF PostTarget(t) THEN PostLike ELSE CommentLike

\* What these likes are worth to account u
Owed(u, likes) ==
    LET to == {l \in likes : l.to = u} IN
        PostLike * Cardinality({l \in to : PostTarget(l.target)})
            + CommentLike * Cardinality({l \in to : ~PostTarget(l.target)})

\* add_experience
Gain(row, points) ==
    LET xp == row.xp + points IN
        [row EXCEPT !.xp = xp, !.level = Max({@, xp \div PerLevel + 1})]

Granted(row, points) == [Gain(row, points) EXCEPT !.granted = @ + points]

\* check_and_award_badges for one badge, "10_comments"
BadgePoints == 30
Awarded(row, u) ==
    IF badge \subseteq row.badges \/ Cardinality({c \in ExistingComments : comment[c].author = u}) < BadgeAt
    THEN row
    ELSE [Granted(row, BadgePoints) EXCEPT !.badges = @ \cup badge, !.awards = @ + 1]

\* History: likes that vanish without being revoked leave their points.
Kept(users, likes) ==
    [u \in Users |-> IF users[u] = Gone THEN Gone
                     ELSE [users[u] EXCEPT !.granted = @ + Owed(u, likes)]]

Init ==
    /\ InitPosts
    /\ comment = [c \in CommentIds |-> NoComment]
    /\ like = {} /\ notice = {} /\ erased = 0
    /\ badge = Badges
    /\ user = [u \in Users |->
          [xp |-> 0, level |-> 1, granted |-> 0,
           badges |-> IF u \in Holders THEN Badges ELSE {},
           awards |-> IF u \in Holders THEN 1 ELSE 0]]

\* The steps of Posts
Posting(w) ==
    /\ \/ \E u \in Users : UserExists(u) /\
             \E f \in Forms : \/ BeginCreate(w, u, f)
                             \/ \E p \in PostIds : BeginEdit(w, u, p, f)
       \/ CommitCreate(w) \/ CommitEdit(w) \/ BeginHook(w) \/ CommitHook(w)
    /\ UNCHANGED threadVars

-----------------------------------------------------------------------------
(* Comments and replies: one transaction inserts the comment, the rest of  *)
(* the handler reads rows again and rewards the author in another one.     *)

BeginComment(w, u, p) ==
    /\ UserExists(u) /\ Visible(u, p)
    /\ Begin(w, "comment", "commit", u, p, [parent |-> NoId])
    /\ UNCHANGED <<postVars, siteVars, overtaken, threadVars>>

BeginReply(w, u, p, c) ==
    /\ UserExists(u) /\ Visible(u, p)
    /\ CommentExists(c) /\ comment[c].post = p /\ ~comment[c].deleted
    /\ Begin(w, "reply", "commit", u, p, [parent |-> c])
    /\ UNCHANGED <<postVars, siteVars, overtaken, threadVars>>

\* No foreign key is enforced: the row goes in whatever was deleted meanwhile.
Insert(w) ==
    LET j == job[w]
        c == NextId(ExistingComments)
    IN  /\ At(w, "comment", "commit") \/ At(w, "reply", "commit")
        /\ c \in CommentIds
        /\ comment' = [comment EXCEPT ![c] =
              [uid |-> j.number, post |-> j.post, author |-> j.by, parent |-> j.more.parent, deleted |-> FALSE,
               text |-> "written", likes |-> 0,
               stray |-> \/ ~UserExists(j.by) \/ ~PostExists(j.post)
                         \/ j.more.parent # NoId /\ comment[j.more.parent].post # j.post]]
        /\ job' = [job EXCEPT ![w].at = "reward", ![w].more = [parent |-> j.more.parent, comment |-> c]]
        /\ UNCHANGED <<postVars, siteVars, started, overtaken, like, notice, user, badge, erased>>

\* Who is told: the author of the post, or of the comment replied to
Addressee(j) ==
    IF j.op = "reply" THEN comment[j.more.parent].author ELSE post[j.post].author

News(to, type, p, c) == [to |-> to, type |-> type, post |-> p, comment |-> c]

\* After the commit everything is loaded again; what is gone is an error, and
\* the handler ends without reward.
LoadReward(w) ==
    LET j == job[w]
        found == /\ UserExists(j.by)
                 /\ j.op = "comment" => PostExists(j.post)
                 /\ j.op = "reply" => CommentExists(j.more.parent)
        to == Addressee(j)
        told == j.op \in {"comment", "reply"} /\ to \notin {j.by, NoUser}
    IN  /\ job[w] # Idle /\ job[w].at = "reward"
        /\ IF ~found \/ (told /\ ~(CommentExists(j.more.comment) /\ PostExists(j.post))) THEN End(w)
           ELSE job' = [job EXCEPT ![w].at = "award",
                           ![w].more = [row |-> user[j.by],
                                        news |-> IF ~told THEN {}
                                                 ELSE {News(to, j.op, j.post, j.more.comment)}]]
        /\ UNCHANGED <<postVars, siteVars, started, overtaken, threadVars>>

Points(op) == CASE op = "create" -> 10 [] op = "comment" -> 3 [] op = "reply" -> 2

\* Something n refers to is gone
Dangles(n) ==
    \/ ~UserExists(n.to)
    \/ n.post # NoId /\ ~PostExists(n.post)
    \/ n.comment # NoId /\ ~CommentExists(n.comment)

\* The row for news n: an INSERT, whatever n refers to
NextNotice == NextId({n.id : n \in notice})
NewNotice(id, n) ==
    [id |-> id, to |-> n.to, type |-> n.type, post |-> n.post, comment |-> n.comment,
     read |-> FALSE, stray |-> Dangles(n)]

\* The flush of the points takes the lock; the badges are looked at under it.
CommitReward(w) ==
    LET j == job[w]
        row == Awarded(Granted(j.more.row, Points(j.op)), j.by)
        told == {NewNotice(NextNotice, n) : n \in j.more.news}
    IN  /\ job[w] # Idle /\ job[w].at = "award"
        /\ End(w)
        /\ IF ~UserExists(j.by) THEN UNCHANGED <<user, notice, overtaken>>
           ELSE /\ user' = [user EXCEPT ![j.by] = Rewritten(@, j.more.row, row)]
                /\ overtaken' = (overtaken \/ Columns(user[j.by]) # Columns(j.more.row))
                /\ notice' = notice \cup told \cup
                      (IF row.awards > j.more.row.awards
                       THEN {NewNotice(NextNotice + Cardinality(told), News(j.by, "badge", NoId, NoId))}
                       ELSE {})
        /\ UNCHANGED <<postVars, siteVars, started, comment, like, badge, erased>>

-----------------------------------------------------------------------------
(* edit_comment and delete_comment.                                        *)

MayChange(u, c) == UserExists(u) /\ CommentExists(c) /\ (u \in Admins \/ comment[c].author = u)

\* Mutant: a deleted comment can still be edited.
BeginEditCommentAny(w, u, c) ==
    /\ MayChange(u, c) /\ PostExists(comment[c].post)
    /\ Begin(w, "editComment", "commit", u, comment[c].post, [comment |-> c, row |-> comment[c]])
    /\ UNCHANGED <<postVars, siteVars, overtaken, threadVars>>

BeginEditComment(w, u, c) ==
    /\ MayChange(u, c) /\ PostExists(comment[c].post) /\ ~comment[c].deleted
    /\ Begin(w, "editComment", "commit", u, comment[c].post, [comment |-> c, row |-> comment[c]])
    /\ UNCHANGED <<postVars, siteVars, overtaken, threadVars>>

CommitEditComment(w) ==
    LET j == job[w]
        c == j.more.comment
    IN  /\ At(w, "editComment", "commit")
        /\ End(w)
        /\ IF ~CommentExists(c) THEN UNCHANGED <<comment, overtaken>>
           ELSE /\ comment' = [comment EXCEPT ![c].text = "edited"]
                /\ overtaken' = (overtaken \/ comment[c].deleted # j.more.row.deleted
                                           \/ comment[c].uid # j.more.row.uid)
        /\ UNCHANGED <<postVars, siteVars, started, like, notice, user, badge, erased>>

BeginDeleteComment(w, u, c) ==
    /\ MayChange(u, c)
    /\ Begin(w, "deleteComment", "commit", u, NoId, [comment |-> c])
    /\ UNCHANGED <<postVars, siteVars, overtaken, threadVars>>

\* The first statement deletes the likes and takes the lock: whether there are
\* replies is looked up under it.  A comment with replies keeps its place.
CommitDeleteComment(w) ==
    LET c == job[w].more.comment
        likes == LikesOf(<<"comment", c>>)
    IN  /\ At(w, "deleteComment", "commit")
        /\ End(w)
        /\ IF Replies(c) # {}
           THEN IF CommentExists(c)
                THEN /\ comment' = [comment EXCEPT ![c].deleted = TRUE, ![c].text = "erased"]
                     /\ like' = like \ likes /\ user' = Kept(user, likes)
                     /\ UNCHANGED notice
                ELSE UNCHANGED <<comment, like, user, notice>>
           ELSE /\ comment' = [comment EXCEPT ![c] = NoComment]
                /\ like' = like \ likes /\ user' = Kept(user, likes)
                /\ notice' = {n \in notice : n.comment # c}
        /\ UNCHANGED <<postVars, siteVars, started, overtaken, badge, erased>>

-----------------------------------------------------------------------------
(* delete_post: _delete_post_and_children.                                 *)

\* The comments are looked up before the first statement that takes the lock.
BeginDeletePost(w, u, p) ==
    /\ UserExists(u) /\ u \in Admins /\ PostExists(p)
    /\ Begin(w, "deletePost", "commit", u, p, [comments |-> CommentsOf(p)])
    /\ UNCHANGED <<postVars, siteVars, overtaken, threadVars>>

\* Notifications stay, detached from what goes.  Comments go by their ids: one
\* may belong to another post by now.
Detached(n, p, comments) ==
    [n EXCEPT !.post = IF @ = p THEN NoId ELSE @, !.comment = IF @ \in comments THEN NoId ELSE @]

DeletePost(p, comments) ==
    LET likes == LikesOf(<<"post", p>>) \cup UNION {LikesOf(<<"comment", c>>) : c \in comments}
    IN  /\ post' = [post EXCEPT ![p] = NoPost]
        /\ revision' = revision \ Revisions(p)
        /\ comment' = [c \in CommentIds |-> IF c \in comments THEN NoComment
                           ELSE [comment[c] EXCEPT !.stray = @ \/ comment[c].parent \in comments]]
        /\ like' = like \ likes /\ user' = Kept(user, likes)
        /\ notice' = {Detached(n, p, comments) : n \in notice}
        /\ overtaken' = (overtaken \/ \E c \in comments : CommentExists(c) /\ comment[c].post # p)

\* Mutant: a comment that is not in the list does not stop the deletion.
CommitDeletePostAnyway(w) ==
    /\ At(w, "deletePost", "commit")
    /\ End(w)
    /\ IF PostExists(job[w].post) THEN DeletePost(job[w].post, job[w].more.comments)
       ELSE UNCHANGED <<post, revision, comment, like, user, notice, overtaken>>
    /\ UNCHANGED <<tag, siteVars, started, badge, erased>>

\* A comment that came in meanwhile would lose its post, which is NOT NULL: the
\* deletion is rolled back.  So it is when the post itself is gone.
CommitDeletePost(w) ==
    LET p == job[w].post IN
        /\ At(w, "deletePost", "commit")
        /\ End(w)
        /\ IF PostExists(p) /\ CommentsOf(p) \subseteq job[w].more.comments
           THEN DeletePost(p, job[w].more.comments)
           ELSE UNCHANGED <<post, revision, comment, like, user, notice, overtaken>>
        /\ UNCHANGED <<tag, siteVars, started, badge, erased>>

-----------------------------------------------------------------------------
(* The part of _delete_user_and_data about posts and what hangs on them;   *)
(* by an administrator, or by the owner.  The heir takes the posts.        *)

BeginDeleteUser(w, u, heir) ==
    /\ UserExists(u) /\ UserExists(heir) /\ heir \in Admins \ {u}
    /\ Begin(w, "deleteUser", "commit", u, NoId, [heir |-> heir])
    /\ UNCHANGED <<postVars, siteVars, overtaken, threadVars>>

\* Mutant: the counters beside the likes are forgotten.
UncountedKept(n, t, gone) == n

\* likes_count without the likes that go
Uncounted(n, t, gone) == n - Cardinality({l \in gone : l.target = t})

CommitDeleteUser(w) ==
    LET u == job[w].by
        gone == {l \in like : l.by = u}
    IN  /\ At(w, "deleteUser", "commit")
        /\ End(w)
        /\ comment' = [c \in CommentIds |-> IF ~CommentExists(c) THEN NoComment ELSE
              [comment[c] EXCEPT !.author = IF @ = u THEN NoUser ELSE @,
                                 !.likes = Max({0, Uncounted(@, <<"comment", c>>, gone)})]]
        /\ post' = [p \in PostIds |-> IF ~PostExists(p) THEN NoPost ELSE
              [post[p] EXCEPT !.author = IF @ = u THEN job[w].more.heir ELSE @,
                              !.likes = Max({0, Uncounted(@, <<"post", p>>, gone)})]]
        /\ like' = like \ gone
        /\ erased' = erased + Cardinality(gone)
        /\ notice' = {n \in notice : n.to # u}
        /\ user' = [Kept(user, gone) EXCEPT ![u] = Gone]
        /\ UNCHANGED <<revision, tag, siteVars, started, overtaken, badge>>

-----------------------------------------------------------------------------
(* like_post and like_comment: the same request gives a like and takes it  *)
(* back.  The account of the author is loaded in the transaction.          *)

TargetExists(t) == IF PostTarget(t) THEN PostExists(t[2]) ELSE CommentExists(t[2])
TargetPost(t) == IF PostTarget(t) THEN t[2] ELSE comment[t[2]].post
TargetLikes(t) == IF PostTarget(t) THEN post[t[2]].likes ELSE comment[t[2]].likes
TargetAuthor(t) == IF PostTarget(t) THEN post[t[2]].author ELSE comment[t[2]].author

BeginLike(w, u, t) ==
    /\ UserExists(u) /\ TargetExists(t) /\ Visible(u, TargetPost(t))
    /\ Begin(w, "like", "commit", u, TargetPost(t),
             [target |-> t, likes |-> TargetLikes(t), author |-> TargetAuthor(t),
              given |-> {l \in LikesOf(t) : l.by = u}])
    /\ UNCHANGED <<postVars, siteVars, overtaken, threadVars>>

SetLikes(t, n) ==
    IF PostTarget(t)
    THEN post' = [post EXCEPT ![t[2]].likes = n] /\ UNCHANGED comment
    ELSE comment' = [comment EXCEPT ![t[2]].likes = n] /\ UNCHANGED post

LikeNews(t, p, to) == News(to, "like", p, IF PostTarget(t) THEN NoId ELSE t[2])

About(n, t) == IF PostTarget(t) THEN n.post = t[2] /\ n.comment = NoId ELSE n.comment = t[2]

\* The unread notifications of likes of t
UnreadLikes(u, t) ==
    {n \in notice : n.to = u /\ n.type = "like" /\ ~n.read /\ About(n, t)}
Latest(S) == {n \in S : \A m \in S : m.id <= n.id}

\* Whom the like of j rewards, if anybody
Rewarded(j) == IF j.more.author \in {j.by, NoUser} THEN {} ELSE {j.more.author}

\* The columns of the target that a like depends on
AsLoaded(j) ==
    LET t == j.more.target IN
        TargetLikes(t) = j.more.likes /\ TargetAuthor(t) = j.more.author /\ TargetPost(t) = j.post

\* Rolled back when the like exists by now (UNIQUE), its target is gone, or the
\* author is.
GiveLike(w) ==
    LET j == job[w]
        t == j.more.target
    IN  /\ At(w, "like", "commit") /\ j.more.given = {}
        /\ End(w)
        /\ IF \/ j.by \in Likers(t) \/ ~TargetExists(t)
              \/ \E a \in Rewarded(j) : ~UserExists(a)
           THEN UNCHANGED <<post, comment, like, user, notice, overtaken>>
           ELSE /\ SetLikes(t, j.more.likes + 1)
                /\ like' = like \cup {[id |-> NextId({l.id : l \in like}), by |-> j.by, target |-> t,
                                      to |-> IF Rewarded(j) = {} THEN NoUser ELSE j.more.author]}
                /\ user' = [u \in Users |-> IF u \in Rewarded(j) THEN Gain(user[u], Worth(t))
                                            ELSE user[u]]
                /\ notice' = notice \cup
                      {NewNotice(NextNotice, LikeNews(t, j.post, a)) : a \in Rewarded(j)}
                /\ overtaken' = (overtaken \/ ~AsLoaded(j))
        /\ UNCHANGED <<revision, tag, siteVars, started, badge, erased>>

\* Mutant: a like taken back is worth its points for ever.
RevokedButPoints(a, t) ==
    /\ user' = user
    /\ notice' = notice \ Latest(UnreadLikes(a, t))

\* _revoke_like_reward: the points, and the latest unread notification
Revoked(a, t) ==
    /\ user' = [user EXCEPT ![a].xp = Max({0, @ - Worth(t)})]
    /\ notice' = notice \ Latest(UnreadLikes(a, t))

\* The like goes by its id; the row loaded may be gone, and its id given again.
TakeLike(w) ==
    LET j == job[w]
        t == j.more.target
        n == Max({0, j.more.likes - 1})
    IN  /\ At(w, "like", "commit") /\ j.more.given # {}
        /\ End(w)
        /\ IF ~TargetExists(t) /\ n # j.more.likes
           THEN UNCHANGED <<post, comment, like, user, notice, overtaken>>
           ELSE /\ IF n # j.more.likes THEN SetLikes(t, n) ELSE UNCHANGED <<post, comment>>
                /\ like' = {l \in like : \A g \in j.more.given : l.id # g.id}
                /\ IF \E a \in Rewarded(j) : UserExists(a)
                   THEN Revoked(j.more.author, t) ELSE UNCHANGED <<user, notice>>
                /\ overtaken' = (overtaken \/ TargetLikes(t) # j.more.likes \/ ~(j.more.given \subseteq like))
        /\ UNCHANGED <<revision, tag, siteVars, started, badge, erased>>

\* mark_notification_read, mark_all_notifications_read
MarkRead(u, S) ==
    /\ UserExists(u) /\ "markRead" \in mix /\ started < MaxRequests
    /\ started' = started + 1
    /\ S # {} /\ \A n \in S : n.to = u /\ ~n.read
    /\ notice' = (notice \ S) \cup {[n EXCEPT !.read = TRUE] : n \in S}
    /\ UNCHANGED <<postVars, siteVars, job, overtaken, comment, like, user, badge, erased>>

-----------------------------------------------------------------------------
(* init_badges: _rename_legacy_badges, then the missing ones are created.  *)

BeginInitBadges(w, u) ==
    /\ UserExists(u) /\ u \in Admins
    /\ Begin(w, "initBadges", "commit", u, NoId, [badge |-> badge, user |-> user])
    /\ UNCHANGED <<postVars, siteVars, overtaken, threadVars>>

\* Mutant: the badge is renamed, the lists of the users are not.
RenamedInTableOnly(row) == row

\* Lists of users who do not hold the badge stay as they are.
Renamed(row) == IF row.badges = {} THEN row ELSE [row EXCEPT !.badges = {"current"}]

\* Mutant: the old name stays in the table.
UnrenamedTable(seen, table) == table

RenamedTable(seen, table) ==
    IF "legacy" \in seen /\ "current" \notin seen THEN {"current"} ELSE table

\* The flush of a renamed badge takes the lock before the query for the
\* accounts: they are read under it, except that the administrator's own row
\* stays as load_user loaded it.
AccountsRead(j) ==
    LET flushed == "legacy" \in j.more.badge /\ "current" \notin j.more.badge
    IN  [u \in Users |-> IF flushed /\ (u # j.by \/ ~UserExists(u)) THEN user[u] ELSE j.more.user[u]]

RenameBadges(w) ==
    LET seen == AccountsRead(job[w])
        changed == {u \in Users : seen[u] # Gone /\ Renamed(seen[u]) # seen[u]}
    IN  /\ At(w, "initBadges", "commit")
        /\ IF \E u \in changed : ~UserExists(u)
           THEN End(w) /\ UNCHANGED <<badge, user, overtaken>>
           ELSE /\ badge' = RenamedTable(job[w].more.badge, badge)
                /\ user' = [u \in Users |-> IF u \notin changed THEN user[u] ELSE
                      Rewritten(user[u], seen[u], Renamed(seen[u]))]
                /\ overtaken' = (overtaken \/ \E u \in Users : user[u].badges # seen[u].badges)
                /\ job' = [job EXCEPT ![w].at = "create"]
        /\ UNCHANGED <<postVars, siteVars, started, comment, like, notice, erased>>

CreateBadges(w) ==
    /\ At(w, "initBadges", "create")
    /\ badge' = badge \cup {"current"}
    /\ End(w)
    /\ UNCHANGED <<postVars, siteVars, started, overtaken, comment, like, notice, user, erased>>

-----------------------------------------------------------------------------
Discussing(w) ==
    \/ \E u \in Users, p \in PostIds :
          \/ BeginComment(w, u, p) \/ BeginDeletePost(w, u, p)
          \/ \E c \in CommentIds : BeginReply(w, u, p, c)
    \/ \E u \in Users, c \in CommentIds : BeginEditComment(w, u, c) \/ BeginDeleteComment(w, u, c)
    \/ \E u \in Users, t \in Targets : BeginLike(w, u, t)
    \/ \E u \in Users, heir \in Admins : BeginDeleteUser(w, u, heir)
    \/ \E u \in Users : BeginInitBadges(w, u)
    \/ Insert(w) \/ LoadReward(w) \/ CommitReward(w)
    \/ CommitEditComment(w) \/ CommitDeleteComment(w) \/ CommitDeletePost(w) \/ CommitDeleteUser(w)
    \/ GiveLike(w) \/ TakeLike(w)
    \/ RenameBadges(w) \/ CreateBadges(w)

Next ==
    \/ \E w \in Workers : Posting(w) \/ Discussing(w)
    \/ \E u \in Users, S \in SUBSET notice : MarkRead(u, S)
    \/ Tick /\ UNCHANGED threadVars

Spec == Init /\ [][Next]_vars

-----------------------------------------------------------------------------
(* Properties.                                                             *)

(* Types; the keys of likes and notifications are unique; one badge.       *)
TypeOK ==
    /\ post \in [PostIds -> PostRow \cup {NoPost}]
    /\ revision \subseteq Revision /\ tag \subseteq Tags /\ clock \in 0..MaxTime
    /\ started \in 0..MaxRequests /\ overtaken \in BOOLEAN
    /\ comment \in [CommentIds -> CommentRow \cup {NoComment}]
    /\ like \subseteq Like
    /\ \A k, l \in like : k.id = l.id \/ (k.by = l.by /\ k.target = l.target) => k = l
    /\ notice \subseteq Notice /\ \A m, n \in notice : m.id = n.id => m = n
    /\ user \in [Users -> UserRow \cup {Gone}]
    /\ badge \subseteq BadgeNames /\ Cardinality(badge) <= 1

(* Deletions clean up: whatever a comment or a notification referred to when
   it was written (its post, the comment replied to, its author or reader) is
   still there, or the reference was cleared.  Only rows of handlers that had
   loaded what was deleted before they wrote can point nowhere, and replies to
   a comment that was deleted in place of another with its id.             *)
ReferencesResolve ==
    /\ \A c \in ExistingComments : LET row == comment[c] IN
          row.stray \/ /\ PostExists(row.post)
                       /\ row.author = NoUser \/ UserExists(row.author)
                       /\ row.parent # NoId => comment[row.parent].post = row.post
    /\ \A n \in notice : n.stray \/ ~Dangles(n)

(* likes_count agrees with the likes, unless two requests had loaded the
   same count; a deleted comment keeps the count it had.                   *)
LikesCounted ==
    \A t \in Targets :
        \/ overtaken \/ ~TargetExists(t)
        \/ ~PostTarget(t) /\ comment[t[2]].deleted
        \/ TargetLikes(t) = Cardinality(LikesOf(t))

(* "Without this, like/unlike in a loop gave unlimited XP and one notification
   per cycle": points beyond those granted for something else are worth the
   likes that exist, and there is no more than one unread notification for a
   like that exists or went with its account.                              *)
NoFarming ==
    \/ overtaken
    \/ \A u \in Users : UserExists(u) =>
          /\ user[u].xp <= user[u].granted + Owed(u, like)
          /\ \A t \in Targets :
                PostTarget(t) \/ ~comment[t[2]].deleted =>
                    Cardinality(UnreadLikes(u, t)) <= Cardinality(Likers(t) \ {u}) + erased

(* The text of a deleted comment is erased for good, unless an edit had
   loaded the comment before.                                              *)
ErasedStaysErased ==
    \A c \in ExistingComments : overtaken \/ (comment[c].deleted => comment[c].text = "erased")

(* "so nobody loses a badge or earns the same one twice", renaming included,
   unless two requests had loaded the account at the same time.            *)
BadgeOnce ==
    \A u \in Users : overtaken \/ user[u].awards <= 1

=============================================================================
