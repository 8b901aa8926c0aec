------------------------------- MODULE Posts --------------------------------
(***************************************************************************)
(* Posts, their revisions and tags: creation, edition, and the publication *)
(* of due posts by the hook that runs before every request                 *)
(* (app/utils.py: publish_scheduled_posts).  Module Discussion adds what   *)
(* hangs on a post, deletes posts, and gives the specification.            *)
(*                                                                         *)
(* A request reads rows outside any transaction and commits one            *)
(* transaction later; an UPDATE writes the columns that differ from the    *)
(* row it loaded.                                                          *)
(***************************************************************************)
EXTENDS Integers, FiniteSets, FiniteSetsExt

CONSTANTS
    Workers,      \* threads that serve requests
    Users,        \* accounts
    Admins,       \* those that are administrators
    Tags,         \* tags a form may name
    Forms,        \* the post forms that are submitted
    MaxPost,      \* bound on post.id
    MaxTime,      \* bound on the clock
    MaxRequests,  \* bound on the requests of a behaviour
    Mixes         \* sets of operations; the requests of a behaviour are of one of them

PostIds == 1..MaxPost
NoId == 0
NoUser == "nobody"
NoDate == 0

(* The fields of the post form; is_draft follows from them.                *)
Form == [published: BOOLEAN, date: NoDate..MaxTime, tags: SUBSET Tags]
IsDraft(form) == ~form.published /\ form.date = NoDate
Publish == [published |-> TRUE, date |-> NoDate, tags |-> {}]

ASSUME PostsAssumption ==
    /\ IsFiniteSet(Workers) /\ IsFiniteSet(Users) /\ IsFiniteSet(Tags)
    /\ Forms \subseteq Form
    /\ Admins \subseteq Users /\ Admins # {} /\ NoUser \notin Users
    /\ MaxPost \in Nat \ {0} /\ MaxTime \in Nat /\ MaxRequests \in Nat

VARIABLES
    post,       \* table post: id -> row, or NoPost
    revision,   \* table revision
    tag,        \* table tag: the tags that exist
    clock,
    job,        \* worker -> its request in flight, or Idle
    started,    \* how many requests ever began
    mix,        \* the operations of this behaviour
    overtaken   \* history: some request wrote a row that another request had
                \* changed after it was loaded (a lost update)

postVars == <<post, revision, tag>>
siteVars == <<clock, mix>>

-----------------------------------------------------------------------------
(* text stands for title and content, and is the number of the request that
   saved them.  asked (the last form saved) and past (the texts the post ever
   had) are history.                                                       *)
PostRow ==
    [author: Users, published: BOOLEAN, draft: BOOLEAN, date: NoDate..MaxTime,
     text: Nat, likes: Nat, asked: Form, past: SUBSET Nat]
NoPost ==
    [author |-> NoUser, published |-> FALSE, draft |-> FALSE, date |-> NoDate,
     text |-> 0, likes |-> 0, asked |-> Publish, past |-> {}]

Revision == [post: PostIds, version: Nat \ {0}, text: Nat]

NewPost(author, form, n) ==
    [author |-> author, published |-> form.published, draft |-> IsDraft(form),
     date |-> form.date, text |-> n, likes |-> 0, asked |-> form, past |-> {n}]

PostExists(p) == post[p] # NoPost
ExistingPosts == {p \in PostIds : PostExists(p)}
Revisions(p) == {r \in revision : r.post = p}
Visible(u, p) == PostExists(p) /\ (post[p].published \/ u \in Admins)

\* SQLite: the highest id plus one
NextId(ids) == Max(ids \cup {0}) + 1

-----------------------------------------------------------------------------
(* Requests.  number tells them apart, post is the post they are about, more is
   what the handler has read.                                              *)

Idle == [op |-> "idle"]
Job(op, at, u, p, more) ==
    [op |-> op, at |-> at, by |-> u, number |-> started + 1, post |-> p, more |-> more]

Begin(w, op, at, u, p, more) ==
    /\ job[w] = Idle
    /\ op \in mix /\ started < MaxRequests
    /\ job' = [job EXCEPT ![w] = Job(op, at, u, p, more)]
    /\ started' = started + 1

At(w, op, at) == job[w] # Idle /\ job[w].op = op /\ job[w].at = at
End(w) == job' = [job EXCEPT ![w] = Idle]

\* An UPDATE of a row loaded as seen: the columns set to something else
Merged(row, seen, new) ==
    [c \in DOMAIN row |-> IF new[c] # seen[c] THEN new[c] ELSE row[c]]

InitPosts ==
    /\ \E a \in Admins : post = [p \in PostIds |->
          IF p = 1 THEN NewPost(a, Publish, 0) ELSE NoPost]
    /\ revision = {} /\ tag = {} /\ clock = 0
    /\ job = [w \in Workers |-> Idle] /\ started = 0
    /\ mix \in Mixes
    /\ overtaken = FALSE

Tick ==
    /\ clock < MaxTime
    /\ clock' = clock + 1
    /\ UNCHANGED <<postVars, job, started, mix, overtaken>>

-----------------------------------------------------------------------------
(* manage_posts and apply_post_taxonomy.                                   *)

\* The first tag the form names is looked up before anything is written.
BeginCreate(w, u, form) ==
    /\ u \in Admins
    /\ Begin(w, "create", "commit", u, NoId, [form |-> form, new |-> form.tags \ tag])
    /\ UNCHANGED <<postVars, siteVars, overtaken>>

\* A tag found missing that exists by now breaks UNIQUE: nothing is saved.
CommitCreate(w) ==
    LET j == job[w]
        p == NextId(ExistingPosts)
    IN  /\ At(w, "create", "commit")
        /\ IF j.more.new \cap tag # {}
           THEN End(w) /\ UNCHANGED postVars
           ELSE /\ p \in PostIds
                /\ post' = [post EXCEPT ![p] = NewPost(j.by, j.more.form, j.number)]
                /\ tag' = tag \cup j.more.form.tags
                /\ job' = [job EXCEPT ![w].at = "reward", ![w].post = p]
                /\ UNCHANGED revision
        /\ UNCHANGED <<siteVars, started, overtaken>>

-----------------------------------------------------------------------------
(* edit_post.                                                              *)

BeginEdit(w, u, p, form) ==
    /\ u \in Admins /\ PostExists(p)
    /\ Begin(w, "edit", "commit", u, p,
             [form |-> form, seen |-> post[p],
              version |-> Max({r.version : r \in Revisions(p)} \cup {0}) + 1])
    /\ UNCHANGED <<postVars, siteVars, overtaken>>

\* Mutant: an empty date field leaves the date as it is.
EditedKeepingDate(seen, form, n) ==
    [seen EXCEPT !.published = form.published, !.draft = IsDraft(form),
                 !.date = IF form.date = NoDate THEN @ ELSE form.date, !.text = n]

\* What the form assigns to the row loaded
Edited(seen, form, n) ==
    [seen EXCEPT !.published = form.published, !.draft = IsDraft(form),
                 !.date = form.date, !.text = n]

\* Mutant: the revision is made after the new content was assigned.
ArchivedTooLate(seen, row) == row.text

\* The content that goes into the new revision
Archived(seen, row) == seen.text

\* One transaction, from the flush of the revision on; an UPDATE of a post that
\* is gone fails.  Tags are looked up inside the transaction.
CommitEdit(w) ==
    LET j == job[w]
        p == j.post
        seen == j.more.seen
        row == Merged(post[p], seen, Edited(seen, j.more.form, j.number))
    IN  /\ At(w, "edit", "commit")
        /\ End(w)
        /\ IF ~PostExists(p) THEN UNCHANGED <<postVars, overtaken>>
           ELSE /\ post' = [post EXCEPT ![p] = [row EXCEPT !.asked = j.more.form,
                                                           !.past = @ \cup {j.number}]]
                /\ revision' = revision \cup
                      {[post |-> p, version |-> j.more.version, text |-> Archived(seen, row)]}
                /\ tag' = tag \cup j.more.form.tags
                /\ overtaken' = (overtaken \/ post[p].text # seen.text
                                           \/ post[p].published # seen.published)
        /\ UNCHANGED <<siteVars, started>>

-----------------------------------------------------------------------------
(* publish_scheduled_posts, before the handler of any request.  It is a
   request of its own here: when the handler reads, the clock may have moved. *)

Due(row) == ~row.published /\ row.date # NoDate /\ row.date <= clock

BeginHook(w) ==
    LET due == {p \in ExistingPosts : Due(post[p])} IN
        /\ due # {}
        /\ Begin(w, "hook", "commit", NoUser, NoId, [p \in due |-> post[p]])
        /\ UNCHANGED <<postVars, siteVars, overtaken>>

\* All of them or, when one is gone, none: the flush fails and so does the
\* request, whatever it asked for.
CommitHook(w) ==
    LET seen == job[w].more
        due == DOMAIN seen
    IN  /\ At(w, "hook", "commit")
        /\ End(w)
        /\ IF due \subseteq ExistingPosts
           THEN /\ post' = [p \in PostIds |->
                      IF p \notin due THEN post[p]
                      ELSE Merged(post[p], seen[p],
                                  [seen[p] EXCEPT !.published = TRUE, !.draft = FALSE])]
                /\ overtaken' = (overtaken \/ \E p \in due : post[p].text # seen[p].text)
           ELSE UNCHANGED <<post, overtaken>>
        /\ UNCHANGED <<revision, tag, siteVars, started>>

-----------------------------------------------------------------------------
(* Properties.                                                             *)

(* "Un article sans date (brouillon) n'est jamais publie automatiquement", nor
   a scheduled one before its date: a post that is public was published by the
   last form saved for it, or the date of that form has come - unless the hook
   and an edit had loaded the post at the same time.                       *)
OnlyDuePublished ==
    \A p \in ExistingPosts : LET row == post[p] IN
        \/ overtaken
        \/ row.published =>
              \/ row.asked.published
              \/ row.asked.date # NoDate /\ row.asked.date <= clock /\ ~row.draft

(* The history of a post is complete: every text it ever had is the current
   one or kept in a revision, and the versions are numbered without a gap -
   unless two edits had loaded the post at the same time.                  *)
RevisionsComplete ==
    \A p \in ExistingPosts :
        \/ overtaken
        \/ /\ post[p].past = {post[p].text} \cup {r.text : r \in Revisions(p)}
           /\ {r.version : r \in Revisions(p)} = 1..Cardinality(Revisions(p))

=============================================================================
