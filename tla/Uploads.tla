------------------------------ MODULE Uploads -------------------------------
(***************************************************************************)
(* Uploaded files: the files of uploads/, the rows that name them (a       *)
(* message's file_path, a user's profile_picture), the block list and the  *)
(* quarantine, and the requests and commands that change a file and its    *)
(* row in two steps: upload, new profile picture, flask encrypt-legacy,    *)
(* flagging by an administrator, deletion of an account.                   *)
(*                                                                         *)
(* A file is stored as plaintext (a legacy one, or one being processed) or *)
(* as <name>.enc; a row names one of the two.  A process may die, or a     *)
(* handler raise, between any two steps: Fail.                             *)
(***************************************************************************)
EXTENDS Integers, FiniteSets

CONSTANTS
    Workers,   \* threads and commands at work
    Users,     \* accounts that are not administrators
    Pictures,  \* images, told apart by their perceptual hash
    NoImage,   \* the content of a file that is not an image
    MaxFile    \* bound on the files; file 1 is from before encryption at rest

Files == 1..MaxFile
Legacy == {1}
Forms == {"plain", "enc"}
NoUser == "nobody"

ASSUME UploadsAssumption ==
    /\ IsFiniteSet(Workers) /\ IsFiniteSet(Users) /\ Users # {}
    /\ NoImage \notin Pictures /\ NoUser \notin Users
    /\ MaxFile \in Nat \ {0}

VARIABLES
    disk,        \* file -> the forms of it that are in uploads/
    about,       \* file -> its kind, owner (of the picture or conversation), sender
                 \* (the owner, or an administrator: NoUser) and content
    ref,         \* file -> the form its row names, "detached", or "none"
    blocked,     \* block list (BlockedImageHash)
    quarantine,  \* files moved to instance/quarantine
    banned,      \* accounts banned for an upload
    gone,        \* accounts deleted
    job,         \* worker -> what it is doing, or Idle
    used,        \* how many files were ever stored
    cut,         \* history: files of a request that died between two steps
    dropped,     \* history: pictures removed for a new one, before its commit
    raced        \* history: files whose row changed under a request that had read it

state == <<disk, about, ref, blocked, quarantine, banned, gone, job, used>>
histories == <<cut, dropped, raced>>
vars == <<disk, about, ref, blocked, quarantine, banned, gone, job, used,
          cut, dropped, raced>>

-----------------------------------------------------------------------------
About == [kind: {"message", "picture"}, owner: Users, sender: Users \cup {NoUser},
          content: Pictures \cup {NoImage}]
Paths == Files \X (Forms \cup {"detached"})
Job == [op: {"upload", "legacy", "flag", "delete"},
        at: {"save", "screen", "ban", "seal", "remove", "swap", "commit", "move", "record", "unlink"},
        f: 0..MaxFile, u: Users \cup {NoUser}, list: SUBSET Paths, fresh: BOOLEAN]
Idle == [op |-> "idle", at |-> "idle", f |-> 0, u |-> NoUser, list |-> {}, fresh |-> FALSE]

Existing == 1..used
Named(f) == ref[f] \in Forms          \* some row names a path of f
Resolves(f) == Named(f) /\ ref[f] \in disk[f]
OwnedBy(u) == {f \in Existing : about[f].owner = u}
PictureOf(u) == {f \in OwnedBy(u) : about[f].kind = "picture" /\ Named(f)}
PathsOf(S) == {<<f, ref[f]>> : f \in {g \in S : ref[g] # "none"}}
FilesIn(list) == {p[1] : p \in list}
Working(f, w) == \E v \in Workers \ {w} : job[v].f = f

\* What the forms accept: a profile picture is an image and its owner's; an
\* attachment is any file, of the owner of the conversation or an administrator.
Uploadable(a) ==
    /\ a.kind = "picture" => a.content # NoImage /\ a.sender = a.owner
    /\ a.sender \in {a.owner, NoUser}

\* check_image: the perceptual hash is on the block list
Matches(f) == about[f].content \in blocked

\* _remove_upload_file and the end of _delete_user_and_data
Without(list) == [f \in Files |-> disk[f] \ {x \in Forms : <<f, x>> \in list}]

Start(w, j) == job' = [job EXCEPT ![w] = j]
Goto(w, at) == job' = [job EXCEPT ![w].at = at]
End(w) == job' = [job EXCEPT ![w] = Idle]

\* The flush of a new BlockedImageHash holds SQLite's write lock until the commit
WriteLockFree(w) == \A v \in Workers \ {w} : ~(job[v].at = "record" /\ job[v].fresh)

Init ==
    /\ \E a \in {b \in About : Uploadable(b) /\ b.content # NoImage} :
          about = [f \in Files |-> a]
    /\ disk = [f \in Files |-> IF f \in Legacy THEN {"plain"} ELSE {}]
    /\ ref = [f \in Files |-> IF f \in Legacy THEN "plain" ELSE "none"]
    /\ blocked = {} /\ quarantine = {} /\ banned = {} /\ gone = {}
    /\ job = [w \in Workers |-> Idle]
    /\ used = 1
    /\ cut = {} /\ dropped = {} /\ raced = {}

-----------------------------------------------------------------------------
(* Storing an upload: /chat, /upload_file, /admin/chat and /edit_profile.  *)

\* load_user and the guards of the form: a banned account sends nothing, but an
\* administrator may write to one.  edit_profile has read the old picture.
BeginUpload(w, a) ==
    /\ job[w] = Idle /\ used < MaxFile
    /\ Uploadable(a)
    /\ a.owner \notin gone /\ a.sender \notin banned
    /\ LET f == used + 1 IN
          /\ used' = f
          /\ about' = [about EXCEPT ![f] = a]
          /\ Start(w, [op |-> "upload", at |-> "save", f |-> f, u |-> a.sender, fresh |-> FALSE,
                       list |-> IF a.kind = "picture" THEN PathsOf(PictureOf(a.owner)) ELSE {}])
    /\ UNCHANGED <<disk, ref, blocked, quarantine, banned, gone, histories>>

\* _store_upload: the bytes go to a new name, whoever was deleted or banned since
Save(w) ==
    /\ job[w].at = "save"
    /\ disk' = [disk EXCEPT ![job[w].f] = {"plain"}]
    /\ Goto(w, IF about[job[w].f].content = NoImage THEN "seal" ELSE "screen")
    /\ UNCHANGED <<about, ref, blocked, quarantine, banned, gone, used, histories>>

\* screen_uploaded_image: a match goes to the quarantine
Refuse(w) ==
    /\ job[w].at = "screen" /\ Matches(job[w].f)
    /\ disk' = [disk EXCEPT ![job[w].f] = {}]
    /\ quarantine' = quarantine \cup {job[w].f}
    /\ Goto(w, "ban")
    /\ UNCHANGED <<about, ref, blocked, banned, gone, used, histories>>

\* The event and the ban of the author, unless an administrator, in one commit
Ban(w) ==
    /\ job[w].at = "ban" /\ WriteLockFree(w)
    /\ banned' = banned \cup ({job[w].u} \ (gone \cup {NoUser}))
    /\ End(w)
    /\ UNCHANGED <<disk, about, ref, blocked, quarantine, gone, used, histories>>

\* No match, or the check itself failed: "log it and let it pass".  Then
\* process_image_file: re-encoded, or not an image after all and removed.
Process(w) ==
    /\ job[w].at = "screen"
    /\ \/ Goto(w, "seal") /\ UNCHANGED disk
       \/ End(w) /\ disk' = [disk EXCEPT ![job[w].f] = {}]
    /\ UNCHANGED <<about, ref, blocked, quarantine, banned, gone, used, histories>>

\* Mutant: the ciphertext stays in its temporary file.
SealNothing(w) ==
    /\ job[w].at = "seal" /\ "plain" \in disk[job[w].f]
    /\ Goto(w, "remove")
    /\ UNCHANGED <<disk, about, ref, blocked, quarantine, banned, gone, used, histories>>

\* encrypt_upload_in_place up to os.replace: the ciphertext is complete on disk
Seal(w) ==
    /\ job[w].at = "seal" /\ "plain" \in disk[job[w].f]
    /\ disk' = [disk EXCEPT ![job[w].f] = @ \cup {"enc"}]
    /\ Goto(w, "remove")
    /\ UNCHANGED <<about, ref, blocked, quarantine, banned, gone, used, histories>>

\* Mutant: the plaintext is left beside its ciphertext.
RemoveNothing(w) ==
    /\ job[w].at = "remove" /\ "plain" \in disk[job[w].f]
    /\ Goto(w, IF job[w].list # {} THEN "swap" ELSE "commit")
    /\ UNCHANGED <<disk, about, ref, blocked, quarantine, banned, gone, used, histories>>

\* Mutant: a plaintext that is no longer there is no error.
RemoveIfThere(w) ==
    /\ job[w].at = "remove"
    /\ disk' = [disk EXCEPT ![job[w].f] = @ \ {"plain"}]
    /\ Goto(w, IF job[w].list # {} THEN "swap" ELSE "commit")
    /\ UNCHANGED <<about, ref, blocked, quarantine, banned, gone, used, histories>>

\* ... and its os.remove, which raises when there is nothing to remove
RemovePlain(w) ==
    /\ job[w].at = "remove" /\ "plain" \in disk[job[w].f]
    /\ disk' = [disk EXCEPT ![job[w].f] = @ \ {"plain"}]
    /\ Goto(w, IF job[w].list # {} THEN "swap" ELSE "commit")
    /\ UNCHANGED <<about, ref, blocked, quarantine, banned, gone, used, histories>>

\* edit_profile removes the file of the picture it had read
Swap(w) ==
    /\ job[w].at = "swap"
    /\ disk' = Without(job[w].list)
    /\ dropped' = dropped \cup FilesIn(job[w].list)
    /\ Goto(w, "commit")
    /\ UNCHANGED <<about, ref, blocked, quarantine, banned, gone, used, cut, raced>>

\* The row of f names its ciphertext; a user row has one picture.
NamingEnc(f) ==
    [g \in Files |->
        IF g = f THEN "enc"
        ELSE IF about[f].kind = "picture" /\ g \in PictureOf(about[f].owner) THEN "none"
        ELSE ref[g]]

\* f, if a deletion of its owner has read the rows already and will not notice:
\* it fails on a message it has not read, but not on a path that is another now.
MissedByDeletion(f) ==
    {g \in {f} : \E v \in Workers :
        /\ job[v].op = "delete" /\ job[v].at = "commit" /\ job[v].u = about[g].owner
        /\ about[g].kind = "picture" \/ g \in FilesIn(job[v].list)}

\* A new message is inserted whoever is left; an UPDATE needs its user row.
CommitUpload(w) ==
    LET f == job[w].f   u == about[f].owner IN
    /\ job[w].op = "upload" /\ job[w].at = "commit" /\ WriteLockFree(w)
    /\ about[f].kind = "picture" => u \notin gone
    /\ ref' = NamingEnc(f)
    /\ raced' = raced \cup MissedByDeletion(f)
                  \cup IF about[f].kind = "picture"
                       THEN FilesIn(PathsOf(PictureOf(u)) \ job[w].list) ELSE {}
    /\ End(w)
    /\ UNCHANGED <<disk, about, blocked, quarantine, banned, gone, used, cut, dropped>>

-----------------------------------------------------------------------------
(* flask encrypt-legacy: one row at a time.                                *)

\* _encrypt_stored_file takes up a plain path that exists and passes over others.
Pending(f) == ref[f] = "plain" /\ Resolves(f)

BeginLegacy(w, f) ==
    /\ job[w] = Idle
    /\ Pending(f)
    /\ Start(w, [Idle EXCEPT !.op = "legacy", !.at = "seal", !.f = f,
                             !.u = about[f].owner])
    /\ UNCHANGED <<disk, about, ref, blocked, quarantine, banned, gone, used, histories>>

\* Mutant: the new path is not saved.
CommitLegacyUnsaved(w) ==
    /\ job[w].op = "legacy" /\ job[w].at = "commit"
    /\ End(w)
    /\ UNCHANGED <<disk, about, ref, blocked, quarantine, banned, gone, used, histories>>

\* The UPDATE writes the new path whatever the row says now; a row that is
\* gone fails it.
CommitLegacy(w) ==
    LET f == job[w].f IN
    /\ job[w].op = "legacy" /\ job[w].at = "commit" /\ WriteLockFree(w)
    /\ IF about[f].kind = "picture" THEN job[w].u \notin gone ELSE ref[f] # "none"
    /\ ref' = NamingEnc(f)
    /\ raced' = raced \cup MissedByDeletion(f)
                  \cup IF about[f].kind = "picture" THEN PictureOf(job[w].u) \ {f} ELSE {}
    /\ End(w)
    /\ UNCHANGED <<disk, about, blocked, quarantine, banned, gone, used, cut, dropped>>

-----------------------------------------------------------------------------
(* Moderation: /admin/flag_image and the moderation page.                  *)

\* Mutant: a profile picture is flagged as if it were an attachment.
BeginFlagAny(w, f) ==
    /\ job[w] = Idle
    /\ Resolves(f)
    /\ Start(w, [op |-> "flag", at |-> "move", f |-> f, list |-> {<<f, ref[f]>>},
                 u |-> IF about[f].sender \in gone THEN NoUser ELSE about[f].sender,
                 fresh |-> FALSE])
    /\ UNCHANGED <<disk, about, ref, blocked, quarantine, banned, gone, used, histories>>

BeginFlag(w, f) ==
    /\ job[w] = Idle
    /\ about[f].kind = "message" /\ Resolves(f)
    /\ Start(w, [op |-> "flag", at |-> "move", f |-> f, list |-> {<<f, ref[f]>>},
                 u |-> IF about[f].sender \in gone THEN NoUser ELSE about[f].sender,
                 fresh |-> FALSE])
    /\ UNCHANGED <<disk, about, ref, blocked, quarantine, banned, gone, used, histories>>

\* The entry is flushed, then the file is moved to the quarantine.
Move(w) ==
    LET f == job[w].f IN
    /\ job[w].at = "move"
    /\ job[w].list \subseteq {<<f, x>> : x \in disk[f]}
    /\ about[f].content \notin blocked => WriteLockFree(w)
    /\ disk' = Without(job[w].list)
    /\ quarantine' = quarantine \cup {f}
    /\ job' = [job EXCEPT ![w].at = "record", ![w].fresh = about[f].content \notin blocked]
    /\ UNCHANGED <<about, ref, blocked, banned, gone, used, histories>>

\* The commit: the message loses its file and its author, unless an
\* administrator, is banned.
Record(w) ==
    LET f == job[w].f IN
    /\ job[w].at = "record" /\ WriteLockFree(w)
    /\ ref[f] # "none" /\ job[w].u \notin gone
    /\ blocked' = blocked \cup {about[f].content}
    /\ banned' = banned \cup ({job[w].u} \ {NoUser})
    /\ ref' = [ref EXCEPT ![f] = "detached"]
    /\ End(w)
    /\ UNCHANGED <<disk, about, quarantine, gone, used, histories>>

Unblock ==
    /\ \E p \in blocked : blocked' = blocked \ {p}
    /\ \A w \in Workers : WriteLockFree(w)
    /\ UNCHANGED <<disk, about, ref, quarantine, banned, gone, job, used, histories>>

Unban ==
    /\ \E u \in banned \ gone : banned' = banned \ {u}
    /\ \A w \in Workers : WriteLockFree(w)
    /\ UNCHANGED <<disk, about, ref, blocked, quarantine, gone, job, used, histories>>

-----------------------------------------------------------------------------
(* _delete_user_and_data.                                                  *)

\* Mutant: the profile picture is forgotten.
BeginDeleteMessages(w, u) ==
    /\ job[w] = Idle /\ u \notin gone
    /\ Start(w, [Idle EXCEPT !.op = "delete", !.at = "commit", !.u = u,
                             !.list = PathsOf({f \in OwnedBy(u) : about[f].kind = "message"})])
    /\ UNCHANGED <<disk, about, ref, blocked, quarantine, banned, gone, used, histories>>

BeginDelete(w, u) ==
    /\ job[w] = Idle /\ u \notin gone
    /\ Start(w, [Idle EXCEPT !.op = "delete", !.at = "commit", !.u = u,
                             !.list = PathsOf(OwnedBy(u))])
    /\ UNCHANGED <<disk, about, ref, blocked, quarantine, banned, gone, used, histories>>

\* A message inserted since the messages were read still needs its user row.
Unread(w) ==
    {f \in OwnedBy(job[w].u) \ FilesIn(job[w].list) :
        about[f].kind = "message" /\ ref[f] # "none"}

\* ... which is an IntegrityError and a rollback: the account stays, with its files.
CommitDeleteFails(w) ==
    /\ job[w].op = "delete" /\ job[w].at = "commit" /\ WriteLockFree(w)
    /\ Unread(w) # {}
    /\ End(w)
    /\ UNCHANGED <<disk, about, ref, blocked, quarantine, banned, gone, used, histories>>

\* The messages that were read are deleted, and the user row with its picture.
CommitDelete(w) ==
    LET u == job[w].u   listed == FilesIn(job[w].list) IN
    /\ job[w].op = "delete" /\ job[w].at = "commit" /\ WriteLockFree(w)
    /\ Unread(w) = {}
    /\ gone' = gone \cup {u}
    /\ ref' = [f \in Files |->
                  IF f \in listed \cup PictureOf(u) THEN "none" ELSE ref[f]]
    /\ raced' = raced \cup {f \in OwnedBy(u) : Working(f, w)}
    /\ Goto(w, "unlink")
    /\ UNCHANGED <<disk, about, blocked, quarantine, banned, used, cut, dropped>>

\* "Files only go once the database change is committed."
Unlink(w) ==
    /\ job[w].at = "unlink"
    /\ disk' = Without(job[w].list)
    /\ End(w)
    /\ UNCHANGED <<about, ref, blocked, quarantine, banned, gone, used, histories>>

-----------------------------------------------------------------------------
\* An exception (a missing file, a row that is gone, a full disk) or the death
\* of the process; an open transaction is rolled back, the files stay as they are.
Fail(w) ==
    /\ job[w] # Idle
    /\ cut' = cut \cup ({job[w].f} \ {0}) \cup FilesIn(job[w].list)
    /\ End(w)
    /\ UNCHANGED <<disk, about, ref, blocked, quarantine, banned, gone, used, dropped, raced>>

Step(w) ==
    \/ \E a \in About : BeginUpload(w, a)
    \/ Save(w) \/ Refuse(w) \/ Ban(w) \/ Process(w) \/ Seal(w) \/ RemovePlain(w) \/ Swap(w)
    \/ CommitUpload(w)
    \/ \E f \in Existing : BeginLegacy(w, f) \/ BeginFlag(w, f)
    \/ CommitLegacy(w) \/ Move(w) \/ Record(w)
    \/ \E u \in Users : BeginDelete(w, u)
    \/ CommitDelete(w) \/ CommitDeleteFails(w) \/ Unlink(w)
    \/ Fail(w)

Next == (\E w \in Workers : Step(w)) \/ Unblock \/ Unban

Spec == Init /\ [][Next]_vars

-----------------------------------------------------------------------------
(* Properties.                                                             *)

(* Types; only a message can lose its attachment and stay.                 *)
TypeOK ==
    /\ disk \in [Files -> SUBSET Forms]
    /\ about \in [Files -> About]
    /\ ref \in [Files -> Forms \cup {"none", "detached"}]
    /\ \A f \in Files : ref[f] = "detached" => about[f].kind = "message"
    /\ blocked \subseteq Pictures \cup {NoImage} /\ quarantine \subseteq Existing
    /\ banned \subseteq Users /\ gone \subseteq Users
    /\ job \in [Workers -> Job \cup {Idle}]
    /\ used \in Files
    /\ cut \cup dropped \cup raced \subseteq Existing

(* "A file is only replaced once its encrypted copy is written and verified"
   (cli.py:32): whatever dies and whoever races, the bytes of an attachment
   or picture that a row names are on disk in one form or in the quarantine,
   unless edit_profile removed a picture whose row was not replaced then.   *)
NoBytesLost ==
    \A f \in Existing :
        Named(f) => disk[f] # {} \/ f \in quarantine \cup dropped

(* The path a row names exists, except while a request works on that file,
   when it died there, or for the picture edit_profile has removed.        *)
RowsResolve ==
    \A f \in Existing : Named(f) =>
        \/ Resolves(f)
        \/ \E w \in Workers : job[w].f = f
        \/ f \in cut \cup dropped

(* "Idempotent and safe to run on every update" (cli.py:31): the row of a file
   from before encryption finds it, or else encrypt-legacy is at work on it or
   takes it up when it is run again; unless the file was quarantined or
   edit_profile replaced it.  An encrypt-legacy that dies before its commit
   refutes it; NoBytesLost and RowsResolve are what holds.                 *)
LegacyFound ==
    \A f \in Legacy : Named(f) =>
        \/ Resolves(f) \/ Pending(f)
        \/ \E w \in Workers : job[w].f = f
        \/ f \in quarantine \cup dropped

(* "every file is encrypted at rest" (_store_upload): an upload is never
   named in plaintext, and its plaintext is on disk only while a request
   works on it or when that request died.                                  *)
EncryptedAtRest ==
    \A f \in Existing \ Legacy :
        /\ ref[f] # "plain"
        /\ "plain" \in disk[f] => f \in cut \/ \E w \in Workers : job[w].f = f

(* "le fichier n'est plus servable" (flag_message_image): no row names a
   file that was quarantined and still finds it, also when encrypt-legacy
   was rewriting that file and row, or the flagging died half-way.         *)
FlaggedNotServed ==
    \A f \in quarantine : ~Resolves(f)

(* Private data is erased with the account (_delete_user_and_data): once its
   files were removed none is left and no row names one, except a file whose
   row was being changed meanwhile, a quarantined one, or one that a dead
   request left.  A message sent meanwhile makes the deletion fail instead.  *)
ErasedWithAccount ==
    \A f \in Existing : about[f].owner \in gone =>
        \/ disk[f] = {} /\ ~Named(f)
        \/ f \in raced \cup cut \cup quarantine
        \/ \E w \in Workers : job[w].at = "unlink" /\ f \in FilesIn(job[w].list)

=============================================================================
