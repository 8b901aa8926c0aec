------------------------------ MODULE Accounts -------------------------------
(***************************************************************************)
(* Accounts, roles and sessions: table user (app/models.py), the session   *)
(* and remember-me cookies Flask-Login checks on every request             *)
(* (app/__init__.py: load_user, app/routes.py: enforce_ban,                *)
(* enforce_password_change), and the handlers that create, promote,        *)
(* demote, ban and delete accounts or renew their sessions.                *)
(*                                                                         *)
(* A request is handled by one of the threads of the worker.  It loads     *)
(* rows with SELECTs outside any transaction, decides on what it loaded,   *)
(* and then commits one transaction whose UPDATEs write the columns it     *)
(* changed, computed from the values it loaded.  Requests of different     *)
(* browsers interleave between these steps.                                *)
(***************************************************************************)
EXTENDS Integers, FiniteSets

CONSTANTS
    Browsers,     \* cookie jars; each has at most one request in flight
    MaxId,        \* bound on user.id
    FirstAdmins,  \* ids of the administrators at the start
    FirstMembers, \* ids of the other accounts at the start
    Provisioned,  \* ids of the accounts that must change their password
    Newcomers,    \* bound on the accounts created later
    MaxVersion    \* bound on session_version

Ids == 1..MaxId
NoId == 0

ASSUME AccountsAssumption ==
    /\ IsFiniteSet(Browsers)
    /\ MaxId \in Nat /\ Newcomers \in Nat /\ MaxVersion \in Nat
    /\ FirstAdmins \subseteq Ids /\ FirstAdmins # {}
    /\ FirstMembers \subseteq Ids /\ FirstMembers \cap FirstAdmins = {}
    /\ Provisioned \subseteq Ids

VARIABLES
    user,     \* table user: id -> row, or NoUser
    cookie,   \* browser -> the session it presents, or NoCookie
    job,      \* browser -> its request in flight, or Idle
    created,  \* the highest uid given: no two accounts ever have the same, and
              \* those of the start have their ids
    revoked,  \* history: browsers whose session was ended by somebody else's
              \* log-out-everywhere, password change, role change, ban or deletion
    written,  \* history: <<uid, version>> of every rotation committed
    doubtful  \* history: those of them that do not tell sessions apart (see Rotate)

vars == <<user, cookie, job, created, revoked, written, doubtful>>

-----------------------------------------------------------------------------
(* Rows, cookies, requests.                                                *)

UserRow == [uid: Nat, admin: BOOLEAN, banned: BOOLEAN, mustChange: BOOLEAN, version: Nat]
NoUser == [uid |-> 0, admin |-> FALSE, banned |-> FALSE, mustChange |-> FALSE, version |-> 0]

NewUser(uid, admin, mustChange) ==
    [uid |-> uid, admin |-> admin, banned |-> FALSE, mustChange |-> mustChange, version |-> 0]

Cookie == [id: Ids, version: Nat, uid: Nat]
NoCookie == [id |-> NoId, version |-> 0, uid |-> 0]

RenewOps == {"changePassword", "logoutEverywhere"}     \* end with login_user
TargetOps == {"demote", "promote", "ban", "unban", "deleteUser"}   \* @admin_required
Ops == RenewOps \cup TargetOps \cup {"deleteSelf", "login"}

\* counted is a history: the administrators there were when the request looked for them
Job == [op: Ops, at: {"load", "commit", "respond"}, id: Ids, target: Ids, seen: UserRow,
        counted: SUBSET Ids]
Idle == [op |-> "idle"]

Exists(i) == user[i] # NoUser
Existing == {i \in Ids : Exists(i)}
Admins == {i \in Existing : user[i].admin}

\* load_user: the session id is "<id>:<session_version>"
Authenticates(b) ==
    /\ cookie[b] # NoCookie
    /\ Exists(cookie[b].id)
    /\ user[cookie[b].id].version = cookie[b].version

RotatingOps == RenewOps \cup {"demote", "promote", "ban"}

\* Everybody who holds a session of account i, or is about to get one
Holders(i) == {b \in Browsers :
    \/ cookie[b].id = i
    \/ job[b].op = "login" /\ job[b].id = i}

-----------------------------------------------------------------------------
(* The start of an authenticated request: load_user, enforce_ban,          *)
(* enforce_password_change, then the handler's own guards.                 *)

MayBegin(b) == job[b] = Idle /\ Authenticates(b)

\* enforce_ban: the session of a banned account ends at its next request.
TurnedOut(b) ==
    /\ MayBegin(b)
    /\ user[cookie[b].id].banned
    /\ cookie' = [cookie EXCEPT ![b] = NoCookie]
    /\ revoked' = revoked \ {b}
    /\ UNCHANGED <<user, job, created, written, doubtful>>

Admitted(b, op) ==
    LET me == user[cookie[b].id] IN
        /\ MayBegin(b)
        /\ ~me.banned
        /\ me.mustChange => op = "changePassword"

Start(b, op, at, target) ==
    job' = [job EXCEPT ![b] = [op |-> op, at |-> at, id |-> cookie[b].id,
                               target |-> target, seen |-> user[cookie[b].id],
                               counted |-> {}]]

\* /account/password and /account/logout-everywhere (also /totp/setup and
\* /totp/disable, which end the same way): the row loaded here is written later.
BeginRenewal(b, op) ==
    /\ Admitted(b, op)
    /\ Start(b, op, "commit", cookie[b].id)
    /\ UNCHANGED <<user, cookie, created, revoked, written, doubtful>>

\* admin_required on the row loaded for the session
BeginTarget(b, op, t) ==
    /\ Admitted(b, op)
    /\ user[cookie[b].id].admin
    /\ Start(b, op, "load", t)
    /\ UNCHANGED <<user, cookie, created, revoked, written, doubtful>>

\* /account/delete: password checked, another admin looked for
BeginDeleteSelf(b) ==
    /\ Admitted(b, "deleteSelf")
    /\ Start(b, "deleteSelf", "load", cookie[b].id)
    /\ UNCHANGED <<user, cookie, created, revoked, written, doubtful>>

-----------------------------------------------------------------------------
(* The handler loads its target and decides.                               *)

Finish(b) == job' = [job EXCEPT ![b] = Idle]

\* The row of the target as this request sees it: its own row is the one it
\* already holds (identity map), another row is read now.
Loaded(b) == IF job[b].target = job[b].id THEN job[b].seen ELSE user[job[b].target]

\* Mutant: an administrator is demoted whether or not another one is left.
AllowedUncounted(b) ==
    CASE job[b].op = "demote"     -> Loaded(b).admin
      [] job[b].op = "deleteUser" -> job[b].target # job[b].id /\ ~Loaded(b).admin
      [] job[b].op = "ban"        -> ~Loaded(b).admin
      [] job[b].op = "deleteSelf" -> Loaded(b).admin => Admins \ {job[b].id} # {}
      [] OTHER                    -> TRUE

Allowed(b) ==
    CASE job[b].op = "demote"     -> Loaded(b).admin /\ Cardinality(Admins) > 1
      [] job[b].op = "deleteUser" -> job[b].target # job[b].id /\ ~Loaded(b).admin
      [] job[b].op = "ban"        -> ~Loaded(b).admin
      [] job[b].op = "deleteSelf" -> Loaded(b).admin => Admins \ {job[b].id} # {}
      [] OTHER                    -> TRUE

Decide(b) ==
    /\ job[b] # Idle /\ job[b].at = "load"
    /\ IF Loaded(b) # NoUser /\ Allowed(b)
       THEN job' = [job EXCEPT ![b].at = "commit", ![b].seen = Loaded(b),
                               ![b].counted = Admins]
       ELSE Finish(b)
    /\ UNCHANGED <<user, cookie, created, revoked, written, doubtful>>

-----------------------------------------------------------------------------
(* The transaction.  An UPDATE writes the columns the request changed with  *)
(* regard to the row it had loaded; on a row that is gone it is an error.   *)

Set(new, old, now) == IF new = old THEN now ELSE new

\* rotate_session_token(), invalidate_other_sessions()
Rotated(b) == job[b].seen.version + 1

\* Mutant: the new password is stored, the open sessions are kept.
RenewedUnrotated(b, i) ==
    [user[i] EXCEPT
        !.version = IF job[b].op = "changePassword" THEN @ ELSE Rotated(b),
        !.mustChange = IF job[b].op = "changePassword"
                       THEN Set(FALSE, job[b].seen.mustChange, @) ELSE @]

Renewed(b, i) ==
    [user[i] EXCEPT
        !.version = Rotated(b),
        !.mustChange = IF job[b].op = "changePassword"
                       THEN Set(FALSE, job[b].seen.mustChange, @) ELSE @]

Updated(b, i) ==
    CASE job[b].op = "demote"  -> [user[i] EXCEPT !.admin = FALSE, !.version = Rotated(b)]
      [] job[b].op = "promote" -> [user[i] EXCEPT !.admin = Set(TRUE, job[b].seen.admin, @),
                                                  !.version = Rotated(b)]
      [] job[b].op = "ban"     -> [user[i] EXCEPT !.banned = Set(TRUE, job[b].seen.banned, @),
                                                  !.version = Rotated(b)]
      [] job[b].op = "unban"   -> [user[i] EXCEPT !.banned = Set(FALSE, job[b].seen.banned, @)]
      [] OTHER                 -> Renewed(b, i)

\* History of a rotation: its number tells the sessions it ends from the one it
\* opens unless an earlier rotation of the account has written the same number,
\* or the session it is requested from had itself been ended.
Rotate(b) ==
    LET number == <<user[job[b].target].uid, Rotated(b)>> IN
        /\ written' = written \cup {number}
        /\ doubtful' = IF number \in written \/ b \in revoked
                       THEN doubtful \cup {number} ELSE doubtful

Committing(b, ops) == job[b].op \in ops /\ job[b].at = "commit"

\* Mutant: the error leaves the request without an answer.
CommitHangs(b) ==
    /\ Committing(b, RenewOps \cup {"demote", "promote", "ban", "unban"})
    /\ ~Exists(job[b].target)
    /\ job' = [job EXCEPT ![b].at = "rollback"]
    /\ UNCHANGED <<user, cookie, created, revoked, written, doubtful>>

\* The row is gone: StaleDataError, rollback, 500
CommitFails(b) ==
    /\ Committing(b, RenewOps \cup {"demote", "promote", "ban", "unban"})
    /\ ~Exists(job[b].target)
    /\ Finish(b)
    /\ UNCHANGED <<user, cookie, created, revoked, written, doubtful>>

CommitRenewal(b) ==
    LET i == job[b].target IN
    /\ Committing(b, RenewOps)
    /\ Exists(i) /\ Rotated(b) <= MaxVersion
    /\ user' = [user EXCEPT ![i] = Updated(b, i)]
    /\ job' = [job EXCEPT ![b].at = "respond"]
    /\ revoked' = revoked \cup (Holders(i) \ {b})
    /\ Rotate(b)
    /\ UNCHANGED <<cookie, created>>

CommitTarget(b) ==
    LET i == job[b].target IN
    /\ Committing(b, {"demote", "promote", "ban", "unban"})
    /\ Exists(i) /\ Rotated(b) <= MaxVersion
    /\ user' = [user EXCEPT ![i] = Updated(b, i)]
    /\ Finish(b)
    /\ IF job[b].op = "unban"
       THEN UNCHANGED <<revoked, written, doubtful>>
       ELSE revoked' = revoked \cup Holders(i) /\ Rotate(b)
    /\ UNCHANGED <<cookie, created>>

\* _delete_user_and_data; a row already gone is only a warning.  The browser
\* that deletes its own account is logged out.
CommitDelete(b) ==
    LET i == job[b].target IN
    /\ Committing(b, {"deleteUser", "deleteSelf"})
    /\ user' = [user EXCEPT ![i] = NoUser]
    /\ Finish(b)
    /\ IF job[b].op = "deleteSelf"
       THEN /\ cookie' = [cookie EXCEPT ![b] = NoCookie]
            /\ revoked' = (revoked \cup Holders(i)) \ {b}
       ELSE /\ revoked' = revoked \cup Holders(i)
            /\ UNCHANGED cookie
    /\ UNCHANGED <<created, written, doubtful>>

\* get_id; uid is the account the person logged in to, which the code does not keep
SessionOf(i, row) == [id |-> i, version |-> row.version, uid |-> row.uid]

\* _start_fresh_session, login_user: the commit expired the loaded row, so the
\* cookie carries the version the table holds now, which another rotation may
\* have written since.
Respond(b) ==
    LET i == job[b].id IN
    /\ job[b].op \in RenewOps /\ job[b].at = "respond"
    /\ cookie' = IF Exists(i)
                 THEN [cookie EXCEPT ![b] =
                          [id |-> i, version |-> user[i].version, uid |-> @.uid]]
                 ELSE cookie
    /\ doubtful' = IF Exists(i) /\ user[i].version # Rotated(b)
                   THEN doubtful \cup {<<user[i].uid, user[i].version>>} ELSE doubtful
    /\ Finish(b)
    /\ UNCHANGED <<user, created, revoked, written>>

-----------------------------------------------------------------------------
(* Logging in and out, creating accounts.                                  *)

\* POST /login with the right password of an account that is not suspended
BeginLogin(b, i) ==
    /\ job[b] = Idle
    /\ ~Authenticates(b)
    /\ Exists(i) /\ ~user[i].banned
    /\ job' = [job EXCEPT ![b] = [op |-> "login", at |-> "respond", id |-> i,
                                  target |-> i, seen |-> user[i], counted |-> {}]]
    /\ cookie' = [cookie EXCEPT ![b] = NoCookie]
    /\ revoked' = revoked \ {b}
    /\ UNCHANGED <<user, created, written, doubtful>>

\* bcrypt takes its time: the cookie carries the version read before it ran.
FinishLogin(b) ==
    /\ job[b].op = "login"
    /\ cookie' = [cookie EXCEPT ![b] = SessionOf(job[b].id, job[b].seen)]
    /\ Finish(b)
    /\ UNCHANGED <<user, created, revoked, written, doubtful>>

Logout(b) ==
    /\ job[b] = Idle
    /\ cookie[b] # NoCookie
    /\ cookie' = [cookie EXCEPT ![b] = NoCookie]
    /\ revoked' = revoked \ {b}
    /\ UNCHANGED <<user, job, created, written, doubtful>>

\* INTEGER PRIMARY KEY without AUTOINCREMENT: the largest id in use, plus one
IsNextId(i) ==
    /\ \A j \in Existing : j < i
    /\ i = 1 \/ i - 1 \in Existing

Create(admin) ==
    /\ created < MaxId + Newcomers
    /\ \E i \in Ids :
        /\ IsNextId(i)
        /\ user' = [user EXCEPT ![i] = NewUser(created + 1, admin, FALSE)]
    /\ created' = created + 1
    /\ UNCHANGED <<cookie, job, revoked, written, doubtful>>

Register == Create(FALSE)
CreateAdmin == Create(TRUE)    \* create_admin.py

-----------------------------------------------------------------------------
Init ==
    /\ user = [i \in Ids |->
                  IF i \in FirstAdmins \cup FirstMembers
                  THEN NewUser(i, i \in FirstAdmins, i \in Provisioned)
                  ELSE NoUser]
    /\ cookie = [b \in Browsers |-> NoCookie]
    /\ job = [b \in Browsers |-> Idle]
    /\ created = MaxId
    /\ revoked = {} /\ written = {} /\ doubtful = {}

Step(b) ==
    \/ TurnedOut(b) \/ Logout(b)
    \/ \E i \in Ids : BeginLogin(b, i)
    \/ FinishLogin(b)
    \/ \E op \in RenewOps : BeginRenewal(b, op)
    \/ \E op \in TargetOps, t \in Ids : BeginTarget(b, op, t)
    \/ BeginDeleteSelf(b)
    \/ Decide(b)
    \/ CommitFails(b) \/ CommitRenewal(b) \/ CommitTarget(b) \/ CommitDelete(b)
    \/ Respond(b)

Next ==
    \/ \E b \in Browsers : Step(b)
    \/ Register
    \/ CreateAdmin

Spec == Init /\ [][Next]_vars

-----------------------------------------------------------------------------
(* Properties.                                                             *)

TypeOK ==
    /\ user \in [Ids -> UserRow]
    /\ cookie \in [Browsers -> Cookie \cup {NoCookie}]
    /\ job \in [Browsers -> Job \cup {Idle}]
    /\ created \in Nat
    /\ revoked \subseteq Browsers
    /\ written \subseteq Nat \X Nat
    /\ doubtful \subseteq Nat \X Nat

(* "The last admin cannot delete itself" (SECURITY.md:27), "last admin can no
   longer be demoted/deleted" (SECURITY.md:163): the site always has one.  *)
AtLeastOneAdmin == Admins # {}

\* The request counted an administrator who no longer is one, or removes an
\* account it had seen as no administrator.
Overtaken(j) == j.seen.admin => ~(j.counted \subseteq Admins)

(* What demote_user and delete_own_account do guarantee, however many threads
   run them: the last administrator only goes in the commit of a request that
   was overtaken, between its count and its commit, by another one.          *)
LastAdminGoesOvertaken ==
    [][Admins # {} /\ Admins' = {} =>
           \E b \in Browsers :
               /\ Committing(b, {"demote", "deleteUser", "deleteSelf"})
               /\ Overtaken(job[b]) /\ job'[b] = Idle]_vars

(* "Password change, role change and 'log out everywhere' invalidate other
   sessions" (README.md:221): a browser whose session was ended this way does
   not get back to the account it was on until somebody logs in on it.
   Requests that overlap refute it; EndedStayOut is what holds.            *)
RevokedStayOut ==
    \A b \in revoked : Authenticates(b) => user[cookie[b].id].uid # cookie[b].uid

(* What the session numbers do guarantee, however the requests of any number of
   browsers overlap (app/services.py: invalidate_other_sessions, app/models.py:
   rotate_session_token, get_id): a browser whose session was ended gets back to
   its account only with a number two rotations have written, or one that came
   out of such a session.                                                    *)
EndedStayOut ==
    \A b \in revoked :
        Authenticates(b) /\ user[cookie[b].id].uid = cookie[b].uid
            => <<cookie[b].uid, cookie[b].version>> \in doubtful

(* A session opened for one account never authenticates another one: "a
   per-user session version is embedded in the session id" (SECURITY.md:20). *)
SessionOwner ==
    \A b \in Browsers : Authenticates(b) => user[cookie[b].id].uid = cookie[b].uid

=============================================================================
