--------------------------- MODULE Accounts_proofs ---------------------------
(* Proofs about Accounts, for every set of browsers, every number of accounts
   and every bound.                                                          *)
EXTENDS Accounts, FiniteSetTheorems, TLAPS

USE DEF Ids

LEMMA NoUserRow == NoUser \in UserRow
BY DEF NoUser, UserRow

LEMMA JobFields ==
    ASSUME NEW j \in Job \cup {Idle}, j.op # "idle"
    PROVE  /\ j \in Job
           /\ j.op \in Ops /\ j.at \in {"load", "commit", "respond"}
           /\ j.id \in Ids /\ j.target \in Ids /\ j.seen \in UserRow
BY DEF Job, Idle

LEMMA BusyFields ==
    ASSUME NEW j \in Job \cup {Idle}, j # Idle
    PROVE  j.op # "idle" /\ j.op \in Ops
BY DEF Job, Ops, RenewOps, TargetOps

(* A browser that authenticates presents a cookie of an account.             *)
LEMMA AuthenticCookie ==
    ASSUME TypeOK, NEW b \in Browsers, Authenticates(b)
    PROVE  cookie[b] \in Cookie /\ cookie[b].id \in Ids /\ user[cookie[b].id] \in UserRow
BY DEF TypeOK, Authenticates, Cookie

LEMMA StartJob ==
    ASSUME TypeOK, NEW b \in Browsers, Authenticates(b), NEW op \in Ops,
           NEW at \in {"load", "commit"}, NEW t \in Ids, Start(b, op, at, t)
    PROVE  job' \in [Browsers -> Job \cup {Idle}]
<1>1. user[cookie[b].id] \in UserRow /\ cookie[b].id \in Ids
  BY AuthenticCookie
<1>2. [op |-> op, at |-> at, id |-> cookie[b].id,
       target |-> t, seen |-> user[cookie[b].id], counted |-> {}] \in Job
  BY <1>1 DEF Job
<1> QED BY <1>2 DEF Start, TypeOK

LEMMA FinishJob ==
    ASSUME TypeOK, NEW b \in Browsers, Finish(b)
    PROVE  job' \in [Browsers -> Job \cup {Idle}]
BY DEF TypeOK, Finish

LEMMA TypeInit == Init => TypeOK
<1> SUFFICES ASSUME Init PROVE TypeOK
  OBVIOUS
<1>1. user \in [Ids -> UserRow]
  BY AccountsAssumption DEF Init, UserRow, NoUser, NewUser
<1>2. created \in Nat
  BY AccountsAssumption DEF Init
<1> QED BY <1>1, <1>2 DEF Init, TypeOK

LEMMA UpdatedRow ==
    ASSUME TypeOK, NEW b \in Browsers, NEW i \in Ids, job[b].op # "idle"
    PROVE  Updated(b, i) \in UserRow
<1>1. user[i] \in UserRow /\ job[b].seen \in UserRow
  BY JobFields DEF TypeOK
<1>2. Rotated(b) \in Nat
  BY <1>1 DEF Rotated, UserRow
<1> QED BY <1>1, <1>2 DEF Updated, Renewed, Set, UserRow

LEMMA RotateType ==
    ASSUME TypeOK, NEW b \in Browsers, job[b].op # "idle", Rotate(b)
    PROVE  written' \subseteq Nat \X Nat /\ doubtful' \subseteq Nat \X Nat
<1>1. job[b].target \in Ids /\ job[b].seen.version \in Nat
  BY JobFields DEF TypeOK, UserRow
<1>2. <<user[job[b].target].uid, Rotated(b)>> \in Nat \X Nat
  BY <1>1 DEF TypeOK, UserRow, Rotated
<1> QED BY <1>2 DEF Rotate, TypeOK

LEMMA TypeStep == TypeOK /\ [Next]_vars => TypeOK'
<1> SUFFICES ASSUME TypeOK, [Next]_vars PROVE TypeOK'
  OBVIOUS
<1>1. ASSUME NEW b \in Browsers, TurnedOut(b) PROVE TypeOK'
  BY <1>1 DEF TypeOK, TurnedOut
<1>2. ASSUME NEW b \in Browsers, Logout(b) PROVE TypeOK'
  BY <1>2 DEF TypeOK, Logout
<1>3. ASSUME NEW b \in Browsers, NEW i \in Ids, BeginLogin(b, i) PROVE TypeOK'
  <2>1. [op |-> "login", at |-> "respond", id |-> i, target |-> i, seen |-> user[i],
         counted |-> {}] \in Job
    BY DEF Job, Ops, TypeOK
  <2> QED BY <1>3, <2>1 DEF TypeOK, BeginLogin
<1>4. ASSUME NEW b \in Browsers, FinishLogin(b) PROVE TypeOK'
  <2>1. SessionOf(job[b].id, job[b].seen) \in Cookie
    BY <1>4, JobFields DEF FinishLogin, SessionOf, Cookie, UserRow, TypeOK
  <2> QED BY <1>4, <2>1, FinishJob DEF TypeOK, FinishLogin
<1>5. ASSUME NEW b \in Browsers, NEW op \in RenewOps, BeginRenewal(b, op) PROVE TypeOK'
  <2>1. Authenticates(b) /\ op \in Ops /\ cookie[b].id \in Ids
    BY <1>5, AuthenticCookie DEF BeginRenewal, Admitted, MayBegin, Ops
  <2> QED BY <1>5, <2>1, StartJob DEF TypeOK, BeginRenewal
<1>6. ASSUME NEW b \in Browsers, NEW op \in TargetOps, NEW t \in Ids, BeginTarget(b, op, t)
      PROVE  TypeOK'
  <2>1. Authenticates(b) /\ op \in Ops
    BY <1>6 DEF BeginTarget, Admitted, MayBegin, Ops
  <2> QED BY <1>6, <2>1, StartJob DEF TypeOK, BeginTarget
<1>7. ASSUME NEW b \in Browsers, BeginDeleteSelf(b) PROVE TypeOK'
  <2>1. Authenticates(b) /\ "deleteSelf" \in Ops /\ cookie[b].id \in Ids
    BY <1>7, AuthenticCookie DEF BeginDeleteSelf, Admitted, MayBegin, Ops
  <2> QED BY <1>7, <2>1, StartJob DEF TypeOK, BeginDeleteSelf
<1>8. ASSUME NEW b \in Browsers, Decide(b) PROVE TypeOK'
  <2>1. job[b] \in Job
    BY <1>8 DEF Decide, TypeOK
  <2>2. Loaded(b) \in UserRow
    BY <2>1 DEF Loaded, TypeOK, Job
  <2>3. [job[b] EXCEPT !.at = "commit", !.seen = Loaded(b), !.counted = Admins] \in Job
    BY <2>1, <2>2 DEF Job, Admins, Existing
  <2> QED BY <1>8, <2>3, FinishJob DEF TypeOK, Decide
<1>9. ASSUME NEW b \in Browsers, CommitFails(b) PROVE TypeOK'
  BY <1>9, FinishJob DEF TypeOK, CommitFails
<1>10. ASSUME NEW b \in Browsers, CommitRenewal(b) PROVE TypeOK'
  <2>1. job[b].op # "idle" /\ job[b] \in Job /\ job[b].target \in Ids
    BY <1>10, JobFields DEF CommitRenewal, Committing, RenewOps, TypeOK
  <2>2. Updated(b, job[b].target) \in UserRow
    BY <2>1, UpdatedRow
  <2>3. [job[b] EXCEPT !.at = "respond"] \in Job
    BY <2>1 DEF Job
  <2>4. revoked' \subseteq Browsers
    BY <1>10 DEF CommitRenewal, TypeOK, Holders
  <2>5. written' \subseteq Nat \X Nat /\ doubtful' \subseteq Nat \X Nat
    BY <1>10, <2>1, RotateType DEF CommitRenewal
  <2> QED BY <1>10, <2>1, <2>2, <2>3, <2>4, <2>5 DEF TypeOK, CommitRenewal
<1>11. ASSUME NEW b \in Browsers, CommitTarget(b) PROVE TypeOK'
  <2>1. job[b].op # "idle" /\ job[b].target \in Ids
    BY <1>11, JobFields DEF CommitTarget, Committing, TypeOK
  <2>2. Updated(b, job[b].target) \in UserRow
    BY <2>1, UpdatedRow
  <2>3. revoked' \subseteq Browsers
    BY <1>11 DEF CommitTarget, TypeOK, Holders
  <2>4. written' \subseteq Nat \X Nat /\ doubtful' \subseteq Nat \X Nat
    BY <1>11, <2>1, RotateType DEF CommitTarget, TypeOK
  <2> QED BY <1>11, <2>1, <2>2, <2>3, <2>4, FinishJob DEF TypeOK, CommitTarget
<1>12. ASSUME NEW b \in Browsers, CommitDelete(b) PROVE TypeOK'
  <2>1. revoked' \subseteq Browsers
    BY <1>12 DEF CommitDelete, TypeOK, Holders
  <2>2. cookie' \in [Browsers -> Cookie \cup {NoCookie}]
    BY <1>12 DEF CommitDelete, TypeOK
  <2>3. user' \in [Ids -> UserRow]
    BY <1>12, NoUserRow DEF CommitDelete, TypeOK
  <2> QED BY <1>12, <2>1, <2>2, <2>3, FinishJob DEF TypeOK, CommitDelete
<1>13. ASSUME NEW b \in Browsers, Respond(b) PROVE TypeOK'
  <2>1. job[b].id \in Ids
    BY <1>13, JobFields DEF Respond, RenewOps, TypeOK
  <2>2. user[job[b].id].version \in Nat
    BY <2>1 DEF TypeOK, UserRow
  <2>3. [id |-> job[b].id, version |-> user[job[b].id].version, uid |-> cookie[b].uid]
          \in Cookie
    BY <2>1, <2>2 DEF TypeOK, Cookie, NoCookie
  <2>4. doubtful' \subseteq Nat \X Nat
    <3>1. <<user[job[b].id].uid, user[job[b].id].version>> \in Nat \X Nat
      BY <2>1 DEF TypeOK, UserRow
    <3> QED BY <1>13, <3>1 DEF Respond, TypeOK
  <2> QED BY <1>13, <2>3, <2>4, FinishJob DEF TypeOK, Respond
<1>14. ASSUME NEW admin \in BOOLEAN, Create(admin) PROVE TypeOK'
  <2>1. NewUser(created + 1, admin, FALSE) \in UserRow
    BY DEF NewUser, UserRow, TypeOK
  <2>2. user' \in [Ids -> UserRow]
    <3>1. PICK i \in Ids : user' = [user EXCEPT ![i] = NewUser(created + 1, admin, FALSE)]
      BY <1>14 DEF Create
    <3> QED BY <2>1, <3>1 DEF TypeOK
  <2>3. created' \in Nat /\ UNCHANGED <<cookie, job, revoked, written, doubtful>>
    BY <1>14 DEF Create, TypeOK
  <2> QED BY <2>2, <2>3 DEF TypeOK
<1>15. CASE UNCHANGED vars
  BY <1>15 DEF TypeOK, vars
<1> QED
  BY <1>1, <1>2, <1>3, <1>4, <1>5, <1>6, <1>7, <1>8, <1>9, <1>10, <1>11, <1>12, <1>13,
     <1>14, <1>15 DEF Next, Step, Register, CreateAdmin

(* Every state reached has rows, cookies and requests of their types.        *)
THEOREM TypeCorrect == Spec => []TypeOK
<1> QED BY TypeInit, TypeStep, PTL DEF Spec

-----------------------------------------------------------------------------
(* The last administrator only goes in a request that was overtaken.         *)

\* A request that removes an administrator has counted another one.
Counts(j) ==
    j.op \in {"demote", "deleteUser", "deleteSelf"} /\ j.at = "commit" /\ j.seen.admin =>
        \E i \in j.counted : i # j.target

\* Somebody may only delete himself on his own behalf.
OnSelf(j) == j.op = "deleteSelf" => j.target = j.id

AdminInv == TypeOK /\ \A b \in Browsers : Counts(job[b]) /\ OnSelf(job[b])

LEMMA AdminsOf == Admins = {i \in Ids : Exists(i) /\ user[i].admin}
BY DEF Admins, Existing

(* Two administrators: one of them is not t.                                 *)
LEMMA TwoAdmins ==
    ASSUME Cardinality(Admins) > 1, NEW t
    PROVE  \E i \in Admins : i # t
<1>1. IsFiniteSet(Ids)
  BY AccountsAssumption, FS_Interval
<1>2. IsFiniteSet(Admins)
  BY <1>1, FS_Subset, AdminsOf
<1>3. ~(Admins \subseteq {t})
  <2> SUFFICES ASSUME Admins \subseteq {t} PROVE FALSE
    OBVIOUS
  <2>1. IsFiniteSet({t}) /\ Cardinality({t}) = 1
    BY FS_Singleton
  <2>2. Cardinality(Admins) <= 1
    BY <2>1, FS_Subset
  <2> QED BY <1>2, <2>2, FS_CardinalityType
<1> QED BY <1>3

LEMMA AdminInit == Init => AdminInv
<1> SUFFICES ASSUME Init PROVE AdminInv
  OBVIOUS
<1>1. \A b \in Browsers : Counts(job[b]) /\ OnSelf(job[b])
  BY DEF Init, Idle, Counts, OnSelf
<1> QED BY <1>1, TypeInit DEF AdminInv

(* The count is part of the decision.                                        *)
LEMMA DecidedJob ==
    ASSUME AdminInv, NEW b \in Browsers, Allowed(b), NEW j,
           j.op = job[b].op, j.target = job[b].target, j.id = job[b].id,
           j.seen = Loaded(b), j.counted = Admins
    PROVE  Counts(j) /\ OnSelf(j)
<1>1. OnSelf(job[b])
  BY DEF AdminInv
<1>2. OnSelf(j)
  BY <1>1 DEF OnSelf
<1>3. ASSUME job[b].op = "demote" PROVE \E i \in Admins : i # j.target
  <2>1. Cardinality(Admins) > 1
    BY <1>3 DEF Allowed
  <2> QED BY <2>1, TwoAdmins
<1>4. ASSUME job[b].op = "deleteUser" PROVE ~Loaded(b).admin
  BY <1>4 DEF Allowed
<1>5. ASSUME job[b].op = "deleteSelf", Loaded(b).admin PROVE \E i \in Admins : i # j.target
  <2>1. Admins \ {job[b].id} # {}
    BY <1>5 DEF Allowed
  <2> QED BY <1>2, <1>5, <2>1 DEF OnSelf
<1> QED BY <1>2, <1>3, <1>4, <1>5 DEF Counts

(* A request that starts has counted nobody and removes nobody yet.          *)
LEMMA AdminStep == AdminInv /\ [Next]_vars => AdminInv'
<1> SUFFICES ASSUME AdminInv, [Next]_vars PROVE AdminInv'
  OBVIOUS
<1> DEFINE Goal == \A b \in Browsers : Counts(job[b])' /\ OnSelf(job[b])'
<1>0. TypeOK /\ TypeOK'
  BY TypeStep DEF AdminInv
<1>1. ASSUME job' = job PROVE Goal
  BY <1>1 DEF AdminInv, Counts, OnSelf
<1>2. ASSUME NEW b \in Browsers, NEW j, job' = [job EXCEPT ![b] = j], Counts(j), OnSelf(j)
      PROVE  Goal
  <2>1. job'[b] = j /\ \A c \in Browsers \ {b} : job'[c] = job[c]
    BY <1>0, <1>2 DEF TypeOK
  <2> QED BY <1>2, <2>1 DEF AdminInv, Counts, OnSelf
<1>3. ASSUME NEW b \in Browsers, Finish(b) PROVE Goal
  <2>1. Counts(Idle) /\ OnSelf(Idle)
    BY DEF Counts, OnSelf, Idle
  <2> QED BY <1>2, <1>3, <2>1 DEF Finish
<1>4. ASSUME NEW b \in Browsers, NEW i \in Ids, BeginLogin(b, i) PROVE Goal
  <2> DEFINE j == [op |-> "login", at |-> "respond", id |-> i, target |-> i,
                   seen |-> user[i], counted |-> {}]
  <2>1. Counts(j) /\ OnSelf(j)
    BY DEF Counts, OnSelf
  <2>2. job' = [job EXCEPT ![b] = j]
    BY <1>4 DEF BeginLogin
  <2> HIDE DEF j
  <2> QED BY <1>2, <2>1, <2>2
<1>5. ASSUME NEW b \in Browsers, NEW op, NEW at, NEW t, Start(b, op, at, t),
             op \in RenewOps \/ at = "load", op = "deleteSelf" => t = cookie[b].id
      PROVE  Goal
  <2> DEFINE j == [op |-> op, at |-> at, id |-> cookie[b].id, target |-> t,
                   seen |-> user[cookie[b].id], counted |-> {}]
  <2>1. Counts(j) /\ OnSelf(j)
    BY <1>5 DEF Counts, OnSelf, RenewOps
  <2>2. job' = [job EXCEPT ![b] = j]
    BY <1>5 DEF Start
  <2> HIDE DEF j
  <2> QED BY <1>2, <2>1, <2>2
<1>6. ASSUME NEW b \in Browsers, NEW op \in RenewOps, BeginRenewal(b, op) PROVE Goal
  BY <1>5, <1>6 DEF BeginRenewal, RenewOps
<1>7. ASSUME NEW b \in Browsers, NEW op \in TargetOps, NEW t \in Ids, BeginTarget(b, op, t)
      PROVE  Goal
  BY <1>5, <1>7 DEF BeginTarget, TargetOps
<1>8. ASSUME NEW b \in Browsers, BeginDeleteSelf(b) PROVE Goal
  BY <1>5, <1>8 DEF BeginDeleteSelf
<1>9. ASSUME NEW b \in Browsers, Decide(b) PROVE Goal
  <2>1. CASE Finish(b)
    BY <1>3, <2>1
  <2>2. CASE ~Finish(b)
    <3> DEFINE j == [job[b] EXCEPT !.at = "commit", !.seen = Loaded(b), !.counted = Admins]
    <3>1. job[b] \in Job /\ Allowed(b) /\ job' = [job EXCEPT ![b] = j]
      BY <1>0, <1>9, <2>2 DEF Decide, TypeOK
    <3>2. /\ j.op = job[b].op /\ j.target = job[b].target /\ j.id = job[b].id
          /\ j.seen = Loaded(b) /\ j.counted = Admins
      BY <3>1 DEF Job
    <3> HIDE DEF j
    <3>3. Counts(j) /\ OnSelf(j)
      BY <3>1, <3>2, DecidedJob
    <3> QED BY <1>2, <3>1, <3>3
  <2> QED BY <2>1, <2>2
<1>10. ASSUME NEW b \in Browsers, CommitRenewal(b) PROVE Goal
  <2> DEFINE j == [job[b] EXCEPT !.at = "respond"]
  <2>1. job' = [job EXCEPT ![b] = j]
    BY <1>10 DEF CommitRenewal
  <2>2. job[b] \in Job /\ job[b].op \in RenewOps
    BY <1>0, <1>10, BusyFields DEF CommitRenewal, Committing, TypeOK, Idle, RenewOps
  <2>3. Counts(j) /\ OnSelf(j)
    BY <2>2 DEF Counts, OnSelf, RenewOps, Job
  <2> HIDE DEF j
  <2> QED BY <1>2, <2>1, <2>3
<1> QED
  <2>1. ASSUME NEW b \in Browsers, Step(b) PROVE Goal
    BY <2>1, <1>1, <1>3, <1>4, <1>6, <1>7, <1>8, <1>9, <1>10
    DEF Step, TurnedOut, Logout, FinishLogin, CommitFails, CommitTarget, CommitDelete, Respond
  <2>2. ASSUME Register \/ CreateAdmin \/ UNCHANGED vars PROVE Goal
    BY <2>2, <1>1 DEF Register, CreateAdmin, Create, vars
  <2>3. Goal
    BY <2>1, <2>2 DEF Next
  <2> QED BY <1>0, <2>3 DEF AdminInv

(* A step that takes the administrator's role from nobody leaves one.        *)
NoAdminLost == \A i \in Ids : (Exists(i) /\ user[i].admin) => (Exists(i)' /\ user'[i].admin)

LEMMA AdminsKept ==
    ASSUME NoAdminLost, Admins # {}
    PROVE  Admins' # {}
BY AdminsOf DEF NoAdminLost, Admins, Existing

(* The commit of a request that was not overtaken leaves one it had counted. *)
LEMMA ReducingCommit ==
    ASSUME AdminInv, NEW b \in Browsers,
           Committing(b, {"demote", "deleteUser", "deleteSelf"}), job[b].seen.admin,
           \A i \in Ids \ {job[b].target} : user'[i] = user[i],
           Admins' = {}
    PROVE  ~(job[b].counted \subseteq Admins)
<1>1. PICK i \in job[b].counted : i # job[b].target
  BY DEF AdminInv, Counts, Committing
<1>2. i \in Admins => i \in Admins'
  BY <1>1 DEF Admins, Existing, Exists
<1> QED BY <1>1, <1>2

LEMMA LastAdminStep ==
    ASSUME AdminInv, [Next]_vars, Admins # {}, Admins' = {}
    PROVE  \E b \in Browsers :
               /\ Committing(b, {"demote", "deleteUser", "deleteSelf"})
               /\ Overtaken(job[b]) /\ job'[b] = Idle
<1> DEFINE Goal == \E b \in Browsers :
               /\ Committing(b, {"demote", "deleteUser", "deleteSelf"})
               /\ Overtaken(job[b]) /\ job'[b] = Idle
<1>0. TypeOK /\ ~NoAdminLost
  BY AdminsKept DEF AdminInv
<1>1. user' # user
  BY <1>0 DEF NoAdminLost, Exists
<1>2. ASSUME NEW b \in Browsers, CommitRenewal(b) PROVE FALSE
  <2> DEFINE i == job[b].target
  <2>1. job[b] \in Job /\ job[b].op \in RenewOps /\ i \in Ids /\ user[i] \in UserRow
    BY <1>0, <1>2, JobFields DEF CommitRenewal, Committing, RenewOps, TypeOK
  <2>2. user'[i] = Renewed(b, i) /\ \A k \in Ids \ {i} : user'[k] = user[k]
    BY <1>0, <1>2, <2>1 DEF CommitRenewal, Updated, RenewOps, TypeOK
  <2>3. Renewed(b, i).admin = user[i].admin /\ Renewed(b, i).version # 0
    <3>1. Rotated(b) # 0
      BY <2>1 DEF Rotated, Job, UserRow
    <3> QED BY <2>1, <3>1 DEF Renewed, UserRow
  <2> QED BY <1>0, <2>2, <2>3 DEF NoAdminLost, Exists, NoUser
<1>3. ASSUME NEW b \in Browsers, CommitTarget(b) PROVE Goal
  <2> DEFINE i == job[b].target
  <2>1. /\ job[b] \in Job /\ job[b].op \in {"demote", "promote", "ban", "unban"}
        /\ job[b].at = "commit" /\ i \in Ids /\ user[i] \in UserRow
    BY <1>0, <1>3, JobFields DEF CommitTarget, Committing, TypeOK
  <2>2. /\ user'[i] = Updated(b, i) /\ \A k \in Ids \ {i} : user'[k] = user[k]
        /\ job'[b] = Idle
    BY <1>0, <1>3, <2>1 DEF CommitTarget, Finish, TypeOK
  <2>3. CASE job[b].op = "demote"
    <3>1. Committing(b, {"demote", "deleteUser", "deleteSelf"})
      BY <2>1, <2>3 DEF Committing
    <3>2. job[b].seen.admin => ~(job[b].counted \subseteq Admins)
      BY <2>2, <3>1, ReducingCommit
    <3> QED BY <2>2, <3>1, <3>2 DEF Overtaken
  <2>4. CASE job[b].op # "demote"
    <3>1. user[i].admin => Updated(b, i).admin
      BY <2>1, <2>4 DEF Updated, Set, UserRow
    <3> QED BY <1>0, <2>2, <3>1 DEF NoAdminLost, Exists, NoUser
  <2> QED BY <2>3, <2>4
<1>4. ASSUME NEW b \in Browsers, CommitDelete(b) PROVE Goal
  <2>1. /\ Committing(b, {"demote", "deleteUser", "deleteSelf"}) /\ job'[b] = Idle
        /\ \A k \in Ids \ {job[b].target} : user'[k] = user[k]
    BY <1>0, <1>4 DEF CommitDelete, Committing, Finish, TypeOK
  <2>2. job[b].seen.admin => ~(job[b].counted \subseteq Admins)
    BY <2>1, ReducingCommit
  <2> QED BY <2>1, <2>2 DEF Overtaken
<1>5. ASSUME NEW admin \in BOOLEAN, Create(admin) PROVE FALSE
  <2>1. PICK i \in Ids : IsNextId(i) /\ user' = [user EXCEPT ![i] =
                                                  NewUser(created + 1, admin, FALSE)]
    BY <1>5 DEF Create
  <2>2. ~Exists(i)
    BY <2>1, AccountsAssumption DEF IsNextId, Existing
  <2> QED BY <1>0, <2>1, <2>2 DEF NoAdminLost, Exists, TypeOK
<1>6. ASSUME NEW b \in Browsers, Step(b) PROVE Goal
  <2>1. user' # user => CommitRenewal(b) \/ CommitTarget(b) \/ CommitDelete(b)
    BY <1>6 DEF Step, TurnedOut, Logout, BeginLogin, FinishLogin, BeginRenewal, BeginTarget,
                BeginDeleteSelf, Decide, CommitFails, Respond
  <2> QED BY <1>1, <1>2, <1>3, <1>4, <2>1
<1> QED BY <1>1, <1>5, <1>6 DEF Next, Register, CreateAdmin, vars

(* "The last admin cannot delete itself" (SECURITY.md:27), as the code keeps it
   whatever the number of threads: a site that has an administrator only comes
   to have none in the commit of a demotion or deletion that was overtaken after
   its count by another request.                                             *)
THEOREM LastAdminOnlyGoesOvertaken == Spec => LastAdminGoesOvertaken
<1>1. Init => AdminInv
  BY AdminInit
<1>2. AdminInv /\ [Next]_vars => AdminInv'
  BY AdminStep
<1>3. AdminInv /\ [Next]_vars =>
        [Admins # {} /\ Admins' = {} =>
           \E b \in Browsers :
               /\ Committing(b, {"demote", "deleteUser", "deleteSelf"})
               /\ Overtaken(job[b]) /\ job'[b] = Idle]_vars
  BY LastAdminStep
<1> QED BY <1>1, <1>2, <1>3, PTL DEF Spec, LastAdminGoesOvertaken

-----------------------------------------------------------------------------
(* A session that was ended comes back only with a doubtful number.          *)

\* The session a browser has, or is about to get from the login in flight
Held(b) == IF job[b].op = "login" THEN SessionOf(job[b].id, job[b].seen) ELSE cookie[b]

\* The session a browser expects from the renewal it has committed
Expected(b) == [id |-> job[b].id, version |-> Rotated(b), uid |-> cookie[b].uid]

\* The account the session was opened on still has that id.
Same(c) == Exists(c.id) /\ user[c.id].uid = c.uid

\* The number is 0, the one of a new account, or some rotation has written it.
Known(uid, version) == version = 0 \/ <<uid, version>> \in written

Dated(c) == c.uid <= created /\ (Same(c) => Known(c.uid, c.version))

\* The session opens its account with a doubtful number at most.
Barred(c) == Same(c) /\ user[c.id].version = c.version => <<c.uid, c.version>> \in doubtful

Rows == \A i \in Ids : user[i].uid <= created /\ Known(user[i].uid, user[i].version)

Tracked(b) ==
    /\ job[b].op = "login" => cookie[b] = NoCookie /\ job[b].at = "respond"
    /\ job[b].op \notin {"idle", "login"} => cookie[b].id = job[b].id
    /\ job[b].op \in RenewOps => job[b].target = job[b].id /\ job[b].at # "load"
    /\ Held(b) # NoCookie => Dated(Held(b)) /\ (b \in revoked => Barred(Held(b)))
    /\ job[b].op \in RenewOps /\ job[b].at = "respond" =>
           Dated(Expected(b)) /\ (b \in revoked => Barred(Expected(b)))

RevokeInv == TypeOK /\ Rows /\ \A b \in Browsers : Tracked(b)

LEMMA RevokeInit == Init => RevokeInv
<1> SUFFICES ASSUME Init PROVE RevokeInv
  OBVIOUS
<1>1. Rows
  BY AccountsAssumption DEF Init, Rows, Known, NewUser, NoUser
<1>2. \A b \in Browsers : job[b] = Idle /\ cookie[b] = NoCookie
  BY DEF Init
<1>3. \A b \in Browsers : Tracked(b)
  BY <1>2 DEF Tracked, Held, RenewOps, Idle
<1> QED BY <1>1, <1>3, TypeInit DEF RevokeInv

LEMMA HeldType ==
    ASSUME TypeOK, NEW b \in Browsers, Tracked(b)
    PROVE  /\ Held(b) \in Cookie \cup {NoCookie}
           /\ \A i \in Ids : b \in Holders(i) => Held(b) \in Cookie /\ Held(b).id = i
<1>1. CASE job[b].op = "login"
  <2>1. job[b] \in Job /\ cookie[b] = NoCookie
    BY <1>1, JobFields DEF TypeOK, Tracked
  <2> QED BY <1>1, <2>1 DEF Held, SessionOf, Cookie, Job, UserRow, Holders, NoCookie, NoId
<1>2. CASE job[b].op # "login"
  BY <1>2 DEF Held, TypeOK, Holders, Cookie, NoCookie, NoId
<1> QED BY <1>1, <1>2

LEMMA ExpectedType ==
    ASSUME TypeOK, NEW b \in Browsers, job[b].op \in RenewOps
    PROVE  Expected(b) \in Cookie /\ Rotated(b) \in Nat \ {0}
<1>1. job[b].id \in Ids /\ job[b].seen.version \in Nat
  BY JobFields DEF TypeOK, RenewOps, UserRow
<1>2. cookie[b].uid \in Nat
  BY DEF TypeOK, Cookie, NoCookie
<1> QED BY <1>1, <1>2 DEF Expected, Cookie, Rotated

\* The row has got a number that ends the sessions it had, as far as it is not doubtful.
Renumbered(i) ==
    /\ Exists(i) /\ user'[i].uid = user[i].uid
    /\ \/ <<user'[i].uid, user'[i].version>> \in doubtful'
       \/ user'[i].version # 0 /\ <<user'[i].uid, user'[i].version>> \notin written

(* What a step does to the rows: one stays with its number, is renumbered, goes,
   or comes with a new uid.  The histories grow.                               *)
Advance ==
    /\ created <= created' /\ written \subseteq written' /\ doubtful \subseteq doubtful'
    /\ \A i \in Ids : Exists(i)' =>
         \/ user'[i].uid > created
         \/ Exists(i) /\ user'[i].uid = user[i].uid /\ user'[i].version = user[i].version
         \/ Renumbered(i)

\* A commit that ends the sessions of account i
Ends(i) == user'[i] = NoUser \/ Renumbered(i)

(* A session stays known and barred, and is barred by a commit that ends it.  *)
LEMMA SessionKept ==
    ASSUME TypeOK, TypeOK', Advance, NEW h \in Cookie, NEW c \in Browsers,
           Dated(h), c \in revoked => Barred(h),
           c \in revoked' \ revoked => Ends(h.id)
    PROVE  Dated(h)' /\ (c \in revoked' => Barred(h)')
<1>1. /\ h.id \in Ids /\ h.uid \in Nat /\ h.version \in Nat
      /\ created \in Nat /\ created' \in Nat
      /\ user[h.id].uid \in Nat /\ user'[h.id].uid \in Nat
  BY DEF TypeOK, Cookie, UserRow
<1>2. Same(h)' => Same(h) /\ \/ user'[h.id].version = user[h.id].version
                              \/ Renumbered(h.id)
  <2> SUFFICES ASSUME Exists(h.id)', user'[h.id].uid = h.uid
               PROVE  Same(h) /\ \/ user'[h.id].version = user[h.id].version
                                 \/ Renumbered(h.id)
    BY DEF Same, Exists
  <2>1. ~(user'[h.id].uid > created)
    BY <1>1 DEF Dated
  <2> QED BY <1>1, <2>1 DEF Advance, Same, Renumbered
<1>3. Dated(h)'
  BY <1>1, <1>2 DEF Dated, Known, Advance
<1>4. ASSUME c \in revoked', Same(h)', user'[h.id].version = h.version
      PROVE  <<h.uid, h.version>> \in doubtful'
  <2>1. CASE Renumbered(h.id)
    <3>1. user'[h.id].uid = h.uid
      BY <1>4 DEF Same
    <3> QED BY <1>2, <1>4, <2>1, <3>1 DEF Renumbered, Dated, Known
  <2>2. CASE ~Renumbered(h.id)
    <3>1. user'[h.id].version = user[h.id].version /\ Same(h)
      BY <1>2, <1>4, <2>2
    <3>2. c \in revoked
      BY <1>4, <2>2 DEF Ends, Same, Exists
    <3> QED BY <1>4, <3>1, <3>2 DEF Barred, Advance
  <2> QED BY <2>1, <2>2
<1>5. c \in revoked' => Barred(h)'
  BY <1>4 DEF Barred, Same, Exists
<1> QED BY <1>3, <1>5

(* A browser that does not move                                              *)
LEMMA Bystander ==
    ASSUME RevokeInv, TypeOK', Advance, NEW c \in Browsers,
           job'[c] = job[c], cookie'[c] = cookie[c],
           c \in revoked' \ revoked => \E i \in Ids : c \in Holders(i) /\ Ends(i)
    PROVE  Tracked(c)'
<1>1. Tracked(c) /\ TypeOK
  BY DEF RevokeInv
<1>2. PICK h \in Cookie \cup {NoCookie} : h = Held(c)
  BY <1>1, HeldType
<1>3. c \in revoked' \ revoked => h # NoCookie /\ Ends(h.id)
  BY <1>1, <1>2, HeldType DEF Cookie, NoCookie, NoId
<1>4. Held(c)' = h
  BY <1>2 DEF Held, SessionOf
<1>5. h # NoCookie => Dated(h)' /\ (c \in revoked' => Barred(h)')
  BY <1>1, <1>2, <1>3, SessionKept DEF Tracked
<1>6. Held(c)' # NoCookie => Dated(Held(c))' /\ (c \in revoked' => Barred(Held(c))')
  BY <1>4, <1>5 DEF Dated, Barred, Same, Exists, Known
<1>7. ASSUME job[c].op \in RenewOps, job[c].at = "respond"
      PROVE  Dated(Expected(c))' /\ (c \in revoked' => Barred(Expected(c))')
  <2>1. PICK e \in Cookie : e = Expected(c)
    BY <1>1, <1>7, ExpectedType
  <2>2. e.id = h.id
    BY <1>1, <1>2, <1>7, <2>1 DEF Tracked, Held, Expected, RenewOps
  <2>3. Dated(e)' /\ (c \in revoked' => Barred(e)')
    BY <1>1, <1>3, <1>7, <2>1, <2>2, SessionKept DEF Tracked
  <2>4. Expected(c)' = e
    BY <2>1 DEF Expected, Rotated
  <2> QED BY <2>3, <2>4 DEF Dated, Barred, Same, Exists, Known
<1> QED BY <1>1, <1>6, <1>7 DEF Tracked

(* A step of one browser that changes no account and ends no session          *)
LEMMA OneMoves ==
    ASSUME RevokeInv, TypeOK', UNCHANGED <<user, created, written>>,
           doubtful \subseteq doubtful', NEW b \in Browsers,
           \A c \in Browsers \ {b} : job'[c] = job[c] /\ cookie'[c] = cookie[c],
           revoked' \subseteq revoked, Tracked(b)'
    PROVE  RevokeInv'
<1>1. Advance
  BY DEF Advance, RevokeInv, TypeOK, Exists
<1>2. Rows'
  BY DEF RevokeInv, Rows, Known
<1>3. \A c \in Browsers \ {b} : Tracked(c)'
  BY <1>1, Bystander
<1> QED BY <1>2, <1>3 DEF RevokeInv

(* A rotation that is committed on account i                                  *)
LEMMA RotationCommit ==
    ASSUME RevokeInv, TypeOK', NEW b \in Browsers, NEW i \in Ids, job[b].target = i,
           Exists(i), Rotate(b), created' = created, Rotated(b) \in Nat \ {0},
           \A k \in Ids \ {i} : user'[k] = user[k],
           user'[i].uid = user[i].uid, user'[i].version = Rotated(b)
    PROVE  Advance /\ Renumbered(i) /\ Rows'
<1>1. /\ written' = written \cup {<<user[i].uid, Rotated(b)>>}
      /\ doubtful \subseteq doubtful'
      /\ <<user[i].uid, Rotated(b)>> \in written => <<user[i].uid, Rotated(b)>> \in doubtful'
  BY DEF Rotate
<1>2. Renumbered(i)
  BY <1>1 DEF Renumbered
<1>3. Advance
  BY <1>1, <1>2 DEF Advance, RevokeInv, TypeOK, Exists
<1>4. Rows'
  <2> SUFFICES ASSUME NEW k \in Ids
               PROVE  (user[k].uid <= created /\ Known(user[k].uid, user[k].version))'
    BY DEF Rows, Known
  <2>1. user[k].uid <= created /\ Known(user[k].uid, user[k].version)
    BY DEF RevokeInv, Rows
  <2>2. CASE k = i
    BY <1>1, <2>1, <2>2 DEF Known
  <2>3. CASE k # i
    BY <1>1, <2>1, <2>3 DEF Known
  <2> QED BY <2>2, <2>3
<1> QED BY <1>2, <1>3, <1>4

(* A browser that is at rest after the step, or keeps its session             *)
LEMMA AtRest ==
    ASSUME RevokeInv, TypeOK', Advance, NEW b \in Browsers, job[b].op # "login",
           job'[b] = Idle, cookie'[b] = NoCookie \/ cookie'[b] = cookie[b],
           b \in revoked' \ revoked => \E i \in Ids : b \in Holders(i) /\ Ends(i)
    PROVE  Tracked(b)'
<1>1. Tracked(b) /\ TypeOK /\ Held(b) = cookie[b] /\ cookie[b] \in Cookie \cup {NoCookie}
  BY DEF RevokeInv, Held, TypeOK
<1>2. Held(b)' = cookie'[b]
  BY DEF Held, Idle
<1>3. PICK h \in Cookie \cup {NoCookie} : h = cookie'[b]
  BY <1>1
<1>4. h # NoCookie => Dated(h)' /\ (b \in revoked' => Barred(h)')
  <2> SUFFICES ASSUME h # NoCookie, h = cookie[b] PROVE Dated(h)' /\ (b \in revoked' => Barred(h)')
    BY <1>3
  <2>1. b \in revoked' \ revoked => Ends(h.id)
    BY <1>1, HeldType
  <2> QED BY <1>1, <2>1, SessionKept DEF Tracked
<1>5. Held(b)' # NoCookie => Dated(Held(b))' /\ (b \in revoked' => Barred(Held(b))')
  BY <1>2, <1>3, <1>4 DEF Dated, Barred, Same, Exists, Known
<1> QED BY <1>5 DEF Tracked, Idle, RenewOps

LEMMA RevokeStep ==
    ASSUME RevokeInv, [Next]_vars
    PROVE  RevokeInv'
<1>0. TypeOK /\ TypeOK' /\ Rows /\ \A b \in Browsers : Tracked(b)
  BY TypeStep DEF RevokeInv
<1>1. UNCHANGED <<user, created, written, doubtful>> => Advance
  BY <1>0 DEF Advance, TypeOK, Exists
<1>2. ASSUME NEW b \in Browsers, TurnedOut(b) \/ Logout(b) PROVE RevokeInv'
  <2>1. /\ job[b] = Idle /\ job' = job /\ cookie'[b] = NoCookie
        /\ UNCHANGED <<user, created, written, doubtful>>
        /\ \A c \in Browsers \ {b} : cookie'[c] = cookie[c]
        /\ revoked' \subseteq revoked
    BY <1>0, <1>2 DEF TurnedOut, Logout, MayBegin, TypeOK
  <2>2. Tracked(b)'
    BY <2>1 DEF Tracked, Held, RenewOps, Idle
  <2> QED BY <1>0, <2>1, <2>2, OneMoves
<1>3. ASSUME NEW b \in Browsers, NEW i \in Ids, BeginLogin(b, i) PROVE RevokeInv'
  <2>1. /\ job'[b] = [op |-> "login", at |-> "respond", id |-> i, target |-> i,
                      seen |-> user[i], counted |-> {}]
        /\ cookie'[b] = NoCookie /\ b \notin revoked'
        /\ UNCHANGED <<user, created, written, doubtful>>
        /\ \A c \in Browsers \ {b} : job'[c] = job[c] /\ cookie'[c] = cookie[c]
        /\ revoked' \subseteq revoked
    BY <1>0, <1>3 DEF BeginLogin, TypeOK
  <2>2. Held(b)' = SessionOf(i, user[i])
    BY <2>1 DEF Held, SessionOf
  <2>3. Dated(Held(b))'
    BY <1>0, <2>1, <2>2 DEF Rows, Dated, Known, SessionOf
  <2>4. Tracked(b)'
    BY <2>1, <2>3 DEF Tracked, RenewOps
  <2> QED BY <1>0, <2>1, <2>4, OneMoves
<1>4. ASSUME NEW b \in Browsers, FinishLogin(b) PROVE RevokeInv'
  <2>1. /\ job[b].op = "login" /\ job'[b] = Idle /\ revoked' = revoked
        /\ cookie'[b] = Held(b) /\ UNCHANGED <<user, created, written, doubtful>>
        /\ \A c \in Browsers \ {b} : job'[c] = job[c] /\ cookie'[c] = cookie[c]
    BY <1>0, <1>4 DEF FinishLogin, Finish, TypeOK, Held
  <2>2. Held(b)' = Held(b)
    BY <2>1 DEF Held, Idle
  <2>3. Held(b) # NoCookie => Dated(Held(b)) /\ (b \in revoked => Barred(Held(b)))
    BY <1>0 DEF Tracked
  <2>4. Held(b)' # NoCookie => Dated(Held(b))' /\ (b \in revoked' => Barred(Held(b))')
    BY <2>1, <2>2, <2>3 DEF Dated, Barred, Same, Exists, Known
  <2>5. job'[b].op = "idle"
    BY <2>1 DEF Idle
  <2>6. Tracked(b)'
    BY <2>4, <2>5 DEF Tracked, RenewOps
  <2> QED BY <1>0, <2>1, <2>6, OneMoves
(* A request of a browser at rest keeps its session.                         *)
<1>5. ASSUME NEW b \in Browsers, job[b] = Idle,
             NEW op \in Ops \ {"login"}, NEW at \in {"load", "commit"}, NEW t,
             Start(b, op, at, t),
             UNCHANGED <<user, cookie, created, revoked, written, doubtful>>,
             op \in RenewOps => at = "commit" /\ t = cookie[b].id
      PROVE  RevokeInv'
  <2>1. /\ job'[b] = [op |-> op, at |-> at, id |-> cookie[b].id, target |-> t,
                     seen |-> user[cookie[b].id], counted |-> {}]
        /\ \A c \in Browsers \ {b} : job'[c] = job[c]
    BY <1>0, <1>5 DEF Start, TypeOK
  <2>2. Held(b)' = Held(b)
    BY <1>5, <2>1 DEF Held, Idle
  <2>3. Held(b)' # NoCookie => Dated(Held(b))' /\ (b \in revoked' => Barred(Held(b))')
    BY <1>0, <1>5, <2>2 DEF Tracked, Dated, Barred, Same, Exists, Known
  <2>4. Tracked(b)'
    BY <1>5, <2>1, <2>3 DEF Tracked
  <2> QED BY <1>0, <1>5, <2>1, <2>4, OneMoves
<1>6. ASSUME NEW b \in Browsers, NEW op \in RenewOps, BeginRenewal(b, op) PROVE RevokeInv'
  BY <1>5, <1>6 DEF BeginRenewal, Admitted, MayBegin, Ops, RenewOps
<1>7. ASSUME NEW b \in Browsers, NEW op \in TargetOps, NEW t \in Ids, BeginTarget(b, op, t)
      PROVE  RevokeInv'
  BY <1>5, <1>7 DEF BeginTarget, Admitted, MayBegin, Ops, RenewOps, TargetOps
<1>8. ASSUME NEW b \in Browsers, BeginDeleteSelf(b) PROVE RevokeInv'
  BY <1>5, <1>8 DEF BeginDeleteSelf, Admitted, MayBegin, Ops, RenewOps
(* A request that ends without having done anything                          *)
<1>9. ASSUME NEW b \in Browsers, job[b].op # "login", Finish(b),
             UNCHANGED <<user, cookie, created, revoked, written, doubtful>>
      PROVE  RevokeInv'
  <2>1. job'[b] = Idle /\ \A c \in Browsers \ {b} : job'[c] = job[c]
    BY <1>0, <1>9 DEF Finish, TypeOK
  <2>2. Tracked(b)'
    BY <1>0, <1>1, <1>9, <2>1, AtRest
  <2> QED BY <1>0, <1>9, <2>1, <2>2, OneMoves
<1>10. ASSUME NEW b \in Browsers, CommitFails(b) PROVE RevokeInv'
  BY <1>9, <1>10 DEF CommitFails, Committing, RenewOps
<1>11. ASSUME NEW b \in Browsers, Decide(b) PROVE RevokeInv'
  <2>1. /\ job[b] \in Job /\ job[b].op \notin RenewOps \cup {"idle", "login"}
        /\ UNCHANGED <<user, cookie, created, revoked, written, doubtful>>
    BY <1>0, <1>11, BusyFields DEF Decide, Tracked, TypeOK
  <2>2. CASE Finish(b)
    BY <1>9, <2>1, <2>2
  <2>3. CASE ~Finish(b)
    <3>1. /\ job'[b] = [job[b] EXCEPT !.at = "commit", !.seen = Loaded(b), !.counted = Admins]
          /\ \A c \in Browsers \ {b} : job'[c] = job[c]
      BY <1>0, <1>11, <2>3 DEF Decide, TypeOK
    <3>2. job'[b].op = job[b].op /\ job'[b].id = job[b].id
      BY <2>1, <3>1 DEF Job
    <3>3. Held(b)' = Held(b)
      BY <2>1, <3>2 DEF Held
    <3>4. Held(b)' # NoCookie => Dated(Held(b))' /\ (b \in revoked' => Barred(Held(b))')
      BY <1>0, <2>1, <3>3 DEF Tracked, Dated, Barred, Same, Exists, Known
    <3>5. cookie[b].id = job[b].id
      BY <1>0, <2>1 DEF Tracked
    <3>6. Tracked(b)'
      BY <2>1, <3>2, <3>4, <3>5 DEF Tracked
    <3> QED BY <1>0, <2>1, <3>1, <3>6, OneMoves
  <2> QED BY <2>2, <2>3
(* The new cookie is the expected one, or has a number somebody else wrote.   *)
<1>12. ASSUME NEW b \in Browsers, Respond(b) PROVE RevokeInv'
  <2> DEFINE i == job[b].id
  <2>1. /\ job[b].op \in RenewOps /\ job[b].at = "respond" /\ i \in Ids /\ cookie[b].id = i
        /\ UNCHANGED <<user, created, revoked, written>> /\ doubtful \subseteq doubtful'
        /\ job'[b] = Idle
        /\ \A c \in Browsers \ {b} : job'[c] = job[c] /\ cookie'[c] = cookie[c]
    BY <1>0, <1>12, JobFields DEF Respond, Finish, Tracked, TypeOK, RenewOps
  <2>2. CASE ~Exists(i)
    <3>1. UNCHANGED <<cookie, doubtful>>
      BY <1>12, <2>2 DEF Respond
    <3> QED BY <1>9, <1>12, <2>1, <3>1 DEF Respond, RenewOps
  <2>3. CASE Exists(i)
    <3>1. PICK n : n = [id |-> i, version |-> user[i].version, uid |-> cookie[b].uid]
      OBVIOUS
    <3>2. /\ cookie'[b] = n /\ n.id = i /\ n.version = user[i].version /\ n.uid = cookie[b].uid
          /\ user[i].version # Rotated(b) => <<user[i].uid, user[i].version>> \in doubtful'
      BY <1>0, <1>12, <2>3, <3>1 DEF Respond, TypeOK
    <3>3. Dated(n)'
      <4>1. cookie[b].uid <= created
        BY <1>0, <2>1 DEF Tracked, Dated, Expected
      <4> QED BY <1>0, <2>1, <3>2, <4>1 DEF Dated, Same, Rows, Known, Exists
    <3>4. b \in revoked => Barred(n)'
      <4>1. CASE user[i].version # Rotated(b)
        BY <2>1, <3>2, <4>1 DEF Barred, Same, Exists
      <4>2. CASE user[i].version = Rotated(b)
        <5>1. n = Expected(b)
          BY <3>1, <4>2 DEF Expected
        <5>2. b \in revoked => Barred(n)
          BY <1>0, <2>1, <5>1 DEF Tracked
        <5> QED BY <2>1, <3>2, <5>2 DEF Barred, Same, Exists
      <4> QED BY <4>1, <4>2
    <3>5. Held(b)' = n
      BY <2>1, <3>2 DEF Held, Idle
    <3>6. Dated(Held(b))' /\ (b \in revoked' => Barred(Held(b))')
      BY <2>1, <3>3, <3>4, <3>5 DEF Dated, Barred, Same, Exists, Known
    <3>7. Tracked(b)'
      BY <2>1, <3>6 DEF Tracked, RenewOps, Idle
    <3> QED BY <1>0, <2>1, <3>7, OneMoves
  <2> QED BY <2>2, <2>3
(* The commits                                                               *)
<1>13. ASSUME NEW b \in Browsers, CommitRenewal(b) PROVE RevokeInv'
  <2> DEFINE i == job[b].target
  <2>1. /\ job[b] \in Job /\ job[b].op \in RenewOps /\ i = job[b].id /\ cookie[b].id = i
        /\ i \in Ids /\ Exists(i) /\ UNCHANGED <<cookie, created>> /\ Rotate(b)
    BY <1>0, <1>13, JobFields DEF CommitRenewal, Committing, Tracked, TypeOK, RenewOps
  <2>2. /\ job'[b] = [job[b] EXCEPT !.at = "respond"]
        /\ \A c \in Browsers \ {b} : job'[c] = job[c]
        /\ \A k \in Ids \ {i} : user'[k] = user[k]
        /\ user'[i] = Renewed(b, i)
        /\ revoked' = revoked \cup (Holders(i) \ {b})
    BY <1>0, <1>13, <2>1 DEF CommitRenewal, Updated, TypeOK, RenewOps
  <2>3. /\ job'[b].op = job[b].op /\ job'[b].at = "respond" /\ job'[b].id = i
        /\ job'[b].target = i /\ job'[b].seen = job[b].seen
    BY <2>1, <2>2 DEF Job
  <2>4. Rotated(b) \in Nat \ {0}
    BY <1>0, <2>1, ExpectedType
  <2>5. user'[i].uid = user[i].uid /\ user'[i].version = Rotated(b)
    BY <1>0, <2>1, <2>2 DEF Renewed, TypeOK, UserRow
  <2>6. Advance /\ Renumbered(i) /\ Rows'
    BY <1>0, <2>1, <2>2, <2>4, <2>5, RotationCommit
  <2>7. \A c \in Browsers \ {b} : Tracked(c)'
    BY <1>0, <2>1, <2>2, <2>6, Bystander DEF Ends
  <2>8. Tracked(b)'
    <3>1. PICK h \in Cookie : h = cookie[b]
      BY <1>0, <2>1 DEF TypeOK, NoCookie, NoId
    <3>2. Held(b) = h /\ Held(b)' = h /\ h # NoCookie
      BY <2>1, <2>3, <3>1 DEF Held, RenewOps, NoCookie, NoId
    <3>3. Dated(h)' /\ (b \in revoked' => Barred(h)')
      BY <1>0, <2>2, <2>6, <3>2, SessionKept DEF Tracked
    <3>4. Dated(Held(b))' /\ (b \in revoked' => Barred(Held(b))')
      BY <3>2, <3>3 DEF Dated, Barred, Same, Exists, Known
    <3>5. PICK e : e = Expected(b)
      OBVIOUS
    <3>6. /\ e.id = i /\ e.version = Rotated(b) /\ e.uid = cookie[b].uid
          /\ Expected(b)' = e
      BY <2>1, <2>3, <3>5 DEF Expected, Rotated
    <3>7. /\ <<user[i].uid, Rotated(b)>> \in written'
          /\ b \in revoked => <<user[i].uid, Rotated(b)>> \in doubtful'
      BY <2>1 DEF Rotate
    <3>8. Dated(e)'
      <4>1. cookie[b].uid <= created
        BY <1>0, <3>1, <3>2 DEF Tracked, Dated
      <4> QED BY <2>1, <2>5, <3>6, <3>7, <4>1 DEF Dated, Same, Known
    <3>9. b \in revoked' => Barred(e)'
      BY <2>2, <2>5, <3>6, <3>7 DEF Barred, Same
    <3>10. Dated(Expected(b))' /\ (b \in revoked' => Barred(Expected(b))')
      BY <3>6, <3>8, <3>9 DEF Dated, Barred, Same, Exists, Known
    <3> QED BY <2>1, <2>3, <3>4, <3>10 DEF Tracked, RenewOps
  <2> QED BY <1>0, <2>6, <2>7, <2>8 DEF RevokeInv
<1>14. ASSUME NEW b \in Browsers, CommitTarget(b) PROVE RevokeInv'
  <2> DEFINE i == job[b].target
  <2>1. /\ job[b] \in Job /\ job[b].op \in {"demote", "promote", "ban", "unban"}
        /\ i \in Ids /\ Exists(i) /\ UNCHANGED <<cookie, created>>
    BY <1>0, <1>14, JobFields DEF CommitTarget, Committing, TypeOK
  <2>2. /\ job'[b] = Idle
        /\ \A c \in Browsers \ {b} : job'[c] = job[c]
        /\ \A k \in Ids \ {i} : user'[k] = user[k]
        /\ user'[i] = Updated(b, i)
    BY <1>0, <1>14, <2>1 DEF CommitTarget, Finish, TypeOK
  <2>3. user[i] \in UserRow /\ Rotated(b) \in Nat \ {0}
    BY <1>0, <2>1 DEF TypeOK, Job, UserRow, Rotated
  <2>4. Advance /\ Rows' /\ \A c \in revoked' \ revoked : c \in Holders(i) /\ Ends(i)
    <3>1. CASE job[b].op = "unban"
      <4>1. /\ user'[i].uid = user[i].uid /\ user'[i].version = user[i].version
            /\ UNCHANGED <<revoked, written, doubtful>>
        BY <1>14, <2>1, <2>2, <2>3, <3>1 DEF CommitTarget, Updated, UserRow
      <4> QED BY <1>0, <2>1, <2>2, <4>1 DEF Advance, TypeOK, Exists, Rows, Known
    <3>2. CASE job[b].op # "unban"
      <4>1. revoked' = revoked \cup Holders(i) /\ Rotate(b)
        BY <1>14, <3>2 DEF CommitTarget
      <4>2. user'[i].uid = user[i].uid /\ user'[i].version = Rotated(b)
        BY <2>1, <2>2, <2>3, <3>2 DEF Updated, UserRow
      <4> QED BY <1>0, <2>1, <2>2, <2>3, <4>1, <4>2, RotationCommit DEF Ends
    <3> QED BY <3>1, <3>2
  <2>5. \A c \in Browsers \ {b} : Tracked(c)'
    BY <1>0, <2>1, <2>2, <2>4, Bystander
  <2>6. Tracked(b)'
    BY <1>0, <2>1, <2>2, <2>4, AtRest
  <2> QED BY <1>0, <2>4, <2>5, <2>6 DEF RevokeInv
<1>15. ASSUME NEW b \in Browsers, CommitDelete(b) PROVE RevokeInv'
  <2> DEFINE i == job[b].target
  <2>1. /\ job[b].op \in {"deleteUser", "deleteSelf"} /\ i \in Ids
        /\ UNCHANGED <<created, written, doubtful>>
    BY <1>0, <1>15, JobFields DEF CommitDelete, Committing, TypeOK
  <2>2. /\ job'[b] = Idle
        /\ \A c \in Browsers \ {b} : job'[c] = job[c] /\ cookie'[c] = cookie[c]
        /\ \A k \in Ids \ {i} : user'[k] = user[k]
        /\ user'[i] = NoUser
    BY <1>0, <1>15, <2>1 DEF CommitDelete, Finish, TypeOK
  <2>3. cookie'[b] = NoCookie \/ cookie'[b] = cookie[b]
    BY <1>0, <1>15 DEF CommitDelete, TypeOK
  <2>4. \A c \in revoked' \ revoked : c \in Holders(i) /\ Ends(i)
    BY <1>15, <2>2 DEF CommitDelete, Ends
  <2>5. Advance
    BY <1>0, <2>1, <2>2 DEF Advance, TypeOK, Exists
  <2>6. Rows'
    BY <1>0, <2>1, <2>2 DEF Rows, Known, NoUser, TypeOK
  <2>7. \A c \in Browsers \ {b} : Tracked(c)'
    BY <1>0, <2>1, <2>2, <2>4, <2>5, Bystander
  <2>8. Tracked(b)'
    BY <1>0, <2>1, <2>2, <2>3, <2>4, <2>5, AtRest
  <2> QED BY <1>0, <2>6, <2>7, <2>8 DEF RevokeInv
<1>16. ASSUME NEW admin \in BOOLEAN, Create(admin) PROVE RevokeInv'
  <2>1. PICK i \in Ids : IsNextId(i) /\ user' = [user EXCEPT ![i] =
                                                  NewUser(created + 1, admin, FALSE)]
    BY <1>16 DEF Create
  <2>2. UNCHANGED <<cookie, job, revoked, written, doubtful>> /\ created' = created + 1
    BY <1>16 DEF Create
  <2>3. /\ user'[i].uid = created + 1 /\ user'[i].version = 0
        /\ \A k \in Ids \ {i} : user'[k] = user[k]
    BY <1>0, <2>1 DEF NewUser, TypeOK
  <2>4. Advance
    BY <1>0, <2>2, <2>3 DEF Advance, TypeOK, Exists
  <2>5. Rows'
    BY <1>0, <2>2, <2>3 DEF Rows, Known, TypeOK, UserRow
  <2>6. \A c \in Browsers : Tracked(c)'
    BY <1>0, <2>2, <2>4, Bystander
  <2> QED BY <1>0, <2>5, <2>6 DEF RevokeInv
<1>17. CASE UNCHANGED vars
  <2>1. UNCHANGED <<user, cookie, job, created, revoked, written, doubtful>>
    BY <1>17 DEF vars
  <2>2. Rows' /\ \A b \in Browsers : Tracked(b)'
    <3>1. Rows'
      BY <1>0, <2>1 DEF Rows, Known
    <3>2. \A b \in Browsers : Tracked(b)'
      BY <1>0, <1>1, <2>1, Bystander
    <3> QED BY <3>1, <3>2
  <2> QED BY <1>0, <2>2 DEF RevokeInv
<1> QED
  BY <1>2, <1>3, <1>4, <1>6, <1>7, <1>8, <1>10, <1>11, <1>12, <1>13, <1>14, <1>15, <1>16, <1>17
  DEF Next, Step, Register, CreateAdmin

(* "Password change, role change and 'log out everywhere' invalidate other
   sessions" (README.md:221), as the code keeps it however many requests overlap
   and although ids are given again: a browser whose session was ended opens its
   account again only with a number that two rotations have written, or that
   came out of such a session.                                               *)
THEOREM EndedSessionsStayEnded == Spec => []EndedStayOut
<1>1. RevokeInv => EndedStayOut
  <2> SUFFICES ASSUME RevokeInv, NEW b \in revoked, Authenticates(b),
                      user[cookie[b].id].uid = cookie[b].uid
               PROVE  <<cookie[b].uid, cookie[b].version>> \in doubtful
    BY DEF EndedStayOut
  <2>1. b \in Browsers /\ Tracked(b)
    BY DEF RevokeInv, TypeOK
  <2>2. Held(b) = cookie[b] /\ cookie[b] # NoCookie
    BY <2>1 DEF Authenticates, Tracked, Held
  <2> QED BY <2>1, <2>2 DEF Tracked, Barred, Same, Authenticates
<1>2. RevokeInv /\ [Next]_vars => RevokeInv'
  BY RevokeStep
<1> QED BY <1>1, <1>2, RevokeInit, PTL DEF Spec

=============================================================================
