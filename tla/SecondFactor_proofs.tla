------------------------ MODULE SecondFactor_proofs ------------------------
(* Proofs about SecondFactor, for any number of browsers and any bounds: its
   types, the two invariants of its sessions and recovery codes, and that it
   implements OneTimeCodes.                                                  *)
EXTENDS SecondFactor, FiniteSetTheorems, TLAPS

-----------------------------------------------------------------------------
(* What holds whatever overlaps.                                           *)

\* A request that will draw recovery codes
Drawing == {b \in Browsers : job[b].op \in Issuing /\ job[b].at # "respond"}

Room == drawn.codes + Cardinality(Drawing) <= MaxGeneration

\* A row, as it is or as a request has seen it: its secret and its recovery
\* codes were drawn, and the secret is there as long as the factor is enabled.
Sound(u) ==
    /\ u.enabled <=> u.secret # None
    /\ u.secret <= drawn.secrets
    /\ \A c \in u.codes : c.by = "recovery" /\ c.of <= drawn.codes

\* The code was good for the row when the request began.
Good(u, c) ==
    /\ u.enabled
    /\ IF c.by = "totp" THEN c.of = u.secret /\ c.n > u.last ELSE c \in u.codes

JobOK(b) ==
    LET j == job[b] IN
    j # Idle =>
        /\ Sound(j.seen)
        /\ j.at \in {"consume", "reload"} => j.code \in Codes
        /\ j.at = "consume" => Good(j.seen, j.code)
        /\ j.op = "setup" =>
              /\ j.at \in {"commit", "respond"}
              /\ j.code \in TotpCodes
              /\ j.at = "commit" => pending[b] # None /\ j.code.of = pending[b]

\* Pending secrets were drawn, each for one browser; so were the codes spent.
Drawn ==
    /\ \A b \in Browsers : pending[b] <= drawn.secrets
    /\ \A a, b \in Browsers : a # b /\ pending[a] # None => pending[a] # pending[b]
    /\ \A c \in spent : c.of <= IF c.by = "totp" THEN drawn.secrets ELSE drawn.codes

Base == TypeOK /\ Room /\ Sound(user) /\ Drawn /\ \A b \in Browsers : JobOK(b)

-----------------------------------------------------------------------------
(* What holds as long as no request was overtaken.                         *)

\* A session is never newer than the account, a request never newer than a
\* later request, and a session of the account's own version had its code.
Sessions(b) ==
    LET j == job[b]   second == cookie[b].second IN
    /\ cookie[b].version <= user.version
    /\ user.enabled /\ Authenticates(b) => second
    /\ j # Idle =>
        /\ j.seen.version <= user.version
        /\ user.enabled /\ ~j.seen.enabled => j.seen.version < user.version
        /\ j.op \in Rotating \ {"setup"} /\ j.at = "commit" /\ j.code = NoCode
              => (user.enabled /\ j.seen.version = user.version => second)
        /\ j.op \in Rotating /\ j.at = "respond"
              => /\ j.seen.version < user.version
                 /\ user.enabled /\ user.version = j.seen.version + 1
                       => second \/ j.code # NoCode

\* Nothing was ever checked against this secret except in its own setup.
Fresh(s) ==
    /\ user.secret # s
    /\ \A b \in Browsers : job[b] # Idle => job[b].seen.secret # s
    /\ \A c \in spent : c.by = "totp" => c.of # s

\* The browser must sign in again, which drops its pending secret.
Outdated(b) ==
    /\ cookie[b].version < user.version
    /\ \/ job[b].op \in {"idle", "login", "loginTotp"}
       \/ job[b].op = "setup" /\ job[b].at = "respond"

Setups == \A b \in Browsers : pending[b] # None => Fresh(pending[b]) \/ Outdated(b)

\* No code that was spent would be accepted.
Spent ==
    \A c \in spent :
        IF c.by = "totp" THEN c.of = user.secret => c.n <= user.last
                         ELSE c \notin user.codes

\* A recovery code in use is only in the list while the factor is enabled.
InUse ==
    \A b \in Browsers :
        job[b].at = "consume" /\ job[b].code \in user.codes => user.enabled

Orderly ==
    /\ \A b \in Browsers : Sessions(b)
    /\ NewestCodesOnly /\ Setups /\ Spent /\ InUse

SecondFactorInv == Base /\ (~overtaken => Orderly)

-----------------------------------------------------------------------------
(* Codes, requests, and room for the codes to draw.                        *)

LEMMA CodeKinds ==
    ASSUME NEW c \in Codes
    PROVE  \/ c.by = "totp" /\ c \in TotpCodes
           \/ /\ c.by = "recovery" /\ c.of \in 1..MaxGeneration
              /\ c \in RecoveryCodes(c.of)
BY DEF Codes, TotpCodes, RecoveryCodes

LEMMA SetOfCodes ==
    ASSUME NEW g \in 1..MaxGeneration
    PROVE  /\ RecoveryCodes(g) \subseteq Codes
           /\ \A c \in RecoveryCodes(g) : c.by = "recovery" /\ c.of = g
BY DEF Codes, RecoveryCodes

LEMMA TotpIsCode ==
    ASSUME NEW c \in TotpCodes
    PROVE  c \in Codes /\ c.by = "totp" /\ c.of \in 1..MaxSecret /\ c.n \in Int /\ c # NoCode
BY SecondFactorAssumption DEF Codes, TotpCodes, NoCode

LEMMA CodeFields ==
    ASSUME NEW c \in Codes
    PROVE  c.of \in Int /\ c.n \in Int /\ c # NoCode
BY SecondFactorAssumption DEF Codes, TotpCodes, RecoveryCodes, NoCode

LEMMA RequestFields ==
    ASSUME TypeOK, NEW b \in Browsers
    PROVE  /\ job[b] = Idle <=> job[b].op = "idle"
           /\ job[b] = Idle <=> job[b].at = "idle"
           /\ job[b] # Idle => /\ job[b] \in Job /\ job[b].op \in Ops /\ job[b].at \in Stages
                              /\ job[b].seen \in User /\ job[b].seen.version \in Nat
                              /\ job[b].seen.secret \in Int /\ job[b].seen.last \in Int
                              /\ job[b].code \in Codes \cup {NoCode}
<1>1. job[b] \in Job \cup {Idle}
  BY DEF TypeOK
<1>2. job[b] \in Job => job[b].op # "idle" /\ job[b].at # "idle"
  BY DEF Job, Ops, Guarded, Rotating, Stages
<1>3. \A u \in User : u.version \in Nat /\ u.secret \in Int /\ u.last \in Int
  BY SecondFactorAssumption DEF User, None
<1> QED BY <1>1, <1>2, <1>3 DEF Job, Idle

LEMMA RowFields ==
    ASSUME TypeOK
    PROVE  /\ user.version \in Nat /\ user.secret \in Int /\ user.last \in Int
           /\ user.enabled \in BOOLEAN /\ user.codes \subseteq Codes
           /\ drawn.secrets \in Nat /\ drawn.codes \in Nat
BY SecondFactorAssumption DEF TypeOK, User, None

LEMMA FiniteDrawing == IsFiniteSet(Drawing) /\ Cardinality(Drawing) \in Nat
<1>1. Drawing \subseteq Browsers
  BY DEF Drawing
<1> QED BY <1>1, SecondFactorAssumption, FS_Subset, FS_CardinalityType

\* A request that ends, or goes on, gives back the room it does not need.
LEMMA RoomKept ==
    ASSUME Room, drawn.codes \in Nat, drawn'.codes = drawn.codes, Drawing' \subseteq Drawing
    PROVE  Room'
<1>1. Cardinality(Drawing') <= Cardinality(Drawing) /\ Cardinality(Drawing') \in Nat
  BY FiniteDrawing, FS_Subset, FS_CardinalityType
<1> QED BY <1>1, FiniteDrawing, SecondFactorAssumption DEF Room

\* The codes drawn take the place of the request that drew them.
LEMMA RoomUsed ==
    ASSUME Room, drawn.codes \in Nat, drawn'.codes = drawn.codes + 1,
           NEW b \in Drawing, Drawing' \subseteq Drawing \ {b}
    PROVE  Room' /\ drawn'.codes <= MaxGeneration
<1>1. /\ IsFiniteSet(Drawing \ {b})
      /\ Cardinality(Drawing \ {b}) = Cardinality(Drawing) - 1
  BY FiniteDrawing, FS_RemoveElement
<1>2. Cardinality(Drawing') <= Cardinality(Drawing \ {b}) /\ Cardinality(Drawing') \in Nat
  BY <1>1, FS_Subset, FS_CardinalityType
<1> QED BY <1>1, <1>2, FiniteDrawing, SecondFactorAssumption DEF Room

\* A request begins: there was room for one more.
LEMMA RoomTaken ==
    ASSUME TypeOK, Room, NEW b \in Browsers, NEW op \in Issuing, RoomFor(op),
           drawn' = drawn, Drawing' \subseteq Drawing \cup {b}
    PROVE  Room'
<1>1. Drawing \subseteq InFlight(Issuing) /\ InFlight(Issuing) \subseteq Browsers
  BY DEF Drawing, InFlight
<1>2. IsFiniteSet(InFlight(Issuing)) /\ Cardinality(InFlight(Issuing)) \in Nat
  BY <1>1, SecondFactorAssumption, FS_Subset, FS_CardinalityType
<1>3. Cardinality(Drawing) <= Cardinality(InFlight(Issuing))
  BY <1>1, <1>2, FS_Subset
<1>4. /\ IsFiniteSet(Drawing \cup {b})
      /\ Cardinality(Drawing \cup {b}) <= Cardinality(Drawing) + 1
      /\ Cardinality(Drawing \cup {b}) \in Nat
  <2>1. /\ IsFiniteSet(Drawing \cup {b})
        /\ Cardinality(Drawing \cup {b}) =
              IF b \in Drawing THEN Cardinality(Drawing) ELSE Cardinality(Drawing) + 1
    BY FiniteDrawing, FS_AddElement
  <2> QED BY <2>1, FiniteDrawing
<1>5. Cardinality(Drawing') <= Cardinality(Drawing \cup {b}) /\ Cardinality(Drawing') \in Nat
  BY <1>4, FS_Subset, FS_CardinalityType
<1>6. drawn.codes \in Nat /\ drawn.codes + Cardinality(InFlight(Issuing)) < MaxGeneration
  BY RowFields DEF RoomFor
<1> QED BY <1>2, <1>3, <1>4, <1>5, <1>6, FiniteDrawing, SecondFactorAssumption DEF Room


-----------------------------------------------------------------------------
(* Steps of one request.                                                   *)

\* The requests of the other browsers do not move.
Only(b) == \A a \in Browsers \ {b} : job'[a] = job[a]

Requests == [Browsers -> Job \cup {Idle}]

LEMMA BeginStep ==
    ASSUME TypeOK, NEW b \in Browsers, NEW op \in Ops, NEW at \in Stages,
           NEW c \in Codes \cup {NoCode}, Begin(b, op, at, c)
    PROVE  /\ job' \in Requests /\ Only(b)
           /\ job'[b] = [op |-> op, at |-> at, seen |-> user, code |-> c] /\ job'[b] # Idle
           /\ job'[b].op = op /\ job'[b].at = at /\ job'[b].seen = user /\ job'[b].code = c
<1>1. [op |-> op, at |-> at, seen |-> user, code |-> c] \in Job
  BY DEF Job, TypeOK
<1>2. job' \in Requests /\ Only(b) /\ job'[b] = [op |-> op, at |-> at, seen |-> user, code |-> c]
  BY <1>1 DEF Begin, TypeOK, Requests, Only
<1>3. job'[b].op # "idle"
  BY <1>2 DEF Ops, Guarded, Rotating
<1> QED BY <1>2, <1>3 DEF Idle

LEMMA GotoStep ==
    ASSUME TypeOK, NEW b \in Browsers, job[b] # Idle, NEW at \in Stages, Goto(b, at)
    PROVE  /\ job' \in Requests /\ Only(b)
           /\ job'[b] = [job[b] EXCEPT !.at = at] /\ job'[b] # Idle
           /\ job'[b].op = job[b].op /\ job'[b].at = at
           /\ job'[b].seen = job[b].seen /\ job'[b].code = job[b].code
<1>1. job[b] \in Job /\ job[b].op # "idle"
  BY RequestFields
<1>2. [job[b] EXCEPT !.at = at] \in Job
  BY <1>1 DEF Job
<1>3. job' \in Requests /\ Only(b) /\ job'[b] = [job[b] EXCEPT !.at = at]
  BY <1>2 DEF Goto, TypeOK, Requests, Only
<1> QED BY <1>1, <1>3 DEF Idle, Job

LEMMA EndStep ==
    ASSUME TypeOK, NEW b \in Browsers, End(b)
    PROVE  /\ job' \in Requests /\ Only(b) /\ job'[b] = Idle
           /\ job'[b].op = "idle" /\ job'[b].at = "idle"
BY DEF End, TypeOK, Requests, Only, Idle

LEMMA ReloadStep ==
    ASSUME TypeOK, NEW b \in Browsers, Reload(b)
    PROVE  /\ job[b] # Idle /\ job' \in Requests /\ Only(b) /\ job'[b] # Idle
           /\ job'[b].op = job[b].op /\ job'[b].at = "commit"
           /\ job'[b].seen = user /\ job'[b].code = job[b].code
<1>1. job[b] # Idle /\ job[b] \in Job /\ job[b].op # "idle"
  BY RequestFields DEF Reload
<1>2. [job[b] EXCEPT !.at = "commit", !.seen = user] \in Job
  BY <1>1 DEF Job, TypeOK, Stages
<1>3. /\ job' \in Requests /\ Only(b)
      /\ job'[b] = [job[b] EXCEPT !.at = "commit", !.seen = user]
  BY <1>2 DEF Reload, TypeOK, Requests, Only
<1> QED BY <1>1, <1>3 DEF Idle, Job

(* The steps that leave the row, the codes and the pending secrets alone and
   begin a request, which may need room.                                      *)
BeginsWith(b, op, at, c) ==
    /\ job[b] = Idle /\ Begin(b, op, at, c)
    /\ RoomFor(op)
    /\ op \notin {"login", "loginTotp"} => Authenticates(b)
    /\ at \notin {"reload", "respond"}
    /\ at = "consume" => c \in Codes /\ Accepted(user, c) /\ user.enabled
    /\ op = "setup" => /\ at = "commit" /\ ~user.enabled
                      /\ pending[b] # None /\ TotpAccepted(user, pending[b], c)
    /\ op # "setup" /\ at = "commit" =>
          c = NoCode /\ (op # "logoutEverywhere" => ~user.enabled)
    /\ UNCHANGED <<now, user, cookie, pre, pending, drawn, spent, uses, overtaken>>

Begins(b) ==
    \E op \in Ops, at \in Stages, c \in Codes \cup {NoCode} : BeginsWith(b, op, at, c)

\* The steps that read the row, if at all: they end a request or need none.
Signs(b) ==
    \/ FinishLogin(b) \/ SecondStepRefused(b) \/ Enter(b) \/ Logout(b) \/ Fail(b)
    \/ Respond(b)

\* The steps that write it
Writes(b) == Consume(b) \/ CommitSetup(b) \/ CommitRegenerate(b) \/ CommitRotation(b)

LEMMA StepKinds ==
    ASSUME TypeOK, NEW b \in Browsers, Step(b)
    PROVE  Begins(b) \/ Signs(b) \/ ShowSetup(b) \/ Reload(b) \/ Writes(b)
<1> USE DEF Ops, Guarded, Rotating, Issuing, Stages
<1>1. CASE BeginLogin(b)
  <2>1. RoomFor("login")
    BY DEF RoomFor
  <2> QED BY <1>1, <2>1 DEF BeginLogin, Begins, BeginsWith
<1>2. CASE \E c \in Codes : BeginSecondStep(b, c)
  <2>1. RoomFor("loginTotp")
    BY DEF RoomFor
  <2> QED BY <1>2, <2>1 DEF BeginSecondStep, Begins, BeginsWith
<1>3. CASE \E c \in Codes : BeginSetup(b, c)
  BY <1>3 DEF BeginSetup, Begins, BeginsWith
<1>4. CASE \E op \in Guarded, c \in Codes \cup {NoCode} : BeginGuarded(b, op, c)
  <2>1. PICK op \in Guarded : \E c \in Codes \cup {NoCode} : BeginGuarded(b, op, c)
    BY <1>4
  <2>2. PICK c \in Codes \cup {NoCode} : BeginGuarded(b, op, c)
    BY <2>1
  <2>3. NoCode \notin Codes
    BY CodeFields
  <2>4. CASE user.enabled
    <3>1. c \in Codes
      BY <2>2, <2>4, RowFields DEF BeginGuarded, Accepted, TotpAccepted, NoCode
    <3> QED BY <2>2, <2>4, <3>1 DEF BeginGuarded, Begins, BeginsWith
  <2>5. CASE ~user.enabled
    BY <2>2, <2>5 DEF BeginGuarded, Begins, BeginsWith
  <2> QED BY <2>4, <2>5
<1>5. CASE BeginLogoutEverywhere(b)
  BY <1>5 DEF BeginLogoutEverywhere, Begins, BeginsWith
<1> QED BY <1>1, <1>2, <1>3, <1>4, <1>5 DEF Step, Signs, Writes


-----------------------------------------------------------------------------
(* What holds whatever overlaps, step by step.                             *)

\* Nothing is drawn twice.
Draws == drawn.secrets <= drawn'.secrets /\ drawn.codes <= drawn'.codes

LEMMA SoundKept ==
    ASSUME TypeOK, drawn'.secrets \in Nat, drawn'.codes \in Nat, Draws,
           NEW u \in User, Sound(u), NEW v, v = u
    PROVE  /\ v.enabled <=> v.secret # None
           /\ v.secret <= drawn'.secrets
           /\ \A c \in v.codes : c.by = "recovery" /\ c.of <= drawn'.codes
<1>1. drawn.secrets \in Nat /\ drawn.codes \in Nat /\ u.secret \in Int /\ u.codes \subseteq Codes
  BY SecondFactorAssumption, RowFields DEF User, None
<1>2. \A c \in u.codes : c.of \in Int
  BY <1>1, CodeFields
<1> QED BY <1>1, <1>2 DEF Sound, Draws

LEMMA JobKept ==
    ASSUME TypeOK, drawn'.secrets \in Nat, drawn'.codes \in Nat, Draws,
           NEW a \in Browsers, JobOK(a), job'[a] = job[a],
           job[a].op = "setup" /\ job[a].at = "commit" => pending'[a] = pending[a]
    PROVE  JobOK(a)'
<1> SUFFICES ASSUME job[a] # Idle PROVE JobOK(a)'
  BY DEF JobOK, Idle
<1>1. Sound(job[a].seen)'
  BY SoundKept, RequestFields DEF JobOK, Sound
<1> QED BY <1>1 DEF JobOK, Good, Idle

LEMMA BaseBegins ==
    ASSUME Base, NEW b \in Browsers, NEW op \in Ops, NEW at \in Stages,
           NEW c \in Codes \cup {NoCode}, BeginsWith(b, op, at, c)
    PROVE  Base'
<1>2. /\ job[b] = Idle /\ Begin(b, op, at, c)
      /\ RoomFor(op)
      /\ at \notin {"reload", "respond"}
      /\ at = "consume" => c \in Codes /\ Accepted(user, c) /\ user.enabled
      /\ op = "setup" => /\ at = "commit" /\ ~user.enabled
                        /\ pending[b] # None /\ TotpAccepted(user, pending[b], c)
      /\ UNCHANGED <<now, user, cookie, pre, pending, drawn, spent, uses, overtaken>>
  BY DEF BeginsWith
<1>3. TypeOK
  BY DEF Base
<1>4. /\ job' \in Requests /\ Only(b) /\ job'[b] # Idle
      /\ job'[b].op = op /\ job'[b].at = at /\ job'[b].seen = user /\ job'[b].code = c
  BY <1>2, <1>3, BeginStep
<1>5. TypeOK'
  BY <1>2, <1>3, <1>4 DEF TypeOK, Requests
<1>6. Room'
  <2>1. CASE op \in Issuing
    <3>1. Drawing' \subseteq Drawing \cup {b}
      BY <1>4 DEF Drawing, Only
    <3> QED BY <1>2, <1>3, <2>1, <3>1, RoomTaken DEF Base
  <2>2. CASE op \notin Issuing
    <3>1. Drawing' \subseteq Drawing
      BY <1>4, <2>2 DEF Drawing, Only
    <3> QED BY <1>2, <1>3, <3>1, RoomKept, RowFields DEF Base
  <2> QED BY <2>1, <2>2
<1>7. Sound(user)' /\ Drawn'
  BY <1>2 DEF Base, Sound, Drawn
<1>8. JobOK(b)'
  <2>1. Sound(job[b].seen)'
    BY <1>2, <1>4 DEF Base, Sound
  <2>2. at = "consume" => Good(user, c)
    <3>1. ASSUME at = "consume", TotpAccepted(user, user.secret, c) PROVE Good(user, c)
      BY <1>2, <3>1 DEF Good, TotpAccepted
    <3>2. ASSUME at = "consume", c \in user.codes PROVE Good(user, c)
      BY <1>2, <3>2 DEF Good, Base, Sound
    <3> QED BY <1>2, <3>1, <3>2 DEF Accepted
  <2>3. op = "setup" => c \in TotpCodes /\ c.of = pending[b]
    BY <1>2, CodeKinds DEF TotpAccepted, NoCode
  <2> QED BY <1>2, <1>4, <2>1, <2>2, <2>3 DEF JobOK, Good
<1>9. \A a \in Browsers : JobOK(a)'
  <2> SUFFICES ASSUME NEW a \in Browsers, a # b PROVE JobOK(a)'
    BY <1>8
  <2> QED BY <1>2, <1>3, <1>4, JobKept, RowFields DEF Base, Draws, Only
<1> QED BY <1>5, <1>6, <1>7, <1>9 DEF Base

LEMMA BaseReload ==
    ASSUME Base, NEW b \in Browsers, Reload(b)
    PROVE  Base'
<1>1. TypeOK
  BY DEF Base
<1>2. /\ job[b] # Idle /\ job' \in Requests /\ Only(b) /\ job'[b] # Idle
      /\ job'[b].op = job[b].op /\ job'[b].at = "commit"
      /\ job'[b].seen = user /\ job'[b].code = job[b].code
  BY <1>1, ReloadStep
<1>3. /\ job[b].at = "reload"
      /\ UNCHANGED <<now, user, cookie, pre, pending, drawn, spent, uses, overtaken>>
  BY DEF Reload
<1>4. TypeOK'
  BY <1>1, <1>2, <1>3 DEF TypeOK, Requests
<1>5. Room'
  <2>1. Drawing' \subseteq Drawing
    BY <1>2, <1>3 DEF Drawing, Only
  <2> QED BY <1>1, <1>3, <2>1, RoomKept, RowFields DEF Base
<1>6. Sound(user)' /\ Drawn'
  BY <1>3 DEF Base, Sound, Drawn
<1>7. JobOK(b)'
  <2>1. Sound(job[b].seen)'
    BY <1>2, <1>3 DEF Base, Sound
  <2>2. job[b].op # "setup"
    BY <1>2, <1>3 DEF Base, JobOK
  <2> QED BY <1>2, <2>1, <2>2 DEF JobOK
<1>8. \A a \in Browsers : JobOK(a)'
  <2> SUFFICES ASSUME NEW a \in Browsers, a # b PROVE JobOK(a)'
    BY <1>7
  <2> QED BY <1>1, <1>2, <1>3, JobKept, RowFields DEF Base, Draws, Only
<1> QED BY <1>4, <1>5, <1>6, <1>8 DEF Base


\* A request ends, or a session is left; of the rest only the browser's own
\* cookie, pre-2FA state and pending secret change.
LEMMA SignsStep ==
    ASSUME TypeOK, NEW b \in Browsers, Signs(b)
    PROVE  /\ job' \in Requests /\ Only(b)
           /\ job'[b] = Idle \/ (job'[b] = job[b] /\ job[b] = Idle)
           /\ cookie' \in [Browsers -> [version: Nat \cup {None}, second: BOOLEAN]]
           /\ \A a \in Browsers \ {b} : cookie'[a] = cookie[a]
           /\ pre' \in [Browsers -> Nat \cup {None}]
           /\ pending' \in {pending, [pending EXCEPT ![b] = None]}
           /\ UNCHANGED <<now, user, drawn, spent, uses>>
           /\ overtaken' \in BOOLEAN /\ (overtaken => overtaken')
<1>1. user.version \in Nat /\ now \in Nat
  BY RowFields, SecondFactorAssumption DEF TypeOK
<1>2. job[b] # Idle => job[b].seen.version \in Nat
  BY RequestFields
<1> USE DEF NoCookie
<1>3. CASE FinishLogin(b)
  <2>1. job[b] # Idle /\ End(b)
    BY <1>3, RequestFields DEF FinishLogin
  <2>2. /\ job' \in Requests /\ Only(b) /\ job'[b] = Idle
    BY <2>1, EndStep
  <2>3. /\ \A v \in {NoCookie, [version |-> job[b].seen.version, second |-> FALSE]} :
              v \in [version: Nat \cup {None}, second: BOOLEAN]
        /\ \/ cookie' = [cookie EXCEPT ![b] = NoCookie]
           \/ cookie' = [cookie EXCEPT ![b] = [version |-> job[b].seen.version, second |-> FALSE]]
    BY <1>2, <1>3, <2>1 DEF FinishLogin
  <2>4. /\ cookie' \in [Browsers -> [version: Nat \cup {None}, second: BOOLEAN]]
        /\ \A a \in Browsers \ {b} : cookie'[a] = cookie[a]
    BY <2>3 DEF TypeOK
  <2>5. pre' \in [Browsers -> Nat \cup {None}]
    BY <1>1, <1>3 DEF FinishLogin, TypeOK
  <2> QED BY <1>3, <2>2, <2>4, <2>5 DEF FinishLogin, TypeOK
<1>4. CASE SecondStepRefused(b)
  BY <1>4 DEF SecondStepRefused, TypeOK, Requests, Only
<1>5. CASE Enter(b)
  <2>1. /\ job' \in Requests /\ Only(b) /\ job'[b] = Idle
    BY <1>5, EndStep DEF Enter
  <2> QED BY <1>1, <1>5, <2>1 DEF Enter, TypeOK
<1>6. CASE Logout(b)
  BY <1>6 DEF Logout, TypeOK, Requests, Only
<1>7. CASE Fail(b)
  <2>1. /\ job' \in Requests /\ Only(b) /\ job'[b] = Idle
    BY <1>7, EndStep DEF Fail
  <2> QED BY <1>7, <2>1 DEF Fail, TypeOK
<1>8. CASE Respond(b)
  <2>1. /\ job' \in Requests /\ Only(b) /\ job'[b] = Idle
    BY <1>8, EndStep DEF Respond
  <2>2. cookie[b].second \in BOOLEAN
    BY DEF TypeOK
  <2>3. cookie' \in [Browsers -> [version: Nat \cup {None}, second: BOOLEAN]]
    BY <1>1, <1>8, <2>2 DEF Respond, TypeOK
  <2> QED BY <1>1, <1>8, <2>1, <2>3 DEF Respond, TypeOK
<1> QED BY <1>3, <1>4, <1>5, <1>6, <1>7, <1>8 DEF Signs

LEMMA BaseSigns ==
    ASSUME Base, NEW b \in Browsers, Signs(b)
    PROVE  Base'
<1>1. TypeOK
  BY DEF Base
<1>2. /\ job' \in Requests /\ Only(b) /\ job'[b] = Idle
      /\ pending' \in {pending, [pending EXCEPT ![b] = None]}
      /\ UNCHANGED <<now, user, drawn, spent, uses>>
  BY <1>1, SignsStep
<1>3. TypeOK'
  <2>1. pending' \in [Browsers -> 1..MaxSecret \cup {None}]
    BY <1>1, <1>2 DEF TypeOK
  <2> QED BY <1>1, <1>2, <2>1, SignsStep DEF TypeOK, Requests
<1>4. Room'
  <2>1. Drawing' \subseteq Drawing
    BY <1>2 DEF Drawing, Only, Issuing, Idle
  <2> QED BY <1>1, <1>2, <2>1, RoomKept, RowFields DEF Base
<1>5. Sound(user)'
  BY <1>2 DEF Base, Sound
<1>6. Drawn'
  <2>1. \A a \in Browsers : pending'[a] \in {pending[a], None}
    BY <1>1, <1>2 DEF TypeOK
  <2>2. drawn.secrets \in Nat
    BY <1>1, RowFields
  <2> QED BY <1>2, <2>1, <2>2 DEF Base, Drawn, None
<1>7. \A a \in Browsers : JobOK(a)'
  <2>1. JobOK(b)'
    BY <1>2 DEF JobOK
  <2>2. ASSUME NEW a \in Browsers, a # b PROVE JobOK(a)'
    <3>1. pending'[a] = pending[a]
      BY <1>1, <1>2, <2>2 DEF TypeOK
    <3> QED BY <1>1, <1>2, <2>2, <3>1, JobKept, RowFields DEF Base, Draws, Only
  <2> QED BY <2>1, <2>2
<1> QED BY <1>3, <1>4, <1>5, <1>6, <1>7 DEF Base

LEMMA BaseShowSetup ==
    ASSUME Base, NEW b \in Browsers, ShowSetup(b)
    PROVE  Base'
<1>1. TypeOK
  BY DEF Base
<1>2. /\ drawn.secrets \in Nat /\ drawn.secrets < MaxSecret /\ drawn.codes \in Nat
      /\ drawn'.secrets = drawn.secrets + 1 /\ drawn'.codes = drawn.codes
      /\ drawn' \in [secrets: 0..MaxSecret, codes: Nat]
  BY <1>1, RowFields, SecondFactorAssumption DEF ShowSetup, TypeOK
<1>3. /\ pending' \in [Browsers -> 1..MaxSecret \cup {None}]
      /\ \A a \in Browsers : pending'[a] = IF a = b THEN drawn.secrets + 1 ELSE pending[a]
      /\ \A a \in Browsers : pending[a] \in Int
  BY <1>1, <1>2, SecondFactorAssumption DEF ShowSetup, TypeOK, None
<1>4. job' = job /\ job[b] = Idle /\ UNCHANGED <<now, user, cookie, pre, spent, uses, overtaken>>
  BY DEF ShowSetup
<1>5. TypeOK'
  BY <1>1, <1>2, <1>3, <1>4 DEF TypeOK
<1>6. Room'
  <2>1. Drawing' \subseteq Drawing
    BY <1>4 DEF Drawing
  <2> QED BY <1>1, <1>2, <2>1, RoomKept, RowFields DEF Base
<1>7. Sound(user)'
  <2>1. user \in User
    BY <1>1 DEF TypeOK
  <2> QED BY <1>1, <1>2, <1>4, <2>1, SoundKept DEF Base, Draws, Sound
<1>8. Drawn'
  <2>1. \A c \in spent : c.of \in Int
    BY <1>1, CodeFields DEF TypeOK
  <2>2. \A c \in spent : c.of <= IF c.by = "totp" THEN drawn'.secrets ELSE drawn'.codes
    BY <1>2, <2>1 DEF Base, Drawn
  <2>3. \A a \in Browsers : pending[a] <= drawn.secrets
    BY DEF Base, Drawn
  <2>4. \A a \in Browsers : pending'[a] <= drawn'.secrets
    BY <1>2, <1>3, <2>3
  <2>5. \A a, d \in Browsers : a # d /\ pending'[a] # None => pending'[a] # pending'[d]
    BY <1>2, <1>3, <2>3 DEF Base, Drawn
  <2> QED BY <1>4, <2>2, <2>4, <2>5 DEF Drawn
<1>9. \A a \in Browsers : JobOK(a)'
  <2> SUFFICES ASSUME NEW a \in Browsers PROVE JobOK(a)'
    OBVIOUS
  <2>1. job[a].op = "setup" => pending'[a] = pending[a]
    BY <1>3, <1>4 DEF Idle
  <2> QED BY <1>1, <1>2, <1>4, <2>1, JobKept DEF Base, Draws
<1> QED BY <1>5, <1>6, <1>7, <1>8, <1>9 DEF Base


LEMMA BaseConsume ==
    ASSUME Base, NEW b \in Browsers, Consume(b)
    PROVE  Base'
<1> DEFINE seen == job[b].seen
           c == job[b].code
<1>1. TypeOK
  BY DEF Base
<1>2. /\ job[b] # Idle /\ seen \in User /\ c \in Codes /\ Good(seen, c) /\ Sound(seen)
      /\ job[b].op \in Ops /\ job[b].op # "setup" /\ job[b].at = "consume"
  BY <1>1, RequestFields DEF Consume, Base, JobOK, Idle
<1>3. /\ job' \in Requests /\ Only(b)
      /\ \/ job'[b] = Idle
         \/ /\ job'[b] # Idle /\ job'[b].op = job[b].op /\ job'[b].at # "consume"
            /\ job'[b].seen = seen /\ job'[b].code = c
  <2>1. CASE job[b].op = "export"
    BY <1>1, <2>1, EndStep DEF Consume
  <2>2. CASE job[b].op # "export"
    <3>1. AfterConsume(job[b].op) \in Stages \ {"consume"}
      BY DEF AfterConsume, Stages
    <3> QED BY <1>1, <1>2, <2>2, <3>1, GotoStep DEF Consume
  <2> QED BY <2>1, <2>2
<1>4. /\ user' \in User
      /\ user'.enabled = user.enabled /\ user'.secret = user.secret
      /\ user'.codes \subseteq user.codes \cup seen.codes
  <2>1. CASE c.by = "totp"
    <3>1. Consumed(seen, c).last = c.n /\ c.n \in Int
      BY <1>2, <2>1, CodeFields DEF Consumed, User
    <3> QED BY <1>1, <2>1, <3>1 DEF Consume, TypeOK, User
  <2>2. CASE c.by # "totp"
    <3>1. Consumed(seen, c).codes = seen.codes \ {c}
      BY <1>2, <2>2 DEF Consumed, User
    <3> QED BY <1>1, <1>2, <2>2, <3>1 DEF Consume, TypeOK, User
  <2> QED BY <2>1, <2>2
<1>5. /\ spent' = spent \cup {c} /\ uses' = uses + 1 /\ overtaken' \in BOOLEAN
      /\ UNCHANGED <<now, cookie, pre, pending, drawn>>
  BY <1>1 DEF Consume, TypeOK
<1>6. TypeOK'
  BY <1>1, <1>2, <1>3, <1>4, <1>5 DEF TypeOK, Requests, Base, Sound
<1>7. Room'
  <2>1. Drawing' \subseteq Drawing
    BY <1>2, <1>3 DEF Drawing, Only, Issuing, Idle
  <2> QED BY <1>1, <1>5, <2>1, RoomKept, RowFields DEF Base
<1>8. Sound(user)'
  BY <1>2, <1>4, <1>5 DEF Base, Sound
<1>9. Drawn'
  <2>1. c.by = "totp" => c.of <= drawn.secrets
    BY <1>2 DEF Good, Sound
  <2>2. c.by # "totp" => c.of <= drawn.codes
    BY <1>2 DEF Good, Sound
  <2> QED BY <1>5, <2>1, <2>2 DEF Base, Drawn
<1>10. \A a \in Browsers : JobOK(a)'
  <2>1. JobOK(b)'
    BY <1>2, <1>3, <1>5 DEF JobOK, Sound
  <2>2. ASSUME NEW a \in Browsers, a # b PROVE JobOK(a)'
    BY <1>1, <1>3, <1>5, <2>2, JobKept, RowFields DEF Base, Draws, Only
  <2> QED BY <2>1, <2>2
<1> QED BY <1>6, <1>7, <1>8, <1>9, <1>10 DEF Base

\* The codes drawn next
LEMMA NewCodes ==
    ASSUME Base, NEW b \in Browsers, job[b].op \in Issuing, job[b].at = "commit",
           Only(b), job'[b].op \notin Issuing \/ job'[b].at = "respond",
           drawn' = [drawn EXCEPT !.codes = @ + 1]
    PROVE  /\ Room' /\ drawn' \in [secrets: 0..MaxSecret, codes: Nat] /\ Draws
           /\ drawn'.secrets = drawn.secrets /\ drawn'.codes = drawn.codes + 1
           /\ RecoveryCodes(drawn.codes + 1) \subseteq Codes
           /\ \A c \in RecoveryCodes(drawn.codes + 1) :
                  c.by = "recovery" /\ c.of = drawn.codes + 1
<1>1. drawn.codes \in Nat /\ drawn.secrets \in Nat
  BY RowFields DEF Base
<1>2. /\ drawn' \in [secrets: 0..MaxSecret, codes: Nat]
      /\ drawn'.secrets = drawn.secrets /\ drawn'.codes = drawn.codes + 1
  BY <1>1 DEF Base, TypeOK
<1>3. b \in Drawing /\ Drawing' \subseteq Drawing \ {b}
  BY DEF Drawing, Only
<1>4. Room' /\ drawn'.codes <= MaxGeneration
  BY <1>1, <1>2, <1>3, RoomUsed DEF Base
<1>5. drawn.codes + 1 \in 1..MaxGeneration
  BY <1>1, <1>2, <1>4, SecondFactorAssumption
<1> QED BY <1>1, <1>2, <1>4, <1>5, SetOfCodes DEF Draws

LEMMA SpentDrawn ==
    ASSUME Base, drawn'.secrets \in Nat, drawn'.codes \in Nat, Draws
    PROVE  \A c \in spent : c.of <= IF c.by = "totp" THEN drawn'.secrets ELSE drawn'.codes
<1>1. \A c \in spent : c.of \in Int
  BY CodeFields DEF Base, TypeOK
<1> QED BY <1>1, RowFields DEF Base, Drawn, Draws

LEMMA BaseCommitSetup ==
    ASSUME Base, NEW b \in Browsers, CommitSetup(b)
    PROVE  Base'
<1> DEFINE c == job[b].code
           new == RecoveryCodes(drawn.codes + 1)
<1>1. TypeOK
  BY DEF Base
<1>2. /\ job[b] # Idle /\ job[b].op = "setup" /\ job[b].at = "commit"
      /\ job[b].seen \in User /\ job[b].seen.version \in Nat /\ Sound(job[b].seen)
      /\ c \in TotpCodes /\ pending[b] # None /\ c.of = pending[b]
      /\ c \in Codes /\ c.by = "totp" /\ c.n \in Int
  BY <1>1, RequestFields, TotpIsCode DEF CommitSetup, Base, JobOK, Idle
<1>3. /\ job' \in Requests /\ Only(b) /\ job'[b] # Idle
      /\ job'[b].op = "setup" /\ job'[b].at = "respond"
      /\ job'[b].seen = job[b].seen /\ job'[b].code = c
  BY <1>1, <1>2, GotoStep DEF CommitSetup, Stages
<1>4. /\ Room' /\ drawn' \in [secrets: 0..MaxSecret, codes: Nat] /\ Draws
      /\ drawn'.secrets = drawn.secrets /\ drawn'.codes = drawn.codes + 1
      /\ new \subseteq Codes /\ \A d \in new : d.by = "recovery" /\ d.of = drawn.codes + 1
  BY <1>2, <1>3, NewCodes DEF CommitSetup, Issuing
<1>5. /\ user' = [enabled |-> TRUE, secret |-> pending[b], last |-> c.n, codes |-> new,
                  version |-> job[b].seen.version + 1]
      /\ spent' = spent \cup {c} /\ uses' = uses + 1 /\ overtaken' \in BOOLEAN
      /\ UNCHANGED <<now, cookie, pre, pending>>
  BY <1>1 DEF CommitSetup, TypeOK
<1>6. user' \in User
  BY <1>1, <1>2, <1>4, <1>5 DEF User, TypeOK
<1>7. TypeOK'
  <2>1. uses' \in Nat /\ spent' \subseteq Codes
    BY <1>1, <1>2, <1>5 DEF TypeOK
  <2> QED BY <1>1, <1>2, <1>3, <1>4, <1>5, <1>6, <2>1 DEF TypeOK, Requests
<1>8. Sound(user)'
  <2>1. pending[b] <= drawn'.secrets /\ drawn'.codes = drawn.codes + 1 /\ drawn.codes \in Nat
    BY <1>1, <1>4, RowFields DEF Base, Drawn
  <2> QED BY <1>2, <1>4, <1>5, <2>1 DEF Sound
<1>9. Drawn'
  <2>1. \A d \in spent : d.of <= IF d.by = "totp" THEN drawn'.secrets ELSE drawn'.codes
    BY <1>4, SpentDrawn
  <2>2. c.of <= drawn'.secrets
    BY <1>2, <1>4 DEF Base, Drawn
  <2> QED BY <1>2, <1>4, <1>5, <2>1, <2>2 DEF Base, Drawn
<1>10. \A a \in Browsers : JobOK(a)'
  <2>1. Sound(job[b].seen)'
    BY <1>1, <1>2, <1>3, <1>4, SoundKept DEF Sound
  <2>2. JobOK(b)'
    BY <1>2, <1>3, <2>1 DEF JobOK
  <2>3. ASSUME NEW a \in Browsers, a # b PROVE JobOK(a)'
    BY <1>1, <1>3, <1>4, <1>5, <2>3, JobKept DEF Base, Only
  <2> QED BY <2>2, <2>3
<1> QED BY <1>4, <1>7, <1>8, <1>9, <1>10 DEF Base

LEMMA BaseCommitRegenerate ==
    ASSUME Base, NEW b \in Browsers, CommitRegenerate(b)
    PROVE  Base'
<1> DEFINE new == RecoveryCodes(drawn.codes + 1)
<1>1. TypeOK
  BY DEF Base
<1>2. job' \in Requests /\ Only(b) /\ job'[b] = Idle /\ job'[b].op = "idle"
  BY <1>1, EndStep DEF CommitRegenerate
<1>3. /\ Room' /\ drawn' \in [secrets: 0..MaxSecret, codes: Nat] /\ Draws
      /\ drawn'.secrets = drawn.secrets /\ drawn'.codes = drawn.codes + 1
      /\ new \subseteq Codes /\ \A d \in new : d.by = "recovery" /\ d.of = drawn.codes + 1
  BY <1>2, NewCodes DEF CommitRegenerate, Issuing
<1>4. /\ user' = [user EXCEPT !.codes = new] /\ user' \in User
      /\ user'.codes = new /\ user'.enabled = user.enabled /\ user'.secret = user.secret
      /\ UNCHANGED <<now, cookie, pre, pending, spent, uses, overtaken>>
  BY <1>1, <1>3 DEF CommitRegenerate, TypeOK, User
<1>5. TypeOK'
  BY <1>1, <1>2, <1>3, <1>4 DEF TypeOK, Requests
<1>6. Sound(user)'
  <2>1. drawn'.codes = drawn.codes + 1 /\ drawn.codes \in Nat
    BY <1>1, <1>3, RowFields
  <2> QED BY <1>3, <1>4, <2>1 DEF Base, Sound
<1>7. Drawn'
  BY <1>3, <1>4, SpentDrawn DEF Base, Drawn
<1>8. \A a \in Browsers : JobOK(a)'
  <2>1. JobOK(b)'
    BY <1>2 DEF JobOK
  <2>2. ASSUME NEW a \in Browsers, a # b PROVE JobOK(a)'
    BY <1>1, <1>2, <1>3, <1>4, <2>2, JobKept DEF Base, Only
  <2> QED BY <2>1, <2>2
<1> QED BY <1>3, <1>5, <1>6, <1>7, <1>8 DEF Base

LEMMA BaseCommitRotation ==
    ASSUME Base, NEW b \in Browsers, CommitRotation(b)
    PROVE  Base'
<1>1. TypeOK
  BY DEF Base
<1>2. /\ job[b] # Idle /\ job[b].op \in Rotating \ {"setup"} /\ job[b].at = "commit"
      /\ job[b].seen.version \in Nat /\ Sound(job[b].seen)
  BY <1>1, RequestFields DEF CommitRotation, Base, JobOK, Idle
<1>3. /\ job' \in Requests /\ Only(b) /\ job'[b] # Idle
      /\ job'[b].op = job[b].op /\ job'[b].at = "respond" /\ job'[b].seen = job[b].seen
  BY <1>1, <1>2, GotoStep DEF CommitRotation, Stages
<1>4. overtaken' \in BOOLEAN /\ UNCHANGED <<now, cookie, pre, pending, drawn, spent, uses>>
  BY <1>1 DEF CommitRotation, TypeOK
<1>5. user' \in User /\ Sound(user)'
  <2>1. CASE job[b].op = "disable"
    <3>1. user' = [enabled |-> FALSE, secret |-> None, last |-> None,
                   codes |-> {}, version |-> job[b].seen.version + 1]
      BY <2>1 DEF CommitRotation
    <3>2. drawn'.secrets \in Nat
      BY <1>1, <1>4, RowFields
    <3> QED BY <1>2, <3>1, <3>2 DEF User, None, Sound
  <2>2. CASE job[b].op # "disable"
    <3>1. user' = [user EXCEPT !.version = job[b].seen.version + 1]
      BY <2>2 DEF CommitRotation
    <3> QED BY <1>1, <1>2, <1>4, <3>1 DEF TypeOK, User, Base, Sound
  <2> QED BY <2>1, <2>2
<1>6. TypeOK'
  BY <1>1, <1>3, <1>4, <1>5 DEF TypeOK, Requests, Sound
<1>7. Room'
  <2>1. Drawing' \subseteq Drawing
    BY <1>2, <1>3 DEF Drawing, Only
  <2> QED BY <1>1, <1>4, <2>1, RoomKept, RowFields DEF Base
<1>8. Drawn'
  BY <1>4 DEF Base, Drawn
<1>9. \A a \in Browsers : JobOK(a)'
  <2>1. JobOK(b)'
    BY <1>2, <1>3, <1>4 DEF JobOK, Sound
  <2>2. ASSUME NEW a \in Browsers, a # b PROVE JobOK(a)'
    BY <1>1, <1>3, <1>4, <2>2, JobKept, RowFields DEF Base, Draws, Only
  <2> QED BY <2>1, <2>2
<1> QED BY <1>5, <1>6, <1>7, <1>8, <1>9 DEF Base

LEMMA InitBase == Init => Base
<1> SUFFICES ASSUME Init PROVE Base
  OBVIOUS
<1>1. TypeOK
  <2>1. user \in User /\ ~user.enabled
    BY DEF Init, User, None
  <2>2. drawn \in [secrets: 0..MaxSecret, codes: Nat]
    BY SecondFactorAssumption DEF Init
  <2> QED BY <2>1, <2>2 DEF Init, TypeOK, NoCookie
<1>2. Drawing = {} /\ Cardinality({}) = 0
  BY FS_EmptySet DEF Init, Drawing, Idle, Issuing
<1>3. Room
  BY <1>2, SecondFactorAssumption DEF Init, Room
<1>4. Sound(user) /\ Drawn /\ \A b \in Browsers : JobOK(b)
  BY DEF Init, Sound, Drawn, JobOK, None
<1> QED BY <1>1, <1>3, <1>4 DEF Base

LEMMA BaseSame ==
    ASSUME Base, UNCHANGED <<user, cookie, pre, pending, job, drawn, spent, uses, overtaken>>,
           now' \in 1..MaxTime \cup {1}
    PROVE  Base'
<1>1. TypeOK'
  BY DEF Base, TypeOK
<1>2. Room'
  BY DEF Base, Room, Drawing
<1>3. Sound(user)' /\ Drawn' /\ \A b \in Browsers : JobOK(b)'
  BY DEF Base, Sound, Drawn, JobOK, Good
<1> QED BY <1>1, <1>2, <1>3 DEF Base

LEMMA BaseStep == Base /\ [Next]_vars => Base'
<1> SUFFICES ASSUME Base, [Next]_vars PROVE Base'
  OBVIOUS
<1>1. CASE UNCHANGED vars
  BY <1>1, BaseSame DEF vars, Base, TypeOK
<1>2. CASE Tick
  <2>1. now' \in 1..MaxTime \cup {1}
    BY <1>2, SecondFactorAssumption DEF Tick, Base, TypeOK
  <2> QED BY <1>2, <2>1, BaseSame DEF Tick
<1>3. ASSUME NEW b \in Browsers, Step(b) PROVE Base'
  <2>1. CASE Begins(b)
    <3>1. PICK op \in Ops, at \in Stages, c \in Codes \cup {NoCode} : BeginsWith(b, op, at, c)
      BY <2>1 DEF Begins
    <3> QED BY <3>1, BaseBegins
  <2> QED BY <1>3, <2>1, StepKinds, BaseSigns, BaseShowSetup, BaseReload, BaseConsume,
             BaseCommitSetup, BaseCommitRegenerate, BaseCommitRotation DEF Writes, Base
<1> QED BY <1>1, <1>2, <1>3 DEF Next

-----------------------------------------------------------------------------
(* What holds as long as no request was overtaken, step by step.           *)

LEMMA OvertakenStays ==
    ASSUME Base, [Next]_vars, ~overtaken'
    PROVE  ~overtaken
<1>1. ASSUME NEW b \in Browsers, Step(b) PROVE ~overtaken
  BY <1>1, StepKinds, SignsStep
  DEF Base, Begins, BeginsWith, ShowSetup, Reload, Writes, Consume, CommitSetup,
      CommitRegenerate, CommitRotation
<1> QED BY <1>1 DEF Next, Tick, vars

LEMMA SessionFields ==
    ASSUME TypeOK, NEW b \in Browsers
    PROVE  cookie[b].version \in Int /\ cookie[b].second \in BOOLEAN
BY DEF TypeOK, None

\* Browsers whose session and request stay while the row keeps its version
LEMMA SessionsKept ==
    ASSUME NEW a \in Browsers, Sessions(a), job'[a] = job[a], cookie'[a] = cookie[a],
           user'.enabled = user.enabled, user'.version = user.version
    PROVE  Sessions(a)'
BY DEF Sessions, Authenticates

\* and those of the other browsers when it gets a new one
LEMMA SessionsRaised ==
    ASSUME TypeOK, NEW a \in Browsers, Sessions(a), job'[a] = job[a], cookie'[a] = cookie[a],
           user'.version = user.version + 1
    PROVE  Sessions(a)'
<1>1. user.version \in Nat /\ cookie[a].version \in Int
  BY RowFields, SessionFields
<1>2. job[a] # Idle => job[a].seen.version \in Nat
  BY RequestFields
<1>3. CASE job[a] = Idle
  BY <1>1, <1>3 DEF Sessions, Authenticates, Idle
<1>4. CASE job[a] # Idle
  <2>1. cookie'[a].version < user'.version /\ job'[a].seen.version < user'.version
    BY <1>1, <1>2, <1>4 DEF Sessions
  <2>2. job[a].op \in Rotating /\ job[a].at = "respond" => user'.version # job'[a].seen.version + 1
    BY <1>1, <1>2, <1>4 DEF Sessions
  <2> QED BY <1>1, <1>2, <1>4, <2>1, <2>2 DEF Sessions, Authenticates, Idle
<1> QED BY <1>3, <1>4

LEMMA OrderlyBegins ==
    ASSUME Base, Orderly, NEW b \in Browsers, NEW op \in Ops, NEW at \in Stages,
           NEW c \in Codes \cup {NoCode}, BeginsWith(b, op, at, c)
    PROVE  Orderly'
<1>1. TypeOK
  BY DEF Base
<1>2. UNCHANGED <<now, user, cookie, pre, pending, drawn, spent, uses, overtaken>>
  BY DEF BeginsWith
<1>3. /\ Only(b) /\ job'[b] # Idle
      /\ job'[b].op = op /\ job'[b].at = at /\ job'[b].seen = user /\ job'[b].code = c
  <2>1. Begin(b, op, at, c)
    BY DEF BeginsWith
  <2> QED BY <1>1, <2>1, BeginStep
<1>4. user.version \in Nat
  BY <1>1, RowFields
<1>5. Sessions(b)'
  <2>1. /\ at # "respond"
        /\ op \in Rotating \ {"setup"} /\ at = "commit" => (user.enabled => Authenticates(b))
    BY DEF BeginsWith, Rotating
  <2>2. user.enabled /\ Authenticates(b) => cookie[b].second
    BY DEF Orderly, Sessions
  <2> QED BY <1>2, <1>3, <1>4, <2>1, <2>2 DEF Orderly, Sessions, Authenticates
<1>6. \A a \in Browsers : Sessions(a)'
  <2> SUFFICES ASSUME NEW a \in Browsers, a # b PROVE Sessions(a)'
    BY <1>5
  <2> QED BY <1>2, <1>3, SessionsKept DEF Orderly, Only
<1>7. NewestCodesOnly' /\ Spent'
  BY <1>2 DEF Orderly, NewestCodesOnly, Spent
<1>8. Setups'
  <2> SUFFICES ASSUME NEW a \in Browsers, pending[a] # None
               PROVE  Fresh(pending[a])' \/ Outdated(a)'
    BY <1>2 DEF Setups
  <2>1. CASE Fresh(pending[a])
    BY <1>2, <1>3, <2>1 DEF Fresh, Only
  <2>2. CASE Outdated(a)
    <3>1. a = b => op \in {"login", "loginTotp"}
      BY <1>1, <1>4, <2>2, SessionFields DEF BeginsWith, Outdated, Authenticates
    <3> QED BY <1>2, <1>3, <2>2, <3>1 DEF Outdated, Only
  <2> QED BY <2>1, <2>2 DEF Orderly, Setups
<1>9. InUse'
  <2>1. at = "consume" => user.enabled
    BY DEF BeginsWith
  <2> QED BY <1>2, <1>3, <2>1 DEF Orderly, InUse, Only
<1> QED BY <1>6, <1>7, <1>8, <1>9 DEF Orderly

LEMMA OrderlyReload ==
    ASSUME Base, Orderly, NEW b \in Browsers, Reload(b)
    PROVE  Orderly'
<1>1. TypeOK
  BY DEF Base
<1>2. /\ job[b].at = "reload"
      /\ UNCHANGED <<now, user, cookie, pre, pending, drawn, spent, uses, overtaken>>
  BY DEF Reload
<1>3. /\ job[b] # Idle /\ Only(b) /\ job'[b] # Idle
      /\ job'[b].op = job[b].op /\ job'[b].at = "commit"
      /\ job'[b].seen = user /\ job'[b].code = job[b].code
  BY <1>1, ReloadStep
<1>4. job[b].code # NoCode
  BY <1>2, <1>3, CodeFields DEF Base, JobOK
<1>5. \A a \in Browsers : Sessions(a)'
  <2>1. user.version \in Nat
    BY <1>1, RowFields
  <2>2. Sessions(b)'
    BY <1>2, <1>3, <1>4, <2>1 DEF Orderly, Sessions, Authenticates
  <2>3. ASSUME NEW a \in Browsers, a # b PROVE Sessions(a)'
    BY <1>2, <1>3, <2>3, SessionsKept DEF Orderly, Only
  <2> QED BY <2>2, <2>3
<1>6. NewestCodesOnly' /\ Spent'
  BY <1>2 DEF Orderly, NewestCodesOnly, Spent
<1>7. Setups'
  <2> SUFFICES ASSUME NEW a \in Browsers, pending[a] # None
               PROVE  Fresh(pending[a])' \/ Outdated(a)'
    BY <1>2 DEF Setups
  <2>1. CASE Fresh(pending[a])
    BY <1>2, <1>3, <2>1 DEF Fresh, Only
  <2>2. CASE Outdated(a)
    BY <1>2, <1>3, <2>2 DEF Outdated, Only
  <2> QED BY <2>1, <2>2 DEF Orderly, Setups
<1>8. InUse'
  BY <1>2, <1>3 DEF Orderly, InUse, Only
<1> QED BY <1>5, <1>6, <1>7, <1>8 DEF Orderly

LEMMA OrderlySigns ==
    ASSUME Base, Orderly, NEW b \in Browsers, Signs(b), ~overtaken'
    PROVE  Orderly'
<1>1. TypeOK
  BY DEF Base
<1>2. /\ Only(b) /\ job'[b] = Idle
      /\ \A a \in Browsers \ {b} : cookie'[a] = cookie[a]
      /\ pending' \in {pending, [pending EXCEPT ![b] = None]}
      /\ UNCHANGED <<now, user, drawn, spent, uses>>
      /\ ~overtaken
  BY <1>1, SignsStep
<1>3. /\ user.version \in Nat /\ user.version # None /\ None <= user.version
      /\ cookie \in [Browsers -> [version: Nat \cup {None}, second: BOOLEAN]]
      /\ pending \in [Browsers -> 1..MaxSecret \cup {None}]
  BY <1>1, RowFields DEF None, TypeOK
\* The browser's session is none, as it was, or as new as what it has read.
<1>4. /\ cookie'[b].version <= user.version
      /\ user.enabled /\ cookie'[b].version = user.version => cookie'[b].second
  <2>1. CASE FinishLogin(b)
    <3>1. job[b] # Idle /\ job[b].seen.version \in Nat
      BY <1>1, <2>1, RequestFields DEF FinishLogin
    <3>2. CASE job[b].seen.enabled
      BY <1>3, <2>1, <3>2 DEF FinishLogin, NoCookie
    <3>3. CASE ~job[b].seen.enabled
      <4>1. cookie'[b].version = job[b].seen.version
        BY <1>3, <2>1, <3>3 DEF FinishLogin
      <4>2. /\ job[b].seen.version <= user.version
            /\ user.enabled => job[b].seen.version < user.version
        BY <3>1, <3>3 DEF Orderly, Sessions
      <4> QED BY <1>3, <3>1, <4>1, <4>2
    <3> QED BY <3>2, <3>3
  <2>2. CASE Enter(b)
    BY <1>3, <2>2 DEF Enter
  <2>3. CASE Logout(b)
    BY <1>3, <2>3 DEF Logout, NoCookie
  <2>4. CASE cookie' = cookie
    BY <2>4 DEF Orderly, Sessions, Authenticates
  <2>5. CASE Respond(b)
    <3>1. /\ job[b] # Idle /\ job[b].seen.version \in Nat
          /\ job[b].op \in Rotating /\ job[b].at = "respond"
      BY <1>1, <2>5, RequestFields DEF Respond, Rotating
    <3>2. user.version = job[b].seen.version + 1
      BY <2>5 DEF Respond
    <3>3. user.enabled => cookie[b].second \/ job[b].code # NoCode
      BY <3>1, <3>2 DEF Orderly, Sessions
    <3>4. /\ cookie'[b].version = user.version
          /\ cookie[b].second \/ job[b].code # NoCode => cookie'[b].second
      BY <1>3, <2>5 DEF Respond
    <3> QED BY <1>3, <3>3, <3>4
  <2> QED BY <2>1, <2>2, <2>3, <2>4, <2>5 DEF Signs, SecondStepRefused, Fail
<1>5. \A a \in Browsers : Sessions(a)'
  <2>1. Sessions(b)'
    BY <1>2, <1>4 DEF Sessions, Authenticates
  <2>2. ASSUME NEW a \in Browsers, a # b PROVE Sessions(a)'
    BY <1>2, <2>2, SessionsKept DEF Orderly, Only
  <2> QED BY <2>1, <2>2
<1>6. NewestCodesOnly' /\ Spent'
  BY <1>2 DEF Orderly, NewestCodesOnly, Spent
<1>7. Setups'
  <2> SUFFICES ASSUME NEW a \in Browsers, pending'[a] # None
               PROVE  Fresh(pending'[a]) \/ Outdated(a)'
    <3>1. \A a \in Browsers : Fresh(pending'[a]) => Fresh(pending[a])'
      BY <1>2 DEF Fresh, Only
    <3> QED BY <3>1 DEF Setups
  <2>1. pending'[a] = pending[a] /\ pending[a] # None
    BY <1>2, <1>3
  <2>2. ASSUME Outdated(a) PROVE Fresh(pending[a]) \/ Outdated(a)'
    <3>1. CASE a # b
      BY <1>2, <2>2, <3>1 DEF Outdated, Only
    <3>2. CASE a = b /\ cookie' = cookie
      BY <1>2, <2>2, <3>2 DEF Outdated, Idle
    <3>3. CASE a = b /\ cookie' # cookie
      <4>1. Respond(b)
        BY <1>3, <2>1, <3>3 DEF Signs, FinishLogin, SecondStepRefused, Enter, Logout, Fail
      <4>2. job[b].op = "disable"
        BY <1>3, <2>1, <3>3, <4>1 DEF Respond
      <4> QED BY <2>2, <3>3, <4>2 DEF Outdated
    <3> QED BY <3>1, <3>2, <3>3
  <2> QED BY <2>1, <2>2 DEF Orderly, Setups
<1>8. InUse'
  BY <1>2 DEF Orderly, InUse, Only, Idle
<1> QED BY <1>5, <1>6, <1>7, <1>8 DEF Orderly

LEMMA OrderlyShowSetup ==
    ASSUME Base, Orderly, NEW b \in Browsers, ShowSetup(b)
    PROVE  Orderly'
<1>1. TypeOK
  BY DEF Base
<1>2. UNCHANGED <<now, user, cookie, pre, job, spent, uses, overtaken>>
  BY DEF ShowSetup
<1>3. /\ drawn.secrets \in Nat /\ drawn'.codes = drawn.codes
      /\ \A a \in Browsers : pending'[a] = IF a = b THEN drawn.secrets + 1 ELSE pending[a]
  BY <1>1, RowFields DEF ShowSetup, TypeOK
<1>4. Fresh(drawn.secrets + 1)
  <2>1. user.secret \in Int /\ user.secret <= drawn.secrets
    BY <1>1, RowFields DEF Base, Sound
  <2>2. \A a \in Browsers :
          job[a] # Idle => job[a].seen.secret \in Int /\ job[a].seen.secret <= drawn.secrets
    BY <1>1, RequestFields DEF Base, JobOK, Sound
  <2>3. \A c \in spent : c.of \in Int /\ (c.by = "totp" => c.of <= drawn.secrets)
    BY <1>1, CodeFields DEF TypeOK, Base, Drawn
  <2> QED BY <1>3, <2>1, <2>2, <2>3 DEF Fresh
<1>5. \A a \in Browsers : Sessions(a)'
  BY <1>2, SessionsKept DEF Orderly
<1>6. NewestCodesOnly' /\ Spent' /\ InUse'
  BY <1>2, <1>3 DEF Orderly, NewestCodesOnly, Spent, InUse
<1>7. Setups'
  <2> SUFFICES ASSUME NEW a \in Browsers, pending'[a] # None
               PROVE  Fresh(pending'[a]) \/ Outdated(a)
    BY <1>2 DEF Setups, Fresh, Outdated
  <2> QED BY <1>3, <1>4 DEF Orderly, Setups
<1> QED BY <1>5, <1>6, <1>7 DEF Orderly


(* A code is consumed that the row still accepts: nothing it was checked
   against has changed since.                                                 *)
LEMMA ConsumeStep ==
    ASSUME Base, Orderly, NEW b \in Browsers, Consume(b), ~overtaken'
    PROVE  /\ job[b] # Idle /\ job[b].op \in Ops /\ job[b].op # "setup"
           /\ job[b].at = "consume" /\ job[b].code \in Codes
           /\ Only(b)
           /\ \/ job'[b] = Idle
              \/ /\ job'[b] # Idle /\ job'[b].op = job[b].op /\ job'[b].at = AfterConsume(job[b].op)
                 /\ job'[b].seen = job[b].seen /\ job'[b].code = job[b].code
           /\ user.enabled
           /\ user'.enabled = user.enabled /\ user'.secret = user.secret
           /\ user'.version = user.version
           /\ job[b].code.by = "totp" =>
                 /\ job[b].code.of = user.secret /\ job[b].code.n > user.last
                 /\ user'.last = job[b].code.n /\ user'.codes = user.codes
           /\ job[b].code.by # "totp" =>
                 /\ job[b].code \in user.codes
                 /\ user'.last = user.last /\ user'.codes = user.codes \ {job[b].code}
           /\ spent' = spent \cup {job[b].code} /\ uses' = uses + 1
           /\ UNCHANGED <<now, cookie, pre, pending, drawn>>
<1> DEFINE seen == job[b].seen
           c == job[b].code
<1>1. TypeOK
  BY DEF Base
<1>2. /\ job[b] # Idle /\ seen \in User /\ c \in Codes /\ Good(seen, c) /\ Sound(seen)
      /\ job[b].op \in Ops /\ job[b].op # "setup" /\ job[b].at = "consume"
  BY <1>1, RequestFields DEF Consume, Base, JobOK, Idle
<1>3. /\ Only(b)
      /\ \/ job'[b] = Idle
         \/ /\ job'[b] # Idle /\ job'[b].op = job[b].op /\ job'[b].at = AfterConsume(job[b].op)
            /\ job'[b].seen = seen /\ job'[b].code = c
  <2>1. CASE job[b].op = "export"
    BY <1>1, <2>1, EndStep DEF Consume
  <2>2. CASE job[b].op # "export"
    <3>1. AfterConsume(job[b].op) \in Stages
      BY DEF AfterConsume, Stages
    <3> QED BY <1>1, <1>2, <2>2, <3>1, GotoStep DEF Consume
  <2> QED BY <2>1, <2>2
<1>4. /\ c.by = "totp" => user.last = seen.last /\ user.secret = seen.secret
      /\ c.by # "totp" => user.codes = seen.codes
  BY DEF Consume, Changed
<1>5. c.by = "totp" => /\ c.of = user.secret /\ c.n > user.last /\ user.enabled
  BY <1>2, <1>4 DEF Good, Sound, Base
<1>6. c.by # "totp" => c \in user.codes /\ user.enabled
  BY <1>2, <1>4 DEF Good, Orderly, InUse
<1>7. /\ user'.enabled = user.enabled /\ user'.secret = user.secret
      /\ user'.version = user.version
      /\ c.by = "totp" => user'.last = c.n /\ user'.codes = user.codes
      /\ c.by # "totp" => user'.last = user.last /\ user'.codes = user.codes \ {c}
  <2>1. CASE c.by = "totp"
    <3>1. Consumed(seen, c).last = c.n
      BY <1>2, <2>1 DEF Consumed, User
    <3> QED BY <1>1, <2>1, <3>1 DEF Consume, TypeOK, User
  <2>2. CASE c.by # "totp"
    <3>1. Consumed(seen, c).codes = seen.codes \ {c}
      BY <1>2, <2>2 DEF Consumed, User
    <3> QED BY <1>1, <1>4, <2>2, <3>1 DEF Consume, TypeOK, User
  <2> QED BY <2>1, <2>2
<1> QED BY <1>2, <1>3, <1>5, <1>6, <1>7 DEF Consume

LEMMA OrderlyConsume ==
    ASSUME Base, Orderly, NEW b \in Browsers, Consume(b), ~overtaken'
    PROVE  Orderly'
<1> DEFINE c == job[b].code
<1>1. TypeOK
  BY DEF Base
<1> HIDE DEF c
<1>2. /\ job[b] # Idle /\ job[b].op \in Ops /\ job[b].op # "setup"
      /\ job[b].at = "consume" /\ c \in Codes
      /\ Only(b)
      /\ \/ job'[b] = Idle
         \/ /\ job'[b] # Idle /\ job'[b].op = job[b].op /\ job'[b].at = AfterConsume(job[b].op)
            /\ job'[b].seen = job[b].seen /\ job'[b].code = c
  BY ConsumeStep DEF c
<1>3. /\ user.enabled /\ user'.enabled = user.enabled /\ user'.secret = user.secret
      /\ user'.version = user.version
      /\ c.by = "totp" =>
            c.of = user.secret /\ c.n > user.last /\ user'.last = c.n /\ user'.codes = user.codes
      /\ c.by # "totp" =>
            c \in user.codes /\ user'.last = user.last /\ user'.codes = user.codes \ {c}
      /\ spent' = spent \cup {c} /\ UNCHANGED <<cookie, pending, drawn>>
  BY ConsumeStep DEF c
<1>4. c # NoCode /\ c.n \in Int
  BY <1>2, CodeFields
<1>5. /\ AfterConsume(job[b].op) # "consume"
      /\ AfterConsume(job[b].op) = "respond" => job[b].op \notin Rotating
  BY DEF AfterConsume, Rotating
<1>6. \A a \in Browsers : Sessions(a)'
  <2>1. Sessions(b)'
    BY <1>2, <1>3, <1>4, <1>5 DEF Orderly, Sessions, Authenticates
  <2>2. ASSUME NEW a \in Browsers, a # b PROVE Sessions(a)'
    BY <1>2, <1>3, <2>2, SessionsKept DEF Orderly, Only
  <2> QED BY <2>1, <2>2
<1>7. ~overtaken
  BY DEF Consume
<1>8. NewestCodesOnly'
  BY <1>3, <1>7 DEF Orderly, NewestCodesOnly
<1>9. Setups'
  <2> SUFFICES ASSUME NEW a \in Browsers, pending[a] # None
               PROVE  Fresh(pending[a])' \/ Outdated(a)'
    BY <1>3 DEF Setups
  <2>1. CASE Fresh(pending[a])
    BY <1>2, <1>3, <2>1 DEF Fresh, Only
  <2>2. CASE Outdated(a)
    BY <1>2, <1>3, <2>2 DEF Outdated, Only, Idle
  <2> QED BY <2>1, <2>2 DEF Orderly, Setups
<1>10. Spent'
  <2>1. user.last \in Int /\ \A d \in spent : d.n \in Int
    BY <1>1, RowFields, CodeFields DEF TypeOK
  <2>2. CASE c.by = "totp"
    BY <1>3, <1>4, <2>1, <2>2 DEF Orderly, Spent
  <2>3. CASE c.by # "totp"
    BY <1>3, <2>3 DEF Orderly, Spent
  <2> QED BY <2>2, <2>3
<1>11. InUse'
  BY <1>2, <1>3, <1>5 DEF InUse, Only, Idle
<1> QED BY <1>6, <1>8, <1>9, <1>10, <1>11 DEF Orderly

(* A second factor is set up for the row as it was when the code was checked,
   with a secret that nothing was checked against before.                     *)
LEMMA CommitSetupStep ==
    ASSUME Base, Orderly, NEW b \in Browsers, CommitSetup(b), ~overtaken'
    PROVE  /\ job[b] # Idle /\ job[b].op = "setup" /\ job[b].at = "commit"
           /\ job[b].code \in Codes /\ job[b].code.by = "totp" /\ job[b].code # NoCode
           /\ job[b].code.of = pending[b] /\ pending[b] # None /\ Fresh(pending[b])
           /\ job[b].seen.version = user.version /\ user'.version = user.version + 1
           /\ Only(b) /\ job'[b] # Idle
           /\ job'[b].op = "setup" /\ job'[b].at = "respond"
           /\ job'[b].seen = job[b].seen /\ job'[b].code = job[b].code
           /\ user'.enabled /\ user'.secret = pending[b] /\ user'.last = job[b].code.n
           /\ user'.codes = RecoveryCodes(drawn.codes + 1)
           /\ drawn'.codes = drawn.codes + 1
           /\ \A d \in user'.codes : d.by = "recovery" /\ d.of = drawn.codes + 1
           /\ spent' = spent \cup {job[b].code} /\ uses' = uses + 1
           /\ UNCHANGED <<now, cookie, pre, pending>>
<1>1. TypeOK
  BY DEF Base
<1>2. /\ job[b] # Idle /\ job[b].op = "setup" /\ job[b].at = "commit"
      /\ job[b].code \in TotpCodes /\ pending[b] # None /\ job[b].code.of = pending[b]
      /\ job[b].code \in Codes /\ job[b].code.by = "totp" /\ job[b].code # NoCode
  BY <1>1, RequestFields, TotpIsCode DEF CommitSetup, Base, JobOK, Idle
<1>3. /\ Only(b) /\ job'[b] # Idle
      /\ job'[b].op = "setup" /\ job'[b].at = "respond"
      /\ job'[b].seen = job[b].seen /\ job'[b].code = job[b].code
  BY <1>1, <1>2, GotoStep DEF CommitSetup, Stages
<1>4. /\ drawn'.codes = drawn.codes + 1
      /\ \A d \in RecoveryCodes(drawn.codes + 1) : d.by = "recovery" /\ d.of = drawn.codes + 1
  BY <1>2, <1>3, NewCodes DEF CommitSetup, Issuing
<1>5. job[b].seen.version = user.version
  BY DEF CommitSetup, Changed, Columns
<1>6. Fresh(pending[b])
  BY <1>2 DEF Orderly, Setups, Outdated
<1> QED BY <1>2, <1>3, <1>4, <1>5, <1>6 DEF CommitSetup

LEMMA OrderlyCommitSetup ==
    ASSUME Base, Orderly, NEW b \in Browsers, CommitSetup(b), ~overtaken'
    PROVE  Orderly'
<1>1. TypeOK
  BY DEF Base
<1>2. /\ job[b] # Idle /\ job[b].code \in Codes /\ job[b].code.by = "totp"
      /\ job[b].code # NoCode
      /\ job[b].code.of = pending[b] /\ pending[b] # None /\ Fresh(pending[b])
      /\ job[b].seen.version = user.version /\ user'.version = user.version + 1
      /\ Only(b) /\ job'[b] # Idle
      /\ job'[b].op = "setup" /\ job'[b].at = "respond"
      /\ job'[b].seen = job[b].seen /\ job'[b].code = job[b].code
  BY CommitSetupStep
<1>3. /\ user'.enabled /\ user'.secret = pending[b] /\ user'.last = job[b].code.n
      /\ user'.codes = RecoveryCodes(drawn.codes + 1)
      /\ drawn'.codes = drawn.codes + 1
      /\ \A d \in user'.codes : d.by = "recovery" /\ d.of = drawn.codes + 1
      /\ spent' = spent \cup {job[b].code} /\ UNCHANGED <<cookie, pending>>
  BY CommitSetupStep
<1>4. user.version \in Nat /\ drawn.codes \in Nat /\ job[b].code.n \in Int
  BY <1>1, <1>2, RowFields, CodeFields
<1>5. /\ cookie[b].version <= user.version /\ cookie[b].version < user'.version
      /\ cookie[b].version \in Int
  BY <1>1, <1>2, <1>4, SessionFields DEF Orderly, Sessions
<1>6. \A a \in Browsers : Sessions(a)'
  <2>1. Sessions(b)'
    BY <1>2, <1>3, <1>4, <1>5 DEF Sessions, Authenticates
  <2>2. ASSUME NEW a \in Browsers, a # b PROVE Sessions(a)'
    BY <1>1, <1>2, <1>3, <2>2, SessionsRaised DEF Orderly, Only
  <2> QED BY <2>1, <2>2
<1>7. NewestCodesOnly'
  BY <1>3 DEF NewestCodesOnly
<1>8. Setups'
  <2> SUFFICES ASSUME NEW a \in Browsers, pending[a] # None
               PROVE  Fresh(pending[a])' \/ Outdated(a)'
    BY <1>3 DEF Setups
  <2>1. CASE a = b
    BY <1>2, <1>3, <1>5, <2>1 DEF Outdated
  <2>2. CASE a # b
    <3>1. pending[a] # pending[b]
      BY <2>2 DEF Base, Drawn
    <3>2. CASE Fresh(pending[a])
      BY <1>2, <1>3, <3>1, <3>2 DEF Fresh, Only
    <3>3. CASE Outdated(a)
      BY <1>1, <1>2, <1>3, <1>4, <2>2, <3>3, SessionFields DEF Outdated, Only
    <3> QED BY <3>2, <3>3 DEF Orderly, Setups
  <2> QED BY <2>1, <2>2
<1>9. Spent'
  <2> SUFFICES ASSUME NEW d \in spent'
               PROVE  IF d.by = "totp" THEN d.of = user'.secret => d.n <= user'.last
                                       ELSE d \notin user'.codes
    BY DEF Spent
  <2>1. CASE d = job[b].code
    BY <1>2, <1>3, <1>4, <2>1
  <2>2. CASE d \in spent /\ d.by = "totp"
    BY <1>2, <1>3, <2>2 DEF Fresh
  <2>3. CASE d \in spent /\ d.by # "totp"
    <3>1. d.of <= drawn.codes /\ d.of \in Int
      BY <1>1, <2>3, CodeFields DEF Base, Drawn, TypeOK
    <3> QED BY <1>3, <1>4, <2>3, <3>1
  <2> QED BY <1>3, <2>1, <2>2, <2>3
<1>10. InUse'
  BY <1>3 DEF InUse
<1> QED BY <1>6, <1>7, <1>8, <1>9, <1>10 DEF Orderly

LEMMA OrderlyCommitRegenerate ==
    ASSUME Base, Orderly, NEW b \in Browsers, CommitRegenerate(b)
    PROVE  Orderly'
<1>1. TypeOK
  BY DEF Base
<1>2. job[b].op = "regenerate" /\ Only(b) /\ job'[b] = Idle
  BY <1>1, EndStep DEF CommitRegenerate
<1>3. /\ drawn'.codes = drawn.codes + 1
      /\ \A d \in RecoveryCodes(drawn.codes + 1) : d.by = "recovery" /\ d.of = drawn.codes + 1
  BY <1>2, NewCodes DEF CommitRegenerate, Issuing, Idle
<1>4. /\ user'.enabled = user.enabled /\ user'.secret = user.secret /\ user'.last = user.last
      /\ user'.version = user.version /\ user'.codes = RecoveryCodes(drawn.codes + 1)
      /\ UNCHANGED <<now, cookie, pre, pending, spent, uses, overtaken>>
  BY <1>1 DEF CommitRegenerate, TypeOK, User
<1>5. drawn.codes \in Nat
  BY <1>1, RowFields
\* No code seen or spent before is among the new ones.
<1>6. \A c \in Codes : c.by # "totp" /\ c.of <= drawn.codes => c \notin user'.codes
  BY <1>3, <1>4, <1>5, CodeFields
<1>7. \A a \in Browsers : Sessions(a)'
  <2>1. Sessions(b)'
    BY <1>2, <1>4 DEF Orderly, Sessions, Authenticates
  <2>2. ASSUME NEW a \in Browsers, a # b PROVE Sessions(a)'
    BY <1>2, <1>4, <2>2, SessionsKept DEF Orderly, Only
  <2> QED BY <2>1, <2>2
<1>8. NewestCodesOnly'
  BY <1>3, <1>4 DEF NewestCodesOnly
<1>9. Setups'
  <2> SUFFICES ASSUME NEW a \in Browsers, pending[a] # None
               PROVE  Fresh(pending[a])' \/ Outdated(a)'
    BY <1>4 DEF Setups
  <2>1. CASE Fresh(pending[a])
    BY <1>2, <1>4, <2>1 DEF Fresh, Only
  <2>2. CASE Outdated(a)
    BY <1>2, <1>4, <2>2 DEF Outdated, Only, Idle
  <2> QED BY <2>1, <2>2 DEF Orderly, Setups
<1>10. Spent'
  <2>1. \A d \in spent : d \in Codes /\ (d.by # "totp" => d.of <= drawn.codes)
    BY <1>1 DEF Base, Drawn, TypeOK
  <2> QED BY <1>4, <1>6, <2>1 DEF Orderly, Spent
<1>11. InUse'
  <2> SUFFICES ASSUME NEW a \in Browsers, job'[a].at = "consume" PROVE job'[a].code \notin user'.codes
    BY DEF InUse
  <2>1. a # b /\ job'[a] = job[a] /\ job[a] # Idle
    BY <1>2 DEF Only, Idle
  <2>2. job[a].code \in Codes /\ Good(job[a].seen, job[a].code) /\ Sound(job[a].seen)
    BY <2>1 DEF Base, JobOK
  <2>3. CASE job[a].code.by = "totp"
    BY <1>3, <1>4, <2>1, <2>3
  <2>4. CASE job[a].code.by # "totp"
    BY <1>6, <2>1, <2>2, <2>4 DEF Good, Sound
  <2> QED BY <2>3, <2>4
<1> QED BY <1>7, <1>8, <1>9, <1>10, <1>11 DEF Orderly

LEMMA OrderlyCommitRotation ==
    ASSUME Base, Orderly, NEW b \in Browsers, CommitRotation(b), ~overtaken'
    PROVE  Orderly'
<1>1. TypeOK
  BY DEF Base
<1>2. /\ job[b] # Idle /\ job[b].op \in Rotating \ {"setup"} /\ job[b].at = "commit"
  BY <1>1, RequestFields DEF CommitRotation, Rotating
<1>3. /\ Only(b) /\ job'[b] # Idle
      /\ job'[b].op = job[b].op /\ job'[b].at = "respond"
      /\ job'[b].seen = job[b].seen /\ job'[b].code = job[b].code
  BY <1>1, <1>2, GotoStep DEF CommitRotation, Stages
<1>4. /\ job[b].seen.version = user.version /\ ~overtaken
      /\ UNCHANGED <<now, cookie, pre, pending, drawn, spent, uses>>
  BY DEF CommitRotation, Changed
<1>5. /\ user.version \in Nat /\ user'.version = user.version + 1
      /\ \/ /\ ~user'.enabled /\ user'.secret = None /\ user'.codes = {}
         \/ /\ user'.enabled = user.enabled /\ user'.secret = user.secret
            /\ user'.last = user.last /\ user'.codes = user.codes
            /\ job[b].op # "disable"
  BY <1>1, <1>4, RowFields DEF CommitRotation, TypeOK, User
<1>6. \A a \in Browsers : Sessions(a)'
  <2>1. cookie[b].version <= user.version /\ cookie[b].version \in Int
    BY <1>1, SessionFields DEF Orderly, Sessions
  <2>2. user'.enabled => cookie[b].second \/ job[b].code # NoCode
    BY <1>2, <1>4, <1>5 DEF Orderly, Sessions
  <2>3. Sessions(b)'
    BY <1>3, <1>4, <1>5, <2>1, <2>2 DEF Sessions, Authenticates
  <2>4. ASSUME NEW a \in Browsers, a # b PROVE Sessions(a)'
    BY <1>1, <1>3, <1>4, <1>5, <2>4, SessionsRaised DEF Orderly, Only
  <2> QED BY <2>3, <2>4
<1>7. NewestCodesOnly'
  BY <1>4, <1>5 DEF Orderly, NewestCodesOnly
<1>8. Setups'
  <2> SUFFICES ASSUME NEW a \in Browsers, pending[a] # None
               PROVE  Fresh(pending[a])' \/ Outdated(a)'
    BY <1>4 DEF Setups
  <2>1. CASE Fresh(pending[a])
    BY <1>2, <1>3, <1>4, <1>5, <2>1 DEF Fresh, Only
  <2>2. CASE Outdated(a)
    <3>1. a # b
      BY <1>2, <2>2 DEF Outdated, Rotating
    <3> QED BY <1>1, <1>3, <1>4, <1>5, <2>2, <3>1, SessionFields DEF Outdated, Only
  <2> QED BY <2>1, <2>2 DEF Orderly, Setups
<1>9. Spent'
  <2>1. \A c \in spent : c.by = "totp" => c.of # None
    BY <1>1, CodeKinds, SecondFactorAssumption DEF TypeOK, TotpCodes, None
  <2> QED BY <1>4, <1>5, <2>1 DEF Orderly, Spent
<1>10. InUse'
  BY <1>3, <1>5 DEF Orderly, InUse, Only
<1> QED BY <1>6, <1>7, <1>8, <1>9, <1>10 DEF Orderly


LEMMA InitOrderly == Init => Orderly
BY DEF Init, Orderly, Sessions, NewestCodesOnly, Setups, Spent, InUse, Idle, NoCookie, None,
       Authenticates

LEMMA OrderlySame ==
    ASSUME Orderly, UNCHANGED <<user, cookie, pre, pending, job, drawn, spent, uses, overtaken>>
    PROVE  Orderly'
<1>1. \A a \in Browsers : Sessions(a)'
  BY SessionsKept DEF Orderly
<1>2. NewestCodesOnly' /\ Spent' /\ InUse'
  BY DEF Orderly, NewestCodesOnly, Spent, InUse
<1>3. Setups'
  BY DEF Orderly, Setups, Fresh, Outdated
<1> QED BY <1>1, <1>2, <1>3 DEF Orderly

LEMMA InitInv == Init => SecondFactorInv
BY InitBase, InitOrderly DEF SecondFactorInv

LEMMA InvStep == SecondFactorInv /\ [Next]_vars => SecondFactorInv'
<1> SUFFICES ASSUME SecondFactorInv, [Next]_vars PROVE SecondFactorInv'
  OBVIOUS
<1>1. Base /\ Base'
  BY BaseStep DEF SecondFactorInv
<1>2. SUFFICES ASSUME ~overtaken' PROVE Orderly'
  BY <1>1 DEF SecondFactorInv
<1>3. Orderly
  BY <1>1, <1>2, OvertakenStays DEF SecondFactorInv
<1>4. CASE UNCHANGED vars
  BY <1>3, <1>4, OrderlySame DEF vars
<1>5. CASE Tick
  BY <1>3, <1>5, OrderlySame DEF Tick
<1>6. ASSUME NEW b \in Browsers, Step(b) PROVE Orderly'
  <2>1. CASE Begins(b)
    <3>1. PICK op \in Ops, at \in Stages, c \in Codes \cup {NoCode} : BeginsWith(b, op, at, c)
      BY <2>1 DEF Begins
    <3> QED BY <1>1, <1>3, <3>1, OrderlyBegins
  <2> QED BY <1>1, <1>2, <1>3, <1>6, <2>1, StepKinds, OrderlySigns, OrderlyShowSetup,
             OrderlyReload, OrderlyConsume, OrderlyCommitSetup, OrderlyCommitRegenerate,
             OrderlyCommitRotation
          DEF Writes, Base
<1> QED BY <1>4, <1>5, <1>6 DEF Next

LEMMA Invariant == Spec => []SecondFactorInv
BY InitInv, InvStep, PTL DEF Spec

-----------------------------------------------------------------------------
(* The theorems.                                                           *)

(* The types hold, and with them the bounds on the secrets and codes drawn.   *)
THEOREM TypeCorrect == Spec => []TypeOK
<1>1. SecondFactorInv => TypeOK
  BY DEF SecondFactorInv, Base
<1> QED BY <1>1, Invariant, PTL

(* While the second factor is enabled every session that works was opened or
   renewed with a code, as long as no two requests that renew the sessions
   overlapped: a session signed from an older row has an older version
   (totp_setup, invalidate_other_sessions, login_user).                       *)
THEOREM SecondFactorNotBypassed == Spec => []NoBypass
<1>1. SecondFactorInv => NoBypass
  BY DEF SecondFactorInv, Orderly, Sessions, NoBypass
<1> QED BY <1>1, Invariant, PTL

(* Only recovery codes of the newest set work (generate_recovery_codes), as
   long as no list loaded before was written back over it.                    *)
THEOREM OldCodesAreVoid == Spec => []NewestCodesOnly
<1>1. SecondFactorInv => NewestCodesOnly
  BY DEF SecondFactorInv, Orderly, NewestCodesOnly
<1> QED BY <1>1, Invariant, PTL

-----------------------------------------------------------------------------
(* TOTP and recovery codes implement OneTimeCodes.                         *)

LEMMA LiveCodes ==
    ASSUME Base
    PROVE  /\ \A c \in TotpCodes : c.by = "totp"
           /\ \A c \in user.codes : c.by = "recovery" /\ c.of <= drawn.codes
           /\ \A c \in spent : c \in Codes
           /\ drawn.codes \in Nat /\ user.last \in Int
           /\ \A c \in spent : c.by # "totp" => c.of <= drawn.codes
BY TotpIsCode, RowFields DEF Base, Sound, Drawn, TypeOK

LEMMA Accepts ==
    ASSUME Base, Orderly, NEW b \in Browsers, Consume(b), ~overtaken'
    PROVE  Abstract!Accept(job[b].code) /\ job[b].code \in Codes
<1> DEFINE c == job[b].code
<1> HIDE DEF c
<1>1. /\ c \in Codes /\ user.enabled /\ user'.enabled /\ user'.secret = user.secret
      /\ c.by = "totp" =>
            c.of = user.secret /\ c.n > user.last /\ user'.last = c.n /\ user'.codes = user.codes
      /\ c.by # "totp" =>
            c \in user.codes /\ user'.last = user.last /\ user'.codes = user.codes \ {c}
      /\ spent' = spent \cup {c} /\ uses' = uses + 1
  BY ConsumeStep DEF c
<1>2. c \in Live
  BY <1>1, CodeKinds DEF Live
<1>3. Live' \subseteq Live \ {c}
  <2> SUFFICES ASSUME NEW d \in Live' PROVE d \in Live /\ d # c
    OBVIOUS
  <2>1. CASE c.by = "totp"
    <3>1. user.last \in Int /\ c.n \in Int /\ \A e \in TotpCodes : e.n \in Int
      BY <1>1, CodeFields, LiveCodes, TotpIsCode
    <3> QED BY <1>1, <2>1, <3>1, LiveCodes DEF Live
  <2>2. CASE c.by # "totp"
    BY <1>1, <2>2, LiveCodes DEF Live
  <2> QED BY <2>1, <2>2
<1> QED BY <1>1, <1>2, <1>3 DEF Abstract!Accept, c

LEMMA Enrols ==
    ASSUME Base, Orderly, NEW b \in Browsers, CommitSetup(b), ~overtaken'
    PROVE  Abstract!Enrol(job[b].code) /\ job[b].code \in Codes
<1> DEFINE c == job[b].code
<1> HIDE DEF c
<1>1. /\ c \in Codes /\ c.by = "totp" /\ c.of = pending[b] /\ Fresh(pending[b])
      /\ user'.enabled /\ user'.secret = pending[b] /\ user'.last = c.n
      /\ \A d \in user'.codes : d.by = "recovery" /\ d.of = drawn.codes + 1
      /\ spent' = spent \cup {c} /\ uses' = uses + 1
  BY CommitSetupStep DEF c
<1>2. c \notin spent
  BY <1>1 DEF Fresh
<1>3. Live' \cap (spent \cup {c}) = {}
  <2> SUFFICES ASSUME NEW d \in Live', d \in spent \cup {c} PROVE FALSE
    OBVIOUS
  <2>1. CASE d \in user'.codes
    <3>1. d \in spent /\ d.by # "totp" /\ d.of = drawn.codes + 1
      BY <1>1, <2>1
    <3> QED BY <3>1, LiveCodes
  <2>2. CASE d \in TotpCodes /\ d.of = pending[b] /\ d.n > c.n
    <3>1. d.by = "totp" /\ c.n \in Int
      BY <1>1, <2>2, LiveCodes, CodeFields
    <3> QED BY <2>2, <3>1, <1>1 DEF Fresh
  <2> QED BY <1>1, <2>1, <2>2 DEF Live
<1> QED BY <1>1, <1>2, <1>3 DEF Abstract!Enrol, c

LEMMA Renews ==
    ASSUME Base, Orderly, NEW b \in Browsers, CommitRegenerate(b)
    PROVE  Abstract!Renew
<1>1. job[b].op = "regenerate" /\ Only(b) /\ job'[b] = Idle
  BY EndStep DEF CommitRegenerate, Base
<1>2. \A d \in RecoveryCodes(drawn.codes + 1) : d.by = "recovery" /\ d.of = drawn.codes + 1
  BY <1>1, NewCodes DEF CommitRegenerate, Issuing, Idle
<1>3. /\ user'.enabled = user.enabled /\ user'.secret = user.secret /\ user'.last = user.last
      /\ user'.codes = RecoveryCodes(drawn.codes + 1)
      /\ UNCHANGED <<spent, uses>>
  BY DEF CommitRegenerate, Base, TypeOK, User
<1>4. Live' \cap spent = {}
  <2> SUFFICES ASSUME NEW d \in Live', d \in spent PROVE FALSE
    OBVIOUS
  <2>1. CASE d \in user'.codes
    <3>1. d.by # "totp" /\ d.of = drawn.codes + 1
      BY <1>2, <1>3, <2>1
    <3> QED BY <3>1, LiveCodes
  <2>2. CASE d \in TotpCodes /\ d.of = user.secret /\ d.n > user.last
    <3>1. d.by = "totp" /\ user.last \in Int /\ d.n \in Int
      BY <2>2, LiveCodes, TotpIsCode
    <3> QED BY <2>2, <3>1 DEF Orderly, Spent
  <2> QED BY <1>3, <2>1, <2>2 DEF Live
<1> QED BY <1>3, <1>4 DEF Abstract!Renew

LEMMA Withdraws ==
    ASSUME Base, Orderly, NEW b \in Browsers, CommitRotation(b)
    PROVE  Abstract!Renew \/ UNCHANGED Abstract!vars
<1>1. UNCHANGED <<spent, uses>>
  BY DEF CommitRotation
<1>2. CASE job[b].op = "disable"
  <2>1. Live' = {}
    BY <1>2 DEF CommitRotation, Live
  <2> QED BY <1>1, <2>1 DEF Abstract!Renew
<1>3. CASE job[b].op # "disable"
  <2>1. /\ user'.enabled = user.enabled /\ user'.secret = user.secret
        /\ user'.last = user.last /\ user'.codes = user.codes
    BY <1>3 DEF CommitRotation, Base, TypeOK, User
  <2>2. Live' = Live
    BY <2>1 DEF Live
  <2> QED BY <1>1, <2>2 DEF Abstract!vars
<1> QED BY <1>2, <1>3

LEMMA RefinementStep ==
    ASSUME SecondFactorInv, [Next]_vars
    PROVE  [Abstract!Next \/ overtaken']_Abstract!vars
<1> SUFFICES ASSUME ~overtaken' PROVE Abstract!Next \/ UNCHANGED Abstract!vars
  OBVIOUS
<1>1. Base /\ Orderly
  BY OvertakenStays DEF SecondFactorInv
<1>2. ASSUME UNCHANGED <<user, spent, uses>> PROVE UNCHANGED Abstract!vars
  BY <1>2 DEF Abstract!vars, Live
<1>3. ASSUME NEW b \in Browsers, Step(b) PROVE Abstract!Next \/ UNCHANGED Abstract!vars
  <2>1. CASE Consume(b)
    BY <1>1, <2>1, Accepts DEF Abstract!Next
  <2>2. CASE CommitSetup(b)
    BY <1>1, <2>2, Enrols DEF Abstract!Next
  <2>3. CASE CommitRegenerate(b)
    BY <1>1, <2>3, Renews DEF Abstract!Next
  <2>4. CASE CommitRotation(b)
    BY <1>1, <2>4, Withdraws DEF Abstract!Next
  <2>5. CASE Begins(b) \/ Signs(b) \/ ShowSetup(b) \/ Reload(b)
    <3>1. UNCHANGED <<user, spent, uses>>
      BY <1>1, <2>5, SignsStep DEF Begins, BeginsWith, ShowSetup, Reload, Base
    <3> QED BY <1>2, <3>1
  <2> QED BY <1>1, <1>3, <2>1, <2>2, <2>3, <2>4, <2>5, StepKinds DEF Writes, Base
<1>4. CASE Tick \/ UNCHANGED vars
  BY <1>2, <1>4 DEF Tick, vars
<1> QED BY <1>3, <1>4 DEF Next

(* "A code can only be used once" (SECURITY.md:148, services.py:240): a code
   that a commit consumed is one that was live and is none any more, and no
   setup or renewal brings it back, until a request writes a counter or a list
   over a newer one.                                                          *)
THEOREM CodesWorkOnce == Spec => ImplementsOneTimeCodes
<1>1. Init => Abstract!Init
  BY DEF Init, Abstract!Init, Live
<1>2. SecondFactorInv /\ [Next]_vars => [Abstract!Next \/ overtaken']_Abstract!vars
  BY RefinementStep
<1> QED BY <1>1, <1>2, Invariant, PTL DEF Spec, ImplementsOneTimeCodes

=============================================================================
