---------------------------- MODULE SecondFactor ----------------------------
(***************************************************************************)
(* The second factor of one account: TOTP codes with their replay counter, *)
(* recovery codes, the pre-2FA session between password and code, and the  *)
(* requests that enable, disable, consume or renew them (app/services.py,  *)
(* app/routes.py).                                                         *)
(*                                                                         *)
(* A request keeps the row it loaded until it commits; a commit writes the *)
(* columns it changed, computed from that row, and expires it, so that the *)
(* next use loads it again.  A column that somebody else changed in        *)
(* between is overwritten: the history variable overtaken records it.      *)
(* Passwords, failure counters and bans are in Accounts and RateLimit;     *)
(* a rejected code changes nothing here.                                   *)
(***************************************************************************)
EXTENDS Integers, FiniteSets

CONSTANTS
    Browsers,       \* cookie jars; each has at most one request in flight
    RecoveryCount,  \* RECOVERY_CODE_COUNT
    PreMaxAge,      \* PRE_2FA_MAX_AGE, in TOTP steps
    MaxTime,        \* bound on the clock, in TOTP steps
    MaxSecret,      \* bound on the secrets drawn by /totp/setup
    MaxGeneration,  \* bound on the sets of recovery codes drawn
    MaxVersion      \* bound on session_version

ASSUME SecondFactorAssumption ==
    /\ IsFiniteSet(Browsers)
    /\ RecoveryCount \in Nat /\ PreMaxAge \in Nat /\ MaxTime \in Nat
    /\ MaxSecret \in Nat /\ MaxGeneration \in Nat /\ MaxVersion \in Nat

VARIABLES
    now,         \* the clock, in steps of TOTP_STEP_SECONDS
    user,        \* the account's row
    cookie,      \* browser -> session: its version; second: a code was given for it
    pre,         \* browser -> when its password was accepted (pre_2fa_at), or None
    pending,     \* browser -> totp_pending_secret, or None
    job,         \* browser -> its request in flight, or Idle
    drawn,       \* how many secrets and sets of recovery codes were drawn
    spent,       \* history: the codes a committed verification accepted
    uses,        \* history: how many verifications were committed
    overtaken    \* history: a request wrote over, or took as its own, another's newer value

vars == <<now, user, cookie, pre, pending, job, drawn, spent, uses, overtaken>>

-----------------------------------------------------------------------------
None == -1

TotpCode(s, n) == [by |-> "totp", of |-> s, n |-> n]
RecoveryCodes(g) == [by: {"recovery"}, of: {g}, n: 1..RecoveryCount]
TotpCodes == [by: {"totp"}, of: 1..MaxSecret, n: 0..MaxTime + 1]
Codes == TotpCodes \cup UNION {RecoveryCodes(g) : g \in 1..MaxGeneration}
NoCode == [by |-> "none", of |-> 0, n |-> 0]

Columns == {"last", "codes", "version"}
User == [enabled: BOOLEAN, secret: 1..MaxSecret \cup {None},
         last: Int, codes: SUBSET Codes, version: Nat]

NoCookie == [version |-> None, second |-> FALSE]
Idle == [op |-> "idle", at |-> "idle"]

\* Requests that ask for the password and, when enabled, for a code
Guarded == {"disable", "password", "regenerate", "export"}
Rotating == {"setup", "disable", "password", "logoutEverywhere"}
Issuing == {"setup", "regenerate"}
Ops == Guarded \cup Rotating \cup {"login", "loginTotp"}
Stages == {"checked", "consume", "reload", "commit", "respond"}
Job == [op: Ops, at: Stages, seen: User, code: Codes \cup {NoCode}]

Authenticates(b) == cookie[b].version = user.version
InFlight(ops) == {b \in Browsers : job[b].op \in ops}

\* Mutant: the step accepted last is accepted again.
TotpAcceptedAgain(u, secret, c) ==
    /\ c.by = "totp" /\ c.of = secret
    /\ c.n \in {now - 1, now, now + 1}
    /\ c.n >= u.last

\* _verify_totp_once: one step of tolerance, and newer than the last one accepted
TotpAccepted(u, secret, c) ==
    /\ c.by = "totp" /\ c.of = secret
    /\ c.n \in {now - 1, now, now + 1}
    /\ c.n > u.last

\* verify_second_factor and use_recovery_code
Accepted(u, c) == TotpAccepted(u, u.secret, c) \/ c \in u.codes

Consumed(u, c) ==
    IF c.by = "totp" THEN [u EXCEPT !.last = c.n] ELSE [u EXCEPT !.codes = @ \ {c}]

\* One of the columns cols is no longer what the request saw
Changed(b, cols) == \E x \in cols : user[x] # job[b].seen[x]

Begin(b, op, at, c) ==
    job' = [job EXCEPT ![b] = [op |-> op, at |-> at, seen |-> user, code |-> c]]

Goto(b, at) == job' = [job EXCEPT ![b].at = at]
End(b) == job' = [job EXCEPT ![b] = Idle]

\* Bounds, checked when a request begins
RoomFor(op) ==
    /\ op \in Rotating => user.version + Cardinality(InFlight(Rotating)) < MaxVersion
    /\ op \in Issuing => drawn.codes + Cardinality(InFlight(Issuing)) < MaxGeneration

Init ==
    /\ now = 1
    /\ user = [enabled |-> FALSE, secret |-> None, last |-> None,
               codes |-> {}, version |-> 0]
    /\ cookie = [b \in Browsers |-> NoCookie]
    /\ pre = [b \in Browsers |-> None]
    /\ pending = [b \in Browsers |-> None]
    /\ job = [b \in Browsers |-> Idle]
    /\ drawn = [secrets |-> 0, codes |-> 0]
    /\ spent = {} /\ uses = 0
    /\ overtaken = FALSE

-----------------------------------------------------------------------------
(* Signing in: /login, then /login/totp.                                   *)

\* The row is loaded; the password check that follows takes a while.
BeginLogin(b) ==
    /\ job[b] = Idle /\ ~Authenticates(b)
    /\ Begin(b, "login", "checked", NoCode)
    /\ UNCHANGED <<now, user, cookie, pre, pending, drawn, spent, uses, overtaken>>

\* Mutant: the session is signed with the row as it is when the request ends.
FinishLoginReloaded(b) ==
    /\ job[b].op = "login"
    /\ End(b)
    /\ pending' = [pending EXCEPT ![b] = None]
    /\ IF job[b].seen.enabled
       THEN pre' = [pre EXCEPT ![b] = now] /\ cookie' = [cookie EXCEPT ![b] = NoCookie]
       ELSE /\ pre' = [pre EXCEPT ![b] = None]
            /\ cookie' = [cookie EXCEPT ![b] = [version |-> user.version, second |-> FALSE]]
    /\ UNCHANGED <<now, user, drawn, spent, uses, overtaken>>

\* The password was right: _start_fresh_session, then the session or the pre-2FA state
FinishLogin(b) ==
    /\ job[b].op = "login"
    /\ End(b)
    /\ pending' = [pending EXCEPT ![b] = None]
    /\ IF job[b].seen.enabled
       THEN /\ pre' = [pre EXCEPT ![b] = now]
            /\ cookie' = [cookie EXCEPT ![b] = NoCookie]
       ELSE /\ pre' = [pre EXCEPT ![b] = None]
            /\ cookie' = [cookie EXCEPT ![b] =
                             [version |-> job[b].seen.version, second |-> FALSE]]
    /\ UNCHANGED <<now, user, drawn, spent, uses, overtaken>>

BeginSecondStep(b, c) ==
    /\ job[b] = Idle /\ pre[b] # None
    /\ now - pre[b] <= PreMaxAge
    /\ user.enabled
    /\ Accepted(user, c)
    /\ Begin(b, "loginTotp", "consume", c)
    /\ UNCHANGED <<now, user, cookie, pre, pending, drawn, spent, uses, overtaken>>

\* Too late, or the second factor is gone: back to the first step
SecondStepRefused(b) ==
    /\ job[b] = Idle /\ pre[b] # None
    /\ now - pre[b] > PreMaxAge \/ ~user.enabled
    /\ pre' = [pre EXCEPT ![b] = None]
    /\ UNCHANGED <<now, user, cookie, pending, job, drawn, spent, uses, overtaken>>

\* login_user after the commit of the code: the row is loaded again
Enter(b) ==
    /\ job[b].op = "loginTotp" /\ job[b].at = "respond"
    /\ cookie' = [cookie EXCEPT ![b] = [version |-> user.version, second |-> TRUE]]
    /\ pre' = [pre EXCEPT ![b] = None]
    /\ pending' = [pending EXCEPT ![b] = None]
    /\ End(b)
    /\ UNCHANGED <<now, user, drawn, spent, uses, overtaken>>

Logout(b) ==
    /\ job[b] = Idle /\ cookie[b] # NoCookie
    /\ cookie' = [cookie EXCEPT ![b] = NoCookie]
    /\ pre' = [pre EXCEPT ![b] = None]
    /\ pending' = [pending EXCEPT ![b] = None]
    /\ UNCHANGED <<now, user, job, drawn, spent, uses, overtaken>>

-----------------------------------------------------------------------------
(* The account's security pages.                                           *)

\* GET /totp/setup draws the secret that the session keeps
ShowSetup(b) ==
    /\ job[b] = Idle /\ Authenticates(b)
    /\ ~user.enabled
    /\ pending[b] = None
    /\ drawn.secrets < MaxSecret
    /\ drawn' = [drawn EXCEPT !.secrets = @ + 1]
    /\ pending' = [pending EXCEPT ![b] = drawn'.secrets]
    /\ UNCHANGED <<now, user, cookie, pre, job, spent, uses, overtaken>>

\* POST /totp/setup: the code is checked against the pending secret
BeginSetup(b, c) ==
    /\ job[b] = Idle /\ Authenticates(b)
    /\ ~user.enabled
    /\ pending[b] # None /\ TotpAccepted(user, pending[b], c)
    /\ RoomFor("setup")
    /\ Begin(b, "setup", "commit", c)
    /\ UNCHANGED <<now, user, cookie, pre, pending, drawn, spent, uses, overtaken>>

\* _reauthenticate and totp_disable: without a second factor the password is enough
BeginGuarded(b, op, c) ==
    /\ job[b] = Idle /\ Authenticates(b)
    /\ op \in {"disable", "regenerate"} => user.enabled
    /\ RoomFor(op)
    /\ IF user.enabled
       THEN Accepted(user, c) /\ Begin(b, op, "consume", c)
       ELSE c = NoCode /\ op # "export" /\ Begin(b, op, "commit", c)
    /\ UNCHANGED <<now, user, cookie, pre, pending, drawn, spent, uses, overtaken>>

BeginLogoutEverywhere(b) ==
    /\ job[b] = Idle /\ Authenticates(b)
    /\ RoomFor("logoutEverywhere")
    /\ Begin(b, "logoutEverywhere", "commit", NoCode)
    /\ UNCHANGED <<now, user, cookie, pre, pending, drawn, spent, uses, overtaken>>

AfterConsume(op) ==
    IF op = "loginTotp" THEN "respond"
    ELSE IF op = "regenerate" THEN "commit" ELSE "reload"

\* verify_second_factor commits the counter or the list without the code; the
\* counter may by then be that of another secret, with the same value.
Consume(b) ==
    LET seen == job[b].seen   c == job[b].code IN
    /\ job[b].at = "consume"
    /\ user' = IF c.by = "totp"
               THEN [user EXCEPT !.last = Consumed(seen, c).last]
               ELSE [user EXCEPT !.codes = Consumed(seen, c).codes]
    /\ overtaken' = (overtaken \/ Changed(b, IF c.by = "totp" THEN {"last", "secret"} ELSE {"codes"}))
    /\ spent' = spent \cup {c} /\ uses' = uses + 1
    /\ IF job[b].op = "export" THEN End(b) ELSE Goto(b, AfterConsume(job[b].op))
    /\ UNCHANGED <<now, cookie, pre, pending, drawn>>

\* invalidate_other_sessions reads the version of the expired row
Reload(b) ==
    /\ job[b].at = "reload"
    /\ job' = [job EXCEPT ![b].at = "commit", ![b].seen = user]
    /\ UNCHANGED <<now, user, cookie, pre, pending, drawn, spent, uses, overtaken>>

\* Mutant: the secret is not stored.
CommitSetupUnstored(b) ==
    /\ job[b].op = "setup" /\ job[b].at = "commit"
    /\ user' = [enabled |-> TRUE, secret |-> user.secret, last |-> job[b].code.n,
                codes |-> RecoveryCodes(drawn.codes + 1),
                version |-> job[b].seen.version + 1]
    /\ drawn' = [drawn EXCEPT !.codes = @ + 1]
    /\ spent' = spent \cup {job[b].code} /\ uses' = uses + 1
    /\ overtaken' = (overtaken \/ Changed(b, Columns))
    /\ Goto(b, "respond")
    /\ UNCHANGED <<now, cookie, pre, pending>>

CommitSetup(b) ==
    /\ job[b].op = "setup" /\ job[b].at = "commit"
    /\ user' = [enabled |-> TRUE, secret |-> pending[b], last |-> job[b].code.n,
                codes |-> RecoveryCodes(drawn.codes + 1),
                version |-> job[b].seen.version + 1]
    /\ drawn' = [drawn EXCEPT !.codes = @ + 1]
    /\ spent' = spent \cup {job[b].code} /\ uses' = uses + 1
    /\ overtaken' = (overtaken \/ Changed(b, Columns))
    /\ Goto(b, "respond")
    /\ UNCHANGED <<now, cookie, pre, pending>>

\* Mutant: the new codes are added to those that are left.
CommitRegenerateMore(b) ==
    /\ job[b].op = "regenerate" /\ job[b].at = "commit"
    /\ user' = [user EXCEPT !.codes = @ \cup RecoveryCodes(drawn.codes + 1)]
    /\ drawn' = [drawn EXCEPT !.codes = @ + 1]
    /\ End(b)
    /\ UNCHANGED <<now, cookie, pre, pending, spent, uses, overtaken>>

CommitRegenerate(b) ==
    /\ job[b].op = "regenerate" /\ job[b].at = "commit"
    /\ user' = [user EXCEPT !.codes = RecoveryCodes(drawn.codes + 1)]
    /\ drawn' = [drawn EXCEPT !.codes = @ + 1]
    /\ End(b)
    /\ UNCHANGED <<now, cookie, pre, pending, spent, uses, overtaken>>

\* The last commit of the requests that end in invalidate_other_sessions
CommitRotation(b) ==
    /\ job[b].op \in Rotating \ {"setup"} /\ job[b].at = "commit"
    /\ user' = IF job[b].op = "disable"
               THEN [enabled |-> FALSE, secret |-> None, last |-> None,
                     codes |-> {}, version |-> job[b].seen.version + 1]
               ELSE [user EXCEPT !.version = job[b].seen.version + 1]
    /\ overtaken' = (overtaken \/ Changed(b, {"version"}))
    /\ Goto(b, "respond")
    /\ UNCHANGED <<now, cookie, pre, pending, drawn, spent, uses>>

\* The row is expired by the commit: login_user signs the version it reads now.
\* setup and disable keep the session, the other two start a fresh one.
Respond(b) ==
    /\ job[b].op \in Rotating /\ job[b].at = "respond"
    /\ cookie' = [cookie EXCEPT ![b] =
                     [version |-> user.version,
                      second |-> @.second \/ job[b].code # NoCode]]
    /\ overtaken' = (overtaken \/ user.version # job[b].seen.version + 1)
    /\ pending' = IF job[b].op = "disable" THEN pending
                  ELSE [pending EXCEPT ![b] = None]
    /\ pre' = IF job[b].op \in {"setup", "disable"} THEN pre
              ELSE [pre EXCEPT ![b] = None]
    /\ End(b)
    /\ UNCHANGED <<now, user, drawn, spent, uses>>

-----------------------------------------------------------------------------
\* An error, a killed worker or a reboot: what was committed stays.
Fail(b) ==
    /\ job[b] # Idle
    /\ End(b)
    /\ UNCHANGED <<now, user, cookie, pre, pending, drawn, spent, uses, overtaken>>

Tick ==
    /\ now < MaxTime
    /\ now' = now + 1
    /\ UNCHANGED <<user, cookie, pre, pending, job, drawn, spent, uses, overtaken>>

Step(b) ==
    \/ BeginLogin(b) \/ FinishLogin(b) \/ SecondStepRefused(b) \/ Enter(b) \/ Logout(b)
    \/ \E c \in Codes : BeginSecondStep(b, c) \/ BeginSetup(b, c)
    \/ \E op \in Guarded, c \in Codes \cup {NoCode} : BeginGuarded(b, op, c)
    \/ ShowSetup(b) \/ BeginLogoutEverywhere(b)
    \/ Consume(b) \/ Reload(b)
    \/ CommitSetup(b) \/ CommitRegenerate(b) \/ CommitRotation(b) \/ Respond(b)
    \/ Fail(b)

Next == Tick \/ \E b \in Browsers : Step(b)

Spec == Init /\ [][Next]_vars

-----------------------------------------------------------------------------
(* Properties.                                                             *)

(* Types; an enabled second factor has a secret to check codes against.    *)
TypeOK ==
    /\ now \in 1..MaxTime \cup {1}
    /\ user \in User
    /\ user.enabled => user.secret # None
    /\ cookie \in [Browsers -> [version: Nat \cup {None}, second: BOOLEAN]]
    /\ pre \in [Browsers -> Nat \cup {None}]
    /\ pending \in [Browsers -> 1..MaxSecret \cup {None}]
    /\ job \in [Browsers -> Job \cup {Idle}]
    /\ drawn \in [secrets: 0..MaxSecret, codes: Nat]
    /\ spent \subseteq Codes /\ uses \in Nat /\ overtaken \in BOOLEAN

(* "Sessions and remember cookies already issued no longer match" once the
   second factor is enabled (totp_setup): while it is, every session that
   works was opened or renewed with a code, unless two requests that renew
   the sessions overlapped and one took the other's version.               *)
NoBypass ==
    ~overtaken =>
        \A b \in Browsers : (user.enabled /\ Authenticates(b)) => cookie[b].second

(* The recovery codes that work are among those shown last (they are shown
   exactly once, generate_recovery_codes), unless a list loaded before the
   new one was drawn was written back over it.                             *)
NewestCodesOnly ==
    ~overtaken => user.codes \subseteq RecoveryCodes(drawn.codes)

\* The codes that would be accepted now or at a later time
Live ==
    IF user.enabled
    THEN {c \in TotpCodes : c.of = user.secret /\ c.n > user.last} \cup user.codes
    ELSE {}

Abstract == INSTANCE OneTimeCodes WITH Code <- Codes, live <- Live, spent <- spent, uses <- uses

(* "A code can only be used once" (SECURITY.md:148, services.py:240): TOTP
   and recovery codes together implement OneTimeCodes, until a counter or a
   list is written back over a newer one or a session takes the version of
   another request.                                                        *)
ImplementsOneTimeCodes ==
    Abstract!Init /\ [][Abstract!Next \/ overtaken']_Abstract!vars

=============================================================================
