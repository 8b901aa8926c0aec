------------------------------ MODULE RateLimit ------------------------------
(***************************************************************************)
(* The rate limiter and the failure counters of app/utils.py, as POST      *)
(* /login (app/routes.py) uses them: the rate_limit decorator, then the    *)
(* check of two failure counters, then the password, then the failures     *)
(* recorded or cleared.                                                    *)
(*                                                                         *)
(* Both kinds of counters are rows (key, ts) of one SQLite table that      *)
(* outlives the worker.  Every access is atomic (_STATE_LOCK, BEGIN        *)
(* IMMEDIATE), but it uses a time read before the lock was taken, a login  *)
(* makes up to six accesses with the accesses of other threads in between, *)
(* and any access may also purge old rows.  The counters of the alerts     *)
(* about administrators have keys of their own and refuse nobody: they are *)
(* left out.                                                               *)
(***************************************************************************)
EXTENDS Integers, FiniteSets

CONSTANTS
    Calls,        \* the requests; each is handled once, by one thread
    Threads,      \* gunicorn --threads: how many are in flight at a time
    Names,        \* usernames a login form can carry
    Accounts,     \* accounts a visitor may already be logged in with
    Addrs,        \* values of request.remote_addr
    Anon,         \* the visitor who is not logged in
    Traffic,      \* the requests that may come: what each call carries
    Meaningless,  \* those that do not tell visitors apart (loopback: onion service)
    LimitMax, Window,            \* @rate_limit('login', max_calls, window_seconds)
    UserMax, UserWindow,         \* LOGIN_USER_MAX_FAILURES
    ClientMax, ClientWindow,     \* LOGIN_CLIENT_MAX_FAILURES
    MaxAge,       \* _STATE_MAX_AGE
    Skew,         \* how old a time read before the lock can be once it is held
    MaxClock      \* bound on the clock, for TLC

ASSUME LimiterAssumption ==
    /\ Threads \in Nat \ {0}
    /\ LimitMax \in Nat \ {0} /\ UserMax \in Nat \ {0} /\ ClientMax \in Nat \ {0}
    /\ Window \in Nat \ {0} /\ UserWindow \in Nat \ {0} /\ ClientWindow \in Nat \ {0}
    /\ MaxAge \in Nat /\ Skew \in Nat /\ MaxClock \in Nat
    /\ Anon \notin Accounts
    /\ Traffic \subseteq [Calls -> [who: Accounts \cup {Anon}, addr: Addrs, name: Names]]
    \* 3600 s is the longest window of the code, MaxAge one day
    /\ Window + Skew <= MaxAge
    /\ UserWindow + Skew <= MaxAge
    /\ ClientWindow + Skew <= MaxAge

VARIABLES
    rows,    \* table hits of security_state.db: counted hits and failures
    pc,      \* where each call is in the login handler
    req,     \* what it carries
    last,    \* the last time it read with time.time()
    clock,
    log      \* history: the rows written and not deliberately cleared

vars == <<rows, pc, req, last, clock, log>>

-----------------------------------------------------------------------------
(* Keys.  Their HMAC is injective for the purpose of counting.             *)

CounterKeys == ({"form"} \X Names) \cup ({"acct"} \X Accounts)
                 \cup ({"anon", "ip"} \X Addrs)
FailureKeys == ({"user"} \X Names) \cup ({"client"} \X Addrs)
Keys == CounterKeys \cup FailureKeys

\* client_ip_is_meaningful()
Meaningful(r) == r.addr \notin Meaningless

\* anonymous_client_key()
ClientId(r) == IF r.who = Anon THEN <<"anon", r.addr>> ELSE <<"acct", r.who>>

\* Mutant: the address is a key even when all visitors share it.
LimitByAddress(r) == ClientId(r)

LimitKey(r) ==
    IF r.who = Anon /\ ~Meaningful(r) THEN <<"form", r.name>> ELSE ClientId(r)

IpKey(r) == <<"ip", r.addr>>
UserKey(r) == <<"user", r.name>>
ClientKey(r) == <<"client", r.addr>>

MaxOf(k) == CASE k[1] = "ip"     -> 3 * LimitMax
              [] k[1] = "user"   -> UserMax
              [] k[1] = "client" -> ClientMax
              [] OTHER           -> LimitMax

WindowOf(k) == CASE k[1] = "user"   -> UserWindow
                 [] k[1] = "client" -> ClientWindow
                 [] OTHER           -> Window

-----------------------------------------------------------------------------
(* The table.                                                              *)

Row(k, n, c) == [key |-> k, ts |-> n, call |-> c]

\* The rows of key k younger than time t
Since(S, k, t) == {r \in S : r.key = k /\ r.ts > t}

\* Mutant: one hit more than the limit.
ReachedInclusive(S, k, n) == Cardinality(Since(S, k, n - WindowOf(k))) > MaxOf(k)

Reached(S, k, n) == Cardinality(Since(S, k, n - WindowOf(k))) >= MaxOf(k)

\* Mutant: rows are kept for one window only, whatever the reader's time.
PurgeWindow(n) == {rows, {r \in rows : r.ts > n - WindowOf(r.key)}}

\* _cleanup: once in a hundred accesses, old rows are deleted
Purge(n) == {rows, {r \in rows : r.ts >= n - MaxAge}}

\* Mutant: a time no clock has shown yet.
FutureTime(c) == {n \in clock..(clock + Skew) : n >= last[c]}

\* A thread reads the time, then waits for the lock: the time it works with
\* is at most Skew old, and not older than the one it read before.
ReadTime(c) == {n \in (clock - Skew)..clock : n >= last[c]}

Never == 0 - Skew    \* before every time a call reads

\* The call goes on to phase p having read time n last; the time of a finished
\* call no longer matters.
Ended == {"done", "refused"}
Goto(c, n, p) ==
    /\ pc' = [pc EXCEPT ![c] = p]
    /\ last' = [last EXCEPT ![c] = IF p \in Ended THEN Never ELSE n]

\* hit_rate_limit(k, MaxOf(k), WindowOf(k)), then next when it is not limited
Hit(c, k, next) ==
    \E n \in ReadTime(c) : \E kept \in Purge(n) :
        /\ rows' = IF Reached(kept, k, n) THEN kept ELSE kept \cup {Row(k, n, c)}
        /\ log' = IF Reached(kept, k, n) THEN log ELSE log \cup {Row(k, n, c)}
        /\ Goto(c, n, IF Reached(kept, k, n) THEN "refused" ELSE next)
        /\ UNCHANGED <<req, clock>>

\* too_many_failures(k, MaxOf(k), WindowOf(k)), then next when it is not reached
CheckFailures(c, k, next) ==
    \E n \in ReadTime(c) :
        /\ Goto(c, n, IF Reached(rows, k, n) THEN "refused" ELSE next)
        /\ UNCHANGED <<rows, req, clock, log>>

\* record_failure(k): the row is inserted, then old rows may go
RecordFailure(c, k, next) ==
    \E n \in ReadTime(c) : \E kept \in Purge(n) :
        /\ rows' = kept \cup {Row(k, n, c)}
        /\ log' = log \cup {Row(k, n, c)}
        /\ Goto(c, n, next)
        /\ UNCHANGED <<req, clock>>

Without(S, ks) == {r \in S : r.key \notin ks}

-----------------------------------------------------------------------------
(* POST /login.                                                            *)

InFlight == {c \in Calls : pc[c] \in
    {"limitIp", "checkUser", "checkClient", "verify", "recordClient"}}

Init ==
    /\ rows = {} /\ log = {}
    /\ pc = [c \in Calls |-> "new"]
    /\ req \in Traffic
    /\ last = [c \in Calls |-> Never]
    /\ clock = 0

\* An authenticated visitor who passes the limiter is redirected.
AfterLimit(c) == IF req[c].who = Anon THEN "checkUser" ELSE "done"

\* The limiter is the first thing a request meets, once a thread takes it.
Limit(c) ==
    /\ pc[c] = "new"
    /\ Cardinality(InFlight) < Threads
    /\ Hit(c, LimitKey(req[c]), IF Meaningful(req[c]) THEN "limitIp" ELSE AfterLimit(c))

\* Also limit per IP, so that switching accounts does not bypass it
LimitIp(c) ==
    /\ pc[c] = "limitIp"
    /\ Hit(c, IpKey(req[c]), AfterLimit(c))

CheckUser(c) ==
    /\ pc[c] = "checkUser"
    /\ CheckFailures(c, UserKey(req[c]), IF Meaningful(req[c]) THEN "checkClient" ELSE "verify")

CheckClient(c) ==
    /\ pc[c] = "checkClient"
    /\ CheckFailures(c, ClientKey(req[c]), "verify")

\* bcrypt says no: the failure of the username ...
WrongPassword(c) ==
    /\ pc[c] = "verify"
    /\ RecordFailure(c, UserKey(req[c]), IF Meaningful(req[c]) THEN "recordClient" ELSE "done")

\* ... and, when the address means something, the failure of the client
RecordClient(c) ==
    /\ pc[c] = "recordClient"
    /\ RecordFailure(c, ClientKey(req[c]), "done")

\* bcrypt says yes: clear_failures, and the session starts
RightPassword(c) ==
    /\ pc[c] = "verify"
    /\ rows' = Without(rows, {UserKey(req[c])})
    /\ log' = Without(log, {UserKey(req[c])})
    /\ Goto(c, last[c], "done")
    /\ UNCHANGED <<req, clock>>

\* The form is not valid (CSRF token, empty field), or the password is right and
\* the account suspended: nothing is counted, nothing is cleared.
Uncounted(c) ==
    /\ pc[c] \in {"checkUser", "verify"}
    /\ Goto(c, last[c], "done")
    /\ UNCHANGED <<rows, req, clock, log>>

\* flask unlock NAME: its failures and its login limit, not the client's
UnlockKeys(name) == {<<"user", name>>, <<"form", name>>}

Clear(ks) ==
    /\ Without(rows, ks) # rows
    /\ rows' = Without(rows, ks)
    /\ log' = Without(log, ks)
    /\ UNCHANGED <<pc, req, last, clock>>

Unlock(name) == Clear(UnlockKeys(name))
\* flask unlock --all, reset_security_state()
UnlockAll == Clear(Keys)

\* Mutant: the counters live in the worker's memory.
RestartForgets ==
    /\ InFlight # {}
    /\ pc' = [c \in Calls |-> IF c \in InFlight THEN "done" ELSE pc[c]]
    /\ last' = [c \in Calls |-> Never]
    /\ rows' = {}
    /\ UNCHANGED <<req, clock, log>>

\* The worker is restarted: its threads are gone, the table is not.
Restart ==
    /\ InFlight # {}
    /\ pc' = [c \in Calls |-> IF c \in InFlight THEN "done" ELSE pc[c]]
    /\ last' = [c \in Calls |-> Never]
    /\ UNCHANGED <<rows, req, clock, log>>

Tick ==
    /\ clock < MaxClock
    /\ clock' = clock + 1
    /\ UNCHANGED <<rows, pc, req, last, log>>

Handle(c) ==
    \/ Limit(c) \/ LimitIp(c)
    \/ CheckUser(c) \/ CheckClient(c)
    \/ WrongPassword(c) \/ RecordClient(c)
    \/ RightPassword(c) \/ Uncounted(c)

Next ==
    \/ \E c \in Calls : Handle(c)
    \/ \E name \in Names : Unlock(name)
    \/ UnlockAll
    \/ Restart
    \/ Tick

Spec == Init /\ [][Next]_vars

-----------------------------------------------------------------------------
(* Properties.                                                             *)

TypeOK ==
    /\ rows \subseteq log
    /\ log \subseteq [key: Keys, ts: Int, call: Calls]
    /\ IsFiniteSet(log)
    /\ pc \in [Calls -> {"new", "limitIp", "checkUser", "checkClient",
                         "verify", "recordClient", "done", "refused"}]
    /\ req \in Traffic
    /\ last \in [Calls -> Int]
    /\ clock \in Nat
    /\ \A c \in Calls : last[c] <= clock
    /\ IsFiniteSet(InFlight) /\ Cardinality(InFlight) <= Threads

\* The rows of key k dated in the window that ends at time u
InWindow(k, u) == {r \in log : r.key = k /\ u - WindowOf(k) < r.ts /\ r.ts <= u}

\* Every time a window may end at: sliding, not aligned
Times == {r.ts : r \in log}

(* @rate_limit (utils.py:592): whatever the interleaving of the threads, the
   age of the times they work with, the purges and the restarts, at most
   MaxOf(k) requests are counted for a key in any sliding window.          *)
WindowBound ==
    \A k \in CounterKeys : \A u \in Times :
        Cardinality(InWindow(k, u)) <= MaxOf(k)

(* LOGIN_USER_MAX_FAILURES, LOGIN_CLIENT_MAX_FAILURES (routes.py:843): the
   counter is read before bcrypt runs and written after, so threads may pass
   together; still, no sliding window holds more failures than the limit
   plus the threads that can be in flight beside the one that reaches it.  *)
FailureBound ==
    \A k \in FailureKeys : \A u \in Times :
        Cardinality(InWindow(k, u)) <= MaxOf(k) + Threads - 1

(* "Past this age a hit is useless for every window used in the code"
   (utils.py:419): no thread, however late, misses a row of its window
   because another thread has purged it.                                   *)
NoEarlyPurge ==
    \A r \in log : r.ts > clock - Skew - WindowOf(r.key) => r \in rows

(* Behind an onion service all visitors share one address.  A login form for
   one username is then refused only after calls that named the same username
   filled its counter: no visitor can lock everybody out (routes.py:858).  *)
NoSharedLockout ==
    [][\A c \in Calls :
        (/\ pc[c] # "refused" /\ pc'[c] = "refused"
         /\ ~Meaningful(req[c]) /\ req[c].who = Anon)
          => \E k \in Keys :
                LET hits == {r \in rows : r.key = k} IN
                    /\ \A r \in hits : req[r.call].name = req[c].name
                    /\ Cardinality(hits) >= MaxOf(k)]_vars

=============================================================================
