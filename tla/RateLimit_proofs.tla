-------------------------- MODULE RateLimit_proofs ---------------------------
(* Proofs about RateLimit, for all requests, any number of threads, and every
   choice of limits and windows that LimiterAssumption allows.               *)
EXTENDS RateLimit, FiniteSetTheorems, TLAPS

-----------------------------------------------------------------------------
(* Keys, limits and times.                                                   *)

LEMMA KeyTypes ==
    ASSUME TypeOK, NEW c \in Calls
    PROVE  /\ LimitKey(req[c]) \in CounterKeys /\ IpKey(req[c]) \in CounterKeys
           /\ UserKey(req[c]) \in FailureKeys /\ ClientKey(req[c]) \in FailureKeys
<1>1. req[c] \in [who: Accounts \cup {Anon}, addr: Addrs, name: Names]
  BY LimiterAssumption DEF TypeOK
<1>2. req[c].addr \in Addrs /\ req[c].name \in Names /\ req[c].who \in Accounts \cup {Anon}
  BY <1>1
<1> QED
  BY <1>2 DEF LimitKey, ClientId, IpKey, UserKey, ClientKey, CounterKeys, FailureKeys

LEMMA KeysApart ==
    /\ \A k \in CounterKeys : k[1] \notin {"user", "client"}
    /\ \A k \in FailureKeys : k[1] \in {"user", "client"}
    /\ \A r : UserKey(r)[1] = "user" /\ ClientKey(r)[1] = "client"
BY DEF CounterKeys, FailureKeys, UserKey, ClientKey

LEMMA Limits ==
    ASSUME NEW k \in Keys
    PROVE  MaxOf(k) \in Nat \ {0} /\ WindowOf(k) \in Nat \ {0} /\ WindowOf(k) + Skew <= MaxAge
BY LimiterAssumption DEF MaxOf, WindowOf

LEMMA TimeRead ==
    ASSUME TypeOK, NEW c \in Calls, NEW n \in ReadTime(c)
    PROVE  n \in Int /\ clock - Skew <= n /\ n <= clock /\ last[c] <= n
BY LimiterAssumption DEF ReadTime, TypeOK

-----------------------------------------------------------------------------
(* A step of a call only touches its own phase and time.                     *)

LEMMA GotoTypes ==
    ASSUME TypeOK, NEW c \in Calls, NEW n \in Int, n <= clock, clock' = clock, req' = req,
           NEW p \in {"limitIp", "checkUser", "checkClient", "verify", "recordClient",
                      "done", "refused"},
           Goto(c, n, p),
           \/ c \in InFlight
           \/ Cardinality(InFlight) < Threads
    PROVE  /\ pc' \in [Calls -> {"new", "limitIp", "checkUser", "checkClient",
                                 "verify", "recordClient", "done", "refused"}]
           /\ last' \in [Calls -> Int]
           /\ \A d \in Calls : last'[d] <= clock'
           /\ IsFiniteSet(InFlight') /\ Cardinality(InFlight') <= Threads
<1>1. Never \in Int /\ Never <= clock
  BY LimiterAssumption DEF Never, TypeOK
<1>2. last' \in [Calls -> Int] /\ \A d \in Calls : last'[d] <= clock'
  BY <1>1 DEF Goto, TypeOK
<1>3. InFlight' \subseteq InFlight \cup {c}
  BY DEF InFlight, Goto, TypeOK
<1>4. IsFiniteSet(InFlight \cup {c}) /\ Cardinality(InFlight \cup {c}) <= Threads
  <2>1. CASE c \in InFlight
    <3>1. InFlight \cup {c} = InFlight
      BY <2>1
    <3> QED BY <3>1 DEF TypeOK
  <2>2. CASE c \notin InFlight
    <3>1. Cardinality(InFlight) < Threads
      BY <2>2
    <3>2. /\ IsFiniteSet(InFlight \cup {c})
          /\ Cardinality(InFlight \cup {c}) = Cardinality(InFlight) + 1
      BY <2>2, FS_AddElement DEF TypeOK
    <3>3. Cardinality(InFlight) \in Nat
      BY FS_CardinalityType DEF TypeOK
    <3> QED BY <3>1, <3>2, <3>3, LimiterAssumption
  <2> QED BY <2>1, <2>2
<1>5. IsFiniteSet(InFlight') /\ Cardinality(InFlight') <= Threads
  BY <1>3, <1>4, FS_Subset, FS_CardinalityType, LimiterAssumption
<1>6. pc' \in [Calls -> {"new", "limitIp", "checkUser", "checkClient",
                         "verify", "recordClient", "done", "refused"}]
  BY DEF Goto, TypeOK
<1> QED BY <1>2, <1>5, <1>6

Phases == {"limitIp", "checkUser", "checkClient", "verify", "recordClient", "done", "refused"}

LEMMA RowType ==
    ASSUME TypeOK, NEW c \in Calls, NEW k \in Keys, NEW n \in Int
    PROVE  /\ log \cup {Row(k, n, c)} \subseteq [key: Keys, ts: Int, call: Calls]
           /\ IsFiniteSet(log \cup {Row(k, n, c)})
<1>1. Row(k, n, c) \in [key: Keys, ts: Int, call: Calls]
  BY DEF Row
<1>2. IsFiniteSet(log)
  BY DEF TypeOK
<1>3. IsFiniteSet(log \cup {Row(k, n, c)})
  BY <1>2, FS_AddElement
<1> QED BY <1>1, <1>3 DEF TypeOK

LEMMA HitTypes ==
    ASSUME TypeOK, NEW c \in Calls, NEW k \in Keys, NEW p \in Phases, Hit(c, k, p),
           c \in InFlight \/ Cardinality(InFlight) < Threads
    PROVE  TypeOK'
<1>1. PICK n \in ReadTime(c) : \E kept \in Purge(n) :
        /\ rows' = IF Reached(kept, k, n) THEN kept ELSE kept \cup {Row(k, n, c)}
        /\ log' = IF Reached(kept, k, n) THEN log ELSE log \cup {Row(k, n, c)}
        /\ Goto(c, n, IF Reached(kept, k, n) THEN "refused" ELSE p)
        /\ UNCHANGED <<req, clock>>
  BY DEF Hit
<1>2. PICK kept \in Purge(n) :
        /\ rows' = IF Reached(kept, k, n) THEN kept ELSE kept \cup {Row(k, n, c)}
        /\ log' = IF Reached(kept, k, n) THEN log ELSE log \cup {Row(k, n, c)}
        /\ Goto(c, n, IF Reached(kept, k, n) THEN "refused" ELSE p)
        /\ UNCHANGED <<req, clock>>
  BY <1>1
<1>3. n \in Int /\ n <= clock
  BY TimeRead, LimiterAssumption DEF TypeOK
<1>4. kept \subseteq log
  BY DEF Purge, TypeOK
<1>5. rows' \subseteq log' /\ log' \subseteq [key: Keys, ts: Int, call: Calls] /\ IsFiniteSet(log')
  BY <1>2, <1>3, <1>4, RowType DEF TypeOK
<1>6. (IF Reached(kept, k, n) THEN "refused" ELSE p) \in Phases
  BY DEF Phases
<1> QED BY <1>2, <1>3, <1>5, <1>6, GotoTypes DEF TypeOK, Phases

LEMMA CheckTypes ==
    ASSUME TypeOK, NEW c \in Calls, NEW k \in Keys, NEW p \in Phases, CheckFailures(c, k, p),
           c \in InFlight
    PROVE  TypeOK'
<1>1. PICK n \in ReadTime(c) :
        /\ Goto(c, n, IF Reached(rows, k, n) THEN "refused" ELSE p)
        /\ UNCHANGED <<rows, req, clock, log>>
  BY DEF CheckFailures
<1>2. n \in Int /\ n <= clock
  BY TimeRead, LimiterAssumption DEF TypeOK
<1>3. (IF Reached(rows, k, n) THEN "refused" ELSE p) \in Phases
  BY DEF Phases
<1> QED BY <1>1, <1>2, <1>3, GotoTypes DEF TypeOK, Phases

LEMMA RecordTypes ==
    ASSUME TypeOK, NEW c \in Calls, NEW k \in Keys, NEW p \in Phases, RecordFailure(c, k, p),
           c \in InFlight
    PROVE  TypeOK'
<1>0. PICK n \in ReadTime(c) : \E kept \in Purge(n) :
        /\ rows' = kept \cup {Row(k, n, c)}
        /\ log' = log \cup {Row(k, n, c)}
        /\ Goto(c, n, p)
        /\ UNCHANGED <<req, clock>>
  BY DEF RecordFailure
<1>1. PICK kept \in Purge(n) :
        /\ rows' = kept \cup {Row(k, n, c)}
        /\ log' = log \cup {Row(k, n, c)}
        /\ Goto(c, n, p)
        /\ UNCHANGED <<req, clock>>
  BY <1>0
<1>2. n \in Int /\ n <= clock
  BY TimeRead, LimiterAssumption DEF TypeOK
<1>3. kept \subseteq log
  BY DEF Purge, TypeOK
<1>4. rows' \subseteq log' /\ log' \subseteq [key: Keys, ts: Int, call: Calls] /\ IsFiniteSet(log')
  BY <1>1, <1>2, <1>3, RowType DEF TypeOK
<1> QED BY <1>1, <1>2, <1>4, GotoTypes DEF TypeOK, Phases

(* Clearing keys leaves a smaller table.                                     *)
LEMMA WithoutTypes ==
    ASSUME TypeOK, NEW ks
    PROVE  /\ Without(rows, ks) \subseteq Without(log, ks)
           /\ Without(log, ks) \subseteq log /\ IsFiniteSet(Without(log, ks))
BY FS_Subset DEF TypeOK, Without

LEMMA TypeInit == Init => TypeOK
<1> SUFFICES ASSUME Init PROVE TypeOK
  OBVIOUS
<1>1. InFlight = {}
  BY DEF Init, InFlight
<1>2. Never \in Int /\ Never <= 0
  BY LimiterAssumption DEF Never
<1> QED BY <1>1, <1>2, FS_EmptySet, LimiterAssumption DEF Init, TypeOK

LEMMA TypeStep == TypeOK /\ [Next]_vars => TypeOK'
<1> SUFFICES ASSUME TypeOK, [Next]_vars PROVE TypeOK'
  OBVIOUS
<1>0. CounterKeys \subseteq Keys /\ FailureKeys \subseteq Keys
  BY DEF Keys
<1>1. ASSUME NEW c \in Calls, Limit(c) PROVE TypeOK'
  <2>1. (IF Meaningful(req[c]) THEN "limitIp" ELSE AfterLimit(c)) \in Phases
    BY DEF AfterLimit, Phases
  <2> QED BY <1>0, <1>1, <2>1, HitTypes, KeyTypes DEF Limit
<1>2. ASSUME NEW c \in Calls, LimitIp(c) PROVE TypeOK'
  <2>1. AfterLimit(c) \in Phases /\ c \in InFlight
    BY <1>2 DEF AfterLimit, Phases, LimitIp, InFlight
  <2> QED BY <1>0, <1>2, <2>1, HitTypes, KeyTypes DEF LimitIp
<1>3. ASSUME NEW c \in Calls, CheckUser(c) PROVE TypeOK'
  <2>1. /\ (IF Meaningful(req[c]) THEN "checkClient" ELSE "verify") \in Phases
        /\ c \in InFlight
    BY <1>3 DEF Phases, CheckUser, InFlight
  <2> QED BY <1>0, <1>3, <2>1, CheckTypes, KeyTypes DEF CheckUser
<1>4. ASSUME NEW c \in Calls, CheckClient(c) PROVE TypeOK'
  <2>1. "verify" \in Phases /\ c \in InFlight
    BY <1>4 DEF Phases, CheckClient, InFlight
  <2> QED BY <1>0, <1>4, <2>1, CheckTypes, KeyTypes DEF CheckClient
<1>5. ASSUME NEW c \in Calls, WrongPassword(c) PROVE TypeOK'
  <2>1. /\ (IF Meaningful(req[c]) THEN "recordClient" ELSE "done") \in Phases
        /\ c \in InFlight
    BY <1>5 DEF Phases, WrongPassword, InFlight
  <2> QED BY <1>0, <1>5, <2>1, RecordTypes, KeyTypes DEF WrongPassword
<1>6. ASSUME NEW c \in Calls, RecordClient(c) PROVE TypeOK'
  <2>1. "done" \in Phases /\ c \in InFlight
    BY <1>6 DEF Phases, RecordClient, InFlight
  <2> QED BY <1>0, <1>6, <2>1, RecordTypes, KeyTypes DEF RecordClient
<1>7. ASSUME NEW c \in Calls, RightPassword(c) PROVE TypeOK'
  <2>1. c \in InFlight /\ last[c] \in Int /\ last[c] <= clock
    BY <1>7 DEF RightPassword, InFlight, TypeOK
  <2> QED BY <1>7, <2>1, GotoTypes, WithoutTypes DEF RightPassword, TypeOK
<1>8. ASSUME NEW c \in Calls, Uncounted(c) PROVE TypeOK'
  <2>1. c \in InFlight /\ last[c] \in Int /\ last[c] <= clock
    BY <1>8 DEF Uncounted, InFlight, TypeOK
  <2> QED BY <1>8, <2>1, GotoTypes DEF Uncounted, TypeOK
<1>9. ASSUME NEW ks, Clear(ks) PROVE TypeOK'
  BY <1>9, WithoutTypes DEF Clear, TypeOK, InFlight
<1>10. ASSUME Restart PROVE TypeOK'
  <2>1. InFlight' = {}
    BY <1>10 DEF Restart, InFlight, TypeOK
  <2>2. Never \in Int /\ Never <= clock
    BY LimiterAssumption DEF Never, TypeOK
  <2> QED BY <1>10, <2>1, <2>2, FS_EmptySet, LimiterAssumption DEF Restart, TypeOK
<1>11. ASSUME Tick PROVE TypeOK'
  BY <1>11 DEF Tick, TypeOK, InFlight
<1>12. CASE UNCHANGED vars
  BY <1>12 DEF vars, TypeOK, InFlight
<1> QED
  BY <1>1, <1>2, <1>3, <1>4, <1>5, <1>6, <1>7, <1>8, <1>9, <1>10, <1>11, <1>12
  DEF Next, Handle, Unlock, UnlockAll

(* Rows, phases and times have their types, and no more calls are in flight
   than there are threads.                                                   *)
THEOREM TypeCorrect == Spec => []TypeOK
<1> QED BY TypeInit, TypeStep, PTL DEF Spec

-----------------------------------------------------------------------------
(* Only rows too old for every window are purged.                            *)

Retention == \A r \in log \ rows : r.ts < clock - MaxAge

RetentionInv == TypeOK /\ Retention

(* A reader, whatever the age of its time, finds in what it keeps every row of
   its window.                                                               *)
LEMMA KeptWindow ==
    ASSUME RetentionInv, NEW c \in Calls, NEW n \in ReadTime(c), NEW kept \in Purge(n),
           NEW r \in log, r.ts > n - WindowOf(r.key)
    PROVE  r \in kept
<1>1. r.key \in Keys /\ r.ts \in Int
  BY DEF RetentionInv, TypeOK
<1>2. WindowOf(r.key) \in Nat /\ WindowOf(r.key) + Skew <= MaxAge
  BY <1>1, Limits
<1>3. n \in Int /\ clock - Skew <= n /\ clock \in Nat
  BY TimeRead DEF RetentionInv, TypeOK
<1>4. r.ts >= clock - MaxAge /\ r.ts >= n - MaxAge
  BY <1>1, <1>2, <1>3, LimiterAssumption
<1>5. r \in rows
  BY <1>1, <1>3, <1>4, LimiterAssumption DEF RetentionInv, Retention
<1> QED BY <1>4, <1>5 DEF Purge

LEMMA PurgedOld ==
    ASSUME RetentionInv, NEW c \in Calls, NEW n \in ReadTime(c), NEW kept \in Purge(n),
           NEW r \in log \ kept
    PROVE  r.ts < clock - MaxAge
<1>1. r.ts \in Int
  BY DEF RetentionInv, TypeOK
<1>2. n \in Int /\ n <= clock /\ clock \in Nat
  BY TimeRead DEF RetentionInv, TypeOK
<1>3. CASE r \notin rows
  BY <1>3 DEF RetentionInv, Retention
<1>4. CASE r \in rows
  <2>1. ~(r.ts >= n - MaxAge)
    BY <1>4 DEF Purge
  <2> QED BY <1>1, <1>2, <2>1, LimiterAssumption
<1> QED BY <1>3, <1>4

LEMMA RetentionStep == RetentionInv /\ [Next]_vars => RetentionInv'
<1> SUFFICES ASSUME RetentionInv, [Next]_vars PROVE RetentionInv'
  OBVIOUS
<1>0. TypeOK /\ TypeOK'
  BY TypeStep DEF RetentionInv
<1>1. ASSUME NEW c \in Calls, NEW k, NEW p, Hit(c, k, p) PROVE Retention'
  <2>1. PICK n \in ReadTime(c) : \E kept \in Purge(n) :
          /\ rows' = IF Reached(kept, k, n) THEN kept ELSE kept \cup {Row(k, n, c)}
          /\ log' = IF Reached(kept, k, n) THEN log ELSE log \cup {Row(k, n, c)}
          /\ clock' = clock
    BY <1>1 DEF Hit
  <2>2. PICK kept \in Purge(n) :
          /\ rows' = IF Reached(kept, k, n) THEN kept ELSE kept \cup {Row(k, n, c)}
          /\ log' = IF Reached(kept, k, n) THEN log ELSE log \cup {Row(k, n, c)}
          /\ clock' = clock
    BY <2>1
  <2>3. log' \ rows' \subseteq log \ kept
    BY <2>2
  <2> QED BY <2>2, <2>3, PurgedOld DEF Retention
<1>2. ASSUME NEW c \in Calls, NEW k, NEW p, RecordFailure(c, k, p) PROVE Retention'
  <2>1. PICK n \in ReadTime(c) : \E kept \in Purge(n) :
          /\ rows' = kept \cup {Row(k, n, c)}
          /\ log' = log \cup {Row(k, n, c)}
          /\ clock' = clock
    BY <1>2 DEF RecordFailure
  <2>2. PICK kept \in Purge(n) :
          /\ rows' = kept \cup {Row(k, n, c)}
          /\ log' = log \cup {Row(k, n, c)}
          /\ clock' = clock
    BY <2>1
  <2>3. log' \ rows' \subseteq log \ kept
    BY <2>2
  <2> QED BY <2>2, <2>3, PurgedOld DEF Retention
<1>3. ASSUME NEW ks, rows' = Without(rows, ks), log' = Without(log, ks), clock' = clock
      PROVE  Retention'
  BY <1>3 DEF RetentionInv, Retention, Without
<1>4. ASSUME UNCHANGED <<rows, log, clock>> PROVE Retention'
  BY <1>4 DEF RetentionInv, Retention
<1>5. ASSUME Tick PROVE Retention'
  <2>1. \A r \in log : r.ts \in Int
    BY <1>0 DEF TypeOK
  <2> QED BY <1>0, <1>5, <2>1, LimiterAssumption DEF Tick, RetentionInv, Retention, TypeOK
<1>6. Retention'
  <2>1. ASSUME NEW c \in Calls, Handle(c) PROVE Retention'
    BY <2>1, <1>1, <1>2, <1>3, <1>4
    DEF Handle, Limit, LimitIp, CheckUser, CheckClient, WrongPassword, RecordClient,
        RightPassword, Uncounted, CheckFailures
  <2>2. CASE UNCHANGED vars \/ Restart
    BY <1>4, <2>2 DEF vars, Restart
  <2>3. ASSUME NEW ks, Clear(ks) PROVE Retention'
    BY <1>3, <2>3 DEF Clear
  <2> QED BY <2>1, <2>2, <2>3, <1>5 DEF Next, Unlock, UnlockAll
<1> QED BY <1>0, <1>6 DEF RetentionInv

LEMMA RetentionInit == Init => RetentionInv
BY TypeInit DEF Init, RetentionInv, Retention

(* "Past this age a hit is useless for every window used in the code"
   (utils.py:419): a purge by one thread never takes a row that another thread
   still has to count.                                                       *)
THEOREM PurgeIsHarmless == Spec => []NoEarlyPurge
<1>1. RetentionInv => NoEarlyPurge
  <2> SUFFICES ASSUME RetentionInv, NEW r \in log,
                      r.ts > clock - Skew - WindowOf(r.key), r \notin rows
               PROVE  FALSE
    BY DEF NoEarlyPurge
  <2>1. r.key \in Keys /\ r.ts \in Int /\ clock \in Nat
    BY DEF RetentionInv, TypeOK
  <2>2. WindowOf(r.key) \in Nat /\ WindowOf(r.key) + Skew <= MaxAge
    BY <2>1, Limits
  <2>3. r.ts < clock - MaxAge
    BY DEF RetentionInv, Retention
  <2> QED BY <2>1, <2>2, <2>3, LimiterAssumption
<1> QED BY <1>1, RetentionInit, RetentionStep, PTL DEF Spec

-----------------------------------------------------------------------------
(* Requests counted for a key, in any window of integer length.              *)

LEMMA WindowFinite ==
    ASSUME TypeOK, NEW k \in Keys, NEW u \in Int
    PROVE  IsFiniteSet(InWindow(k, u)) /\ Cardinality(InWindow(k, u)) \in Nat
<1>1. InWindow(k, u) \subseteq log /\ IsFiniteSet(log)
  BY DEF InWindow, TypeOK
<1> QED BY <1>1, FS_Subset, FS_CardinalityType

LEMMA SmallerWindow ==
    ASSUME TypeOK, NEW k \in Keys, NEW u \in Int, InWindow(k, u)' \subseteq InWindow(k, u)
    PROVE  Cardinality(InWindow(k, u)') <= Cardinality(InWindow(k, u))
BY WindowFinite, FS_Subset

HitsOK == \A k \in CounterKeys : \A u \in Int : Cardinality(InWindow(k, u)) <= MaxOf(k)

HitsInv == RetentionInv /\ HitsOK

(* What a thread counts before it adds a row at time n holds every window the
   new row is in.                                                            *)
LEMMA CountedWindow ==
    ASSUME RetentionInv, NEW c \in Calls, NEW n \in ReadTime(c), NEW kept \in Purge(n),
           NEW k \in Keys, NEW u \in Int, n <= u, ~Reached(kept, k, n)
    PROVE  Cardinality(InWindow(k, u)) < MaxOf(k)
<1>1. n \in Int /\ WindowOf(k) \in Nat /\ MaxOf(k) \in Nat /\ TypeOK
  BY TimeRead, Limits DEF RetentionInv
<1>2. InWindow(k, u) \subseteq Since(kept, k, n - WindowOf(k))
  <2> SUFFICES ASSUME NEW r \in InWindow(k, u) PROVE r \in Since(kept, k, n - WindowOf(k))
    OBVIOUS
  <2>1. r \in log /\ r.key = k /\ u - WindowOf(k) < r.ts
    BY DEF InWindow
  <2>2. r.ts \in Int
    BY <1>1, <2>1 DEF TypeOK
  <2>3. r.ts > n - WindowOf(k)
    BY <1>1, <2>1, <2>2
  <2>4. r \in kept
    BY <2>1, <2>3, KeptWindow
  <2> QED BY <2>1, <2>3, <2>4 DEF Since
<1>3. IsFiniteSet(Since(kept, k, n - WindowOf(k)))
  <2>1. Since(kept, k, n - WindowOf(k)) \subseteq log /\ IsFiniteSet(log)
    BY <1>1 DEF Since, Purge, TypeOK
  <2> QED BY <2>1, FS_Subset
<1>4. Cardinality(Since(kept, k, n - WindowOf(k))) < MaxOf(k)
  BY <1>1, <1>3, FS_CardinalityType DEF Reached
<1> QED BY <1>1, <1>2, <1>3, <1>4, FS_Subset, FS_CardinalityType

LEMMA HitKeepsHits ==
    ASSUME HitsInv, NEW c \in Calls, NEW h \in CounterKeys, NEW p, Hit(c, h, p)
    PROVE  HitsOK'
<1>1. PICK n \in ReadTime(c) : \E kept \in Purge(n) :
        log' = IF Reached(kept, h, n) THEN log ELSE log \cup {Row(h, n, c)}
  BY DEF Hit
<1>2. PICK kept \in Purge(n) :
        log' = IF Reached(kept, h, n) THEN log ELSE log \cup {Row(h, n, c)}
  BY <1>1
<1>3. TypeOK /\ RetentionInv /\ HitsOK
  BY DEF HitsInv, RetentionInv
<1>4. SUFFICES ASSUME NEW k \in CounterKeys, NEW u \in Int
               PROVE  Cardinality(InWindow(k, u)') <= MaxOf(k)
  BY DEF HitsOK
<1>5. /\ k \in Keys /\ h \in Keys /\ MaxOf(k) \in Nat /\ n \in Int
      /\ Cardinality(InWindow(k, u)) \in Nat /\ IsFiniteSet(InWindow(k, u))
      /\ Cardinality(InWindow(k, u)) <= MaxOf(k)
  BY <1>3, Limits, TimeRead, WindowFinite DEF Keys, HitsOK
<1>6. CASE InWindow(k, u)' \subseteq InWindow(k, u)
  <2>1. Cardinality(InWindow(k, u)') <= Cardinality(InWindow(k, u))
    BY <1>3, <1>5, <1>6, SmallerWindow
  <2>2. Cardinality(InWindow(k, u)') \in Nat
    BY <1>5, <1>6, FS_Subset, FS_CardinalityType
  <2> QED BY <1>5, <2>1, <2>2
<1>7. CASE ~(InWindow(k, u)' \subseteq InWindow(k, u))
  <2>1. InWindow(k, u)' \subseteq InWindow(k, u) \cup {Row(h, n, c)}
    BY <1>2 DEF InWindow
  <2>2. k = h /\ n <= u /\ ~Reached(kept, h, n)
    BY <1>2, <1>7 DEF InWindow, Row
  <2>3. Cardinality(InWindow(k, u)) < MaxOf(k)
    BY <1>3, <1>5, <2>2, CountedWindow
  <2>4. /\ IsFiniteSet(InWindow(k, u) \cup {Row(h, n, c)})
        /\ Cardinality(InWindow(k, u) \cup {Row(h, n, c)}) <= Cardinality(InWindow(k, u)) + 1
    BY <1>5, FS_AddElement
  <2>5. /\ Cardinality(InWindow(k, u)') <= Cardinality(InWindow(k, u) \cup {Row(h, n, c)})
        /\ IsFiniteSet(InWindow(k, u)')
    BY <2>1, <2>4, FS_Subset
  <2> QED BY <1>5, <2>3, <2>4, <2>5, FS_CardinalityType
<1> QED BY <1>6, <1>7

LEMMA HitsStep == HitsInv /\ [Next]_vars => HitsInv'
<1> SUFFICES ASSUME HitsInv, [Next]_vars PROVE HitsInv'
  OBVIOUS
<1>0. TypeOK /\ RetentionInv'
  BY RetentionStep DEF HitsInv, RetentionInv
<1>1. ASSUME \A r \in log' \ log : r.key \in FailureKeys PROVE HitsOK'
  <2> SUFFICES ASSUME NEW k \in CounterKeys, NEW u \in Int
               PROVE  Cardinality(InWindow(k, u)') <= MaxOf(k)
    BY DEF HitsOK
  <2>1. k \notin FailureKeys /\ k \in Keys /\ MaxOf(k) \in Nat
    BY KeysApart, Limits DEF Keys
  <2>2. InWindow(k, u)' \subseteq InWindow(k, u)
    BY <1>1, <2>1 DEF InWindow
  <2>3. /\ Cardinality(InWindow(k, u)') <= Cardinality(InWindow(k, u))
        /\ Cardinality(InWindow(k, u)) \in Nat /\ Cardinality(InWindow(k, u)') \in Nat
    BY <1>0, <2>1, <2>2, SmallerWindow, WindowFinite, FS_Subset, FS_CardinalityType
  <2>4. Cardinality(InWindow(k, u)) <= MaxOf(k)
    BY DEF HitsInv, HitsOK
  <2> QED BY <2>1, <2>3, <2>4
<1>2. ASSUME NEW c \in Calls, NEW k \in FailureKeys, NEW p, RecordFailure(c, k, p)
      PROVE  HitsOK'
  <2>1. \E n : log' = log \cup {Row(k, n, c)}
    BY <1>2 DEF RecordFailure
  <2> QED BY <1>1, <2>1 DEF Row
<1>3. ASSUME NEW c \in Calls, Handle(c) PROVE HitsOK'
  <2>1. CASE Limit(c) \/ LimitIp(c)
    BY <1>0, <2>1, HitKeepsHits, KeyTypes DEF Limit, LimitIp
  <2>2. CASE WrongPassword(c) \/ RecordClient(c)
    BY <1>0, <1>2, <2>2, KeyTypes DEF WrongPassword, RecordClient
  <2>3. CASE CheckUser(c) \/ CheckClient(c) \/ RightPassword(c) \/ Uncounted(c)
    <3>1. log' \subseteq log
      BY <2>3 DEF CheckUser, CheckClient, CheckFailures, RightPassword, Uncounted, Without
    <3> QED BY <1>1, <3>1
  <2> QED BY <1>3, <2>1, <2>2, <2>3 DEF Handle
<1>4. ASSUME NEW ks, Clear(ks) PROVE HitsOK'
  BY <1>1, <1>4 DEF Clear, Without
<1>5. ASSUME Restart \/ Tick \/ UNCHANGED vars PROVE HitsOK'
  BY <1>1, <1>5 DEF Restart, Tick, vars
<1>6. HitsOK'
  BY <1>3, <1>4, <1>5 DEF Next, Unlock, UnlockAll
<1> QED BY <1>0, <1>6 DEF HitsInv

LEMMA HitsInit == Init => HitsInv
<1> SUFFICES ASSUME Init PROVE HitsInv
  OBVIOUS
<1>1. ASSUME NEW k \in CounterKeys, NEW u \in Int PROVE Cardinality(InWindow(k, u)) <= MaxOf(k)
  <2>1. InWindow(k, u) = {}
    BY DEF Init, InWindow
  <2>2. MaxOf(k) \in Nat
    BY Limits DEF Keys
  <2> QED BY <2>1, <2>2, FS_EmptySet
<1> QED BY <1>1, RetentionInit DEF HitsInv, HitsOK

(* @rate_limit (utils.py:592): no sliding window holds more counted requests
   of one key than its limit, for any limits, windows, number of threads and
   order of their steps, any purge and any restart.                          *)
THEOREM LimitHolds == Spec => []WindowBound
<1>1. HitsInv => WindowBound
  <2> SUFFICES ASSUME HitsInv PROVE WindowBound
    OBVIOUS
  <2>1. Times \subseteq Int
    BY DEF Times, HitsInv, RetentionInv, TypeOK
  <2> QED BY <2>1 DEF WindowBound, HitsInv, HitsOK
<1> QED BY <1>1, HitsInit, HitsStep, PTL DEF Spec

-----------------------------------------------------------------------------
(* Failures: a call that has passed the check of a counter may still add a row
   to it.                                                                    *)

Unsettled(c, k) ==
    \/ k = UserKey(req[c]) /\ pc[c] \in {"checkClient", "verify"}
    \/ k = ClientKey(req[c]) /\ Meaningful(req[c]) /\ pc[c] \in {"verify", "recordClient"}

Pending(k, u) == {c \in InFlight : Unsettled(c, k) /\ last[c] <= u}

Load(k, u) == Cardinality(InWindow(k, u)) + Cardinality(Pending(k, u))

OnlyMeaningful ==
    \A c \in Calls : pc[c] \in {"limitIp", "checkClient", "recordClient"} => Meaningful(req[c])

LoadOK == \A k \in FailureKeys : \A u \in Int : Load(k, u) <= MaxOf(k) + Threads - 1

FailureInv == RetentionInv /\ OnlyMeaningful /\ LoadOK

LEMMA LoadFinite ==
    ASSUME TypeOK, NEW k \in Keys, NEW u \in Int
    PROVE  /\ IsFiniteSet(InWindow(k, u)) /\ Cardinality(InWindow(k, u)) \in Nat
           /\ IsFiniteSet(Pending(k, u)) /\ Cardinality(Pending(k, u)) \in Nat
           /\ Cardinality(Pending(k, u)) <= Threads
<1>1. Pending(k, u) \subseteq InFlight /\ IsFiniteSet(InFlight) /\ Cardinality(InFlight) <= Threads
  BY DEF Pending, TypeOK
<1>2. /\ IsFiniteSet(Pending(k, u)) /\ Cardinality(Pending(k, u)) <= Cardinality(InFlight)
      /\ Cardinality(Pending(k, u)) \in Nat /\ Cardinality(InFlight) \in Nat
  BY <1>1, FS_Subset, FS_CardinalityType
<1> QED BY <1>1, <1>2, WindowFinite, LimiterAssumption

(* The load of a window does not grow when no row and no call joins it, ...   *)
LEMMA LoadShrinks ==
    ASSUME TypeOK, TypeOK', NEW k \in Keys, NEW u \in Int,
           InWindow(k, u)' \subseteq InWindow(k, u), Pending(k, u)' \subseteq Pending(k, u),
           Load(k, u) <= MaxOf(k) + Threads - 1
    PROVE  Load(k, u)' <= MaxOf(k) + Threads - 1
<1>1. /\ Cardinality(InWindow(k, u)') <= Cardinality(InWindow(k, u))
      /\ Cardinality(Pending(k, u)') <= Cardinality(Pending(k, u))
      /\ Cardinality(InWindow(k, u)') \in Nat /\ Cardinality(Pending(k, u)') \in Nat
      /\ Cardinality(InWindow(k, u)) \in Nat /\ Cardinality(Pending(k, u)) \in Nat
  BY LoadFinite, FS_Subset, FS_CardinalityType
<1> QED BY <1>1, Limits, LimiterAssumption DEF Load

(* ... nor when a pending call becomes a row, ...                             *)
LEMMA LoadMoves ==
    ASSUME TypeOK, TypeOK', NEW k \in Keys, NEW u \in Int, NEW r, NEW c \in Pending(k, u),
           InWindow(k, u)' \subseteq InWindow(k, u) \cup {r},
           Pending(k, u)' \subseteq Pending(k, u) \ {c},
           Load(k, u) <= MaxOf(k) + Threads - 1
    PROVE  Load(k, u)' <= MaxOf(k) + Threads - 1
<1>1. /\ IsFiniteSet(InWindow(k, u)) /\ IsFiniteSet(Pending(k, u))
      /\ Cardinality(InWindow(k, u)) \in Nat /\ Cardinality(Pending(k, u)) \in Nat
  BY LoadFinite
<1>2. /\ IsFiniteSet(InWindow(k, u) \cup {r})
      /\ Cardinality(InWindow(k, u) \cup {r}) <= Cardinality(InWindow(k, u)) + 1
      /\ Cardinality(InWindow(k, u) \cup {r}) \in Nat
  <2>1. /\ IsFiniteSet(InWindow(k, u) \cup {r})
        /\ \/ Cardinality(InWindow(k, u) \cup {r}) = Cardinality(InWindow(k, u)) + 1
           \/ Cardinality(InWindow(k, u) \cup {r}) = Cardinality(InWindow(k, u))
    BY <1>1, FS_AddElement
  <2> QED BY <1>1, <2>1
<1>3. /\ IsFiniteSet(Pending(k, u) \ {c})
      /\ Cardinality(Pending(k, u) \ {c}) = Cardinality(Pending(k, u)) - 1
      /\ Cardinality(Pending(k, u) \ {c}) \in Nat
  BY <1>1, FS_RemoveElement, FS_CardinalityType
<1>4. /\ Cardinality(InWindow(k, u)') <= Cardinality(InWindow(k, u) \cup {r})
      /\ Cardinality(InWindow(k, u)') \in Nat
  BY <1>2, FS_Subset, FS_CardinalityType
<1>5. /\ Cardinality(Pending(k, u)') <= Cardinality(Pending(k, u) \ {c})
      /\ Cardinality(Pending(k, u)') \in Nat
  BY <1>3, FS_Subset, FS_CardinalityType
<1> QED BY <1>1, <1>2, <1>3, <1>4, <1>5, Limits, LimiterAssumption DEF Load

(* ... and a call that joins has seen less than the limit.                    *)
LEMMA LoadStarts ==
    ASSUME TypeOK, TypeOK', NEW k \in Keys, NEW u \in Int,
           InWindow(k, u)' \subseteq InWindow(k, u), Cardinality(InWindow(k, u)) < MaxOf(k)
    PROVE  Load(k, u)' <= MaxOf(k) + Threads - 1
<1>1. /\ Cardinality(InWindow(k, u)') <= Cardinality(InWindow(k, u))
      /\ Cardinality(InWindow(k, u)) \in Nat /\ Cardinality(InWindow(k, u)') \in Nat
  BY LoadFinite, FS_Subset, FS_CardinalityType
<1>2. Cardinality(Pending(k, u)') \in Nat /\ Cardinality(Pending(k, u)') <= Threads
  <2>1. Pending(k, u)' \subseteq InFlight' /\ IsFiniteSet(InFlight')
        /\ Cardinality(InFlight') <= Threads
    BY DEF Pending, TypeOK
  <2> QED BY <2>1, FS_Subset, FS_CardinalityType, LimiterAssumption
<1> QED BY <1>1, <1>2, Limits, LimiterAssumption DEF Load

LEMMA OthersPending ==
    ASSUME TypeOK, NEW c \in Calls, NEW n, NEW p, Goto(c, n, p), req' = req,
           NEW k, NEW u
    PROVE  /\ Pending(k, u)' \ {c} \subseteq Pending(k, u) \ {c}
           /\ c \in Pending(k, u)' =>
                /\ \/ k = UserKey(req[c]) /\ p \in {"checkClient", "verify"}
                   \/ /\ k = ClientKey(req[c]) /\ Meaningful(req[c])
                      /\ p \in {"verify", "recordClient"}
                /\ n <= u
<1>1. /\ pc'[c] = p /\ last'[c] = IF p \in Ended THEN Never ELSE n
      /\ \A d \in Calls \ {c} : pc'[d] = pc[d] /\ last'[d] = last[d]
  BY DEF Goto, TypeOK
<1>2. \A d \in Calls : Meaningful(req[d])' = Meaningful(req[d])
  BY DEF Meaningful
<1>3. Pending(k, u)' \ {c} \subseteq Pending(k, u) \ {c}
  BY <1>1, <1>2 DEF Pending, Unsettled, InFlight, UserKey, ClientKey
<1>4. ASSUME c \in Pending(k, u)'
      PROVE  /\ \/ k = UserKey(req[c]) /\ p \in {"checkClient", "verify"}
                \/ /\ k = ClientKey(req[c]) /\ Meaningful(req[c])
                   /\ p \in {"verify", "recordClient"}
             /\ n <= u
  BY <1>1, <1>2, <1>4 DEF Pending, Unsettled, InFlight, UserKey, ClientKey, Ended
<1> QED BY <1>3, <1>4

(* Rows counted by the limiter leave the failures alone.                     *)
LEMMA HitLoad ==
    ASSUME FailureInv, TypeOK', NEW c \in Calls, NEW h \in CounterKeys,
           NEW p \in {"limitIp", "checkUser", "done"}, Hit(c, h, p),
           NEW k \in FailureKeys, NEW u \in Int
    PROVE  Load(k, u)' <= MaxOf(k) + Threads - 1
<1>1. PICK n \in ReadTime(c) : \E kept \in Purge(n) :
        /\ log' = IF Reached(kept, h, n) THEN log ELSE log \cup {Row(h, n, c)}
        /\ Goto(c, n, IF Reached(kept, h, n) THEN "refused" ELSE p)
        /\ req' = req
  BY DEF Hit
<1>2. PICK kept \in Purge(n) :
        /\ log' = IF Reached(kept, h, n) THEN log ELSE log \cup {Row(h, n, c)}
        /\ Goto(c, n, IF Reached(kept, h, n) THEN "refused" ELSE p)
        /\ req' = req
  BY <1>1
<1>3. TypeOK /\ k \in Keys /\ Load(k, u) <= MaxOf(k) + Threads - 1
  BY DEF FailureInv, RetentionInv, Keys, LoadOK
<1>4. h # k
  BY KeysApart
<1>5. InWindow(k, u)' \subseteq InWindow(k, u)
  BY <1>2, <1>4 DEF InWindow, Row
<1>6. Pending(k, u)' \subseteq Pending(k, u)
  <2>1. c \notin Pending(k, u)'
    BY <1>2, <1>3, OthersPending
  <2> QED BY <1>2, <1>3, <2>1, OthersPending
<1> QED BY <1>3, <1>5, <1>6, LoadShrinks

(* A call that passes a check, and that was only pending for another key.    *)
LEMMA CheckLoad ==
    ASSUME FailureInv, TypeOK', NEW c \in Calls, NEW h \in Keys,
           NEW p, CheckFailures(c, h, p), c \in InFlight,
           NEW k \in FailureKeys, NEW u \in Int,
           k # h =>
             \/ Unsettled(c, k)
             \/ /\ k = UserKey(req[c]) => p \notin {"checkClient", "verify"}
                /\ k = ClientKey(req[c]) /\ Meaningful(req[c])
                      => p \notin {"verify", "recordClient"}
    PROVE  Load(k, u)' <= MaxOf(k) + Threads - 1
<1>1. PICK n \in ReadTime(c) :
        /\ Goto(c, n, IF Reached(rows, h, n) THEN "refused" ELSE p)
        /\ UNCHANGED <<rows, req, clock, log>>
  BY DEF CheckFailures
<1>2. TypeOK /\ RetentionInv /\ k \in Keys /\ Load(k, u) <= MaxOf(k) + Threads - 1
  BY DEF FailureInv, RetentionInv, Keys, LoadOK
<1>3. InWindow(k, u)' \subseteq InWindow(k, u)
  BY <1>1 DEF InWindow
<1>4. n \in Int /\ last[c] <= n /\ last[c] \in Int
  BY <1>2, TimeRead DEF TypeOK
<1>5. Pending(k, u)' \ {c} \subseteq Pending(k, u)
  BY <1>1, <1>2, OthersPending
<1>6. CASE c \notin Pending(k, u)'
  BY <1>2, <1>3, <1>5, <1>6, LoadShrinks
<1>7. CASE c \in Pending(k, u)'
  <2>1. n <= u /\ ~Reached(rows, h, n)
    BY <1>1, <1>2, <1>7, OthersPending
  <2>2. CASE k = h
    <3>1. rows \in Purge(n)
      BY DEF Purge
    <3>2. Cardinality(InWindow(k, u)) < MaxOf(k)
      BY <1>2, <2>1, <2>2, <3>1, CountedWindow
    <3> QED BY <1>2, <1>3, <3>2, LoadStarts
  <2>3. CASE k # h
    <3>1. Unsettled(c, k)
      BY <1>1, <1>2, <1>7, <2>1, <2>3, OthersPending
    <3>2. c \in Pending(k, u)
      BY <1>4, <2>1, <3>1 DEF Pending
    <3> QED BY <1>2, <1>3, <1>5, <3>2, LoadShrinks
  <2> QED BY <2>2, <2>3
<1> QED BY <1>6, <1>7

(* A pending call that adds its row for h, and stays pending for others.     *)
LEMMA RecordLoad ==
    ASSUME FailureInv, TypeOK', NEW c \in Calls, NEW h \in Keys,
           NEW p \in {"recordClient", "done"}, RecordFailure(c, h, p), c \in InFlight,
           Unsettled(c, h),
           h = ClientKey(req[c]) => p = "done",
           pc[c] = "recordClient" => p = "done",
           pc[c] \in {"verify", "recordClient"},
           NEW k \in FailureKeys, NEW u \in Int
    PROVE  Load(k, u)' <= MaxOf(k) + Threads - 1
<1>1. PICK n \in ReadTime(c) : \E kept \in Purge(n) :
        log' = log \cup {Row(h, n, c)} /\ Goto(c, n, p) /\ req' = req
  BY DEF RecordFailure
<1>2. log' = log \cup {Row(h, n, c)} /\ Goto(c, n, p) /\ req' = req
  BY <1>1
<1>3. TypeOK /\ k \in Keys /\ Load(k, u) <= MaxOf(k) + Threads - 1
  BY DEF FailureInv, RetentionInv, Keys, LoadOK
<1>4. n \in Int /\ last[c] <= n /\ last[c] \in Int
  BY <1>3, TimeRead DEF TypeOK
<1>5. Pending(k, u)' \ {c} \subseteq Pending(k, u) \ {c}
  BY <1>2, <1>3, OthersPending
<1>6. InWindow(k, u)' \subseteq InWindow(k, u) \cup {Row(h, n, c)}
  BY <1>2 DEF InWindow
<1>7. CASE k = h /\ n <= u
  <2>1. c \in Pending(k, u)
    BY <1>4, <1>7 DEF Pending
  <2>2. c \notin Pending(k, u)'
    BY <1>2, <1>3, <1>7, OthersPending
  <2> QED BY <1>3, <1>5, <1>6, <2>1, <2>2, LoadMoves
<1>8. CASE ~(k = h /\ n <= u)
  <2>1. InWindow(k, u)' \subseteq InWindow(k, u)
    BY <1>2, <1>8 DEF InWindow, Row
  <2>2. Pending(k, u)' \subseteq Pending(k, u)
    <3>1. CASE c \notin Pending(k, u)'
      BY <1>5, <3>1
    <3>2. CASE c \in Pending(k, u)'
      <4>1. n <= u /\ k = ClientKey(req[c]) /\ Meaningful(req[c]) /\ p = "recordClient"
        BY <1>2, <1>3, <3>2, OthersPending
      <4>2. pc[c] = "verify"
        BY <4>1
      <4>3. c \in Pending(k, u)
        BY <1>4, <4>1, <4>2 DEF Pending, Unsettled
      <4> QED BY <1>5, <4>3
    <3> QED BY <3>1, <3>2
  <2> QED BY <1>3, <2>1, <2>2, LoadShrinks
<1> QED BY <1>7, <1>8

(* Calls keep what they carry; phases that follow a client check or record are
   only reached by meaningful addresses.                                     *)
LEMMA MeaningfulStep ==
    ASSUME FailureInv, [Next]_vars
    PROVE  OnlyMeaningful'
<1>0. TypeOK /\ OnlyMeaningful
  BY DEF FailureInv, RetentionInv
<1>1. ASSUME NEW c \in Calls, NEW n, NEW p, Goto(c, n, p), req' = req,
             p \in {"limitIp", "checkClient", "recordClient"} => Meaningful(req[c])
      PROVE  OnlyMeaningful'
  BY <1>0, <1>1 DEF Goto, OnlyMeaningful, Meaningful, TypeOK
<1>2. ASSUME NEW c \in Calls, NEW k, NEW p, Hit(c, k, p),
             p \in {"limitIp", "checkClient", "recordClient"} => Meaningful(req[c])
      PROVE  OnlyMeaningful'
  <2>1. \E n, q : /\ Goto(c, n, q) /\ req' = req
                  /\ q \in {"limitIp", "checkClient", "recordClient"} => Meaningful(req[c])
    BY <1>2 DEF Hit
  <2> QED BY <1>1, <2>1
<1>3. ASSUME NEW c \in Calls, NEW k, NEW p, CheckFailures(c, k, p),
             p \in {"limitIp", "checkClient", "recordClient"} => Meaningful(req[c])
      PROVE  OnlyMeaningful'
  <2>1. \E n, q : /\ Goto(c, n, q) /\ req' = req
                  /\ q \in {"limitIp", "checkClient", "recordClient"} => Meaningful(req[c])
    BY <1>3 DEF CheckFailures
  <2> QED BY <1>1, <2>1
<1>4. ASSUME NEW c \in Calls, NEW k, NEW p, RecordFailure(c, k, p),
             p \in {"limitIp", "checkClient", "recordClient"} => Meaningful(req[c])
      PROVE  OnlyMeaningful'
  <2>1. \E n : Goto(c, n, p) /\ req' = req
    BY <1>4 DEF RecordFailure
  <2> QED BY <1>1, <1>4, <2>1
<1>5. ASSUME NEW c \in Calls, Handle(c) PROVE OnlyMeaningful'
  <2>1. CASE Limit(c) \/ LimitIp(c)
    BY <1>2, <2>1 DEF Limit, LimitIp, AfterLimit
  <2>2. CASE CheckUser(c) \/ CheckClient(c)
    BY <1>3, <2>2 DEF CheckUser, CheckClient
  <2>3. CASE WrongPassword(c) \/ RecordClient(c)
    BY <1>4, <2>3 DEF WrongPassword, RecordClient
  <2>4. CASE RightPassword(c) \/ Uncounted(c)
    BY <1>1, <2>4 DEF RightPassword, Uncounted
  <2> QED BY <1>5, <2>1, <2>2, <2>3, <2>4 DEF Handle
<1>6. ASSUME Restart PROVE OnlyMeaningful'
  BY <1>0, <1>6 DEF Restart, OnlyMeaningful, Meaningful, TypeOK
<1>7. ASSUME UNCHANGED <<pc, req>> PROVE OnlyMeaningful'
  BY <1>0, <1>7 DEF OnlyMeaningful, Meaningful
<1> QED BY <1>5, <1>6, <1>7 DEF Next, Unlock, UnlockAll, Clear, Tick, vars

LEMMA FailureStep == FailureInv /\ [Next]_vars => FailureInv'
<1> SUFFICES ASSUME FailureInv, [Next]_vars PROVE FailureInv'
  OBVIOUS
<1>0. TypeOK /\ TypeOK' /\ RetentionInv' /\ OnlyMeaningful
  BY RetentionStep DEF FailureInv, RetentionInv
<1>1. SUFFICES ASSUME NEW k \in FailureKeys, NEW u \in Int
               PROVE  Load(k, u)' <= MaxOf(k) + Threads - 1
  <2>1. OnlyMeaningful'
    BY MeaningfulStep
  <2> QED BY <1>0, <2>1 DEF FailureInv, LoadOK
<1>2. k \in Keys /\ Load(k, u) <= MaxOf(k) + Threads - 1 /\ FailureKeys \subseteq Keys
  BY DEF FailureInv, LoadOK, Keys
<1>3. ASSUME InWindow(k, u)' \subseteq InWindow(k, u), Pending(k, u)' \subseteq Pending(k, u)
      PROVE  Load(k, u)' <= MaxOf(k) + Threads - 1
  BY <1>0, <1>2, <1>3, LoadShrinks
<1>4. ASSUME NEW c \in Calls, Limit(c) PROVE Load(k, u)' <= MaxOf(k) + Threads - 1
  <2>1. (IF Meaningful(req[c]) THEN "limitIp" ELSE AfterLimit(c))
            \in {"limitIp", "checkUser", "done"}
    BY DEF AfterLimit
  <2> QED BY <1>0, <1>4, <2>1, HitLoad, KeyTypes DEF Limit
<1>5. ASSUME NEW c \in Calls, LimitIp(c) PROVE Load(k, u)' <= MaxOf(k) + Threads - 1
  <2>1. AfterLimit(c) \in {"limitIp", "checkUser", "done"}
    BY DEF AfterLimit
  <2> QED BY <1>0, <1>5, <2>1, HitLoad, KeyTypes DEF LimitIp
<1>6. ASSUME NEW c \in Calls, CheckUser(c) PROVE Load(k, u)' <= MaxOf(k) + Threads - 1
  <2>1. UserKey(req[c]) \in Keys /\ c \in InFlight
    BY <1>0, <1>2, <1>6, KeyTypes DEF CheckUser, InFlight
  <2> QED BY <1>6, <1>0, <2>1, CheckLoad DEF CheckUser
<1>7. ASSUME NEW c \in Calls, CheckClient(c) PROVE Load(k, u)' <= MaxOf(k) + Threads - 1
  <2>1. ClientKey(req[c]) \in Keys /\ c \in InFlight
    BY <1>0, <1>2, <1>7, KeyTypes DEF CheckClient, InFlight
  <2>2. Unsettled(c, UserKey(req[c]))
    BY <1>7 DEF CheckClient, Unsettled
  <2> QED BY <1>7, <1>0, <2>1, <2>2, CheckLoad DEF CheckClient
<1>8. ASSUME NEW c \in Calls, WrongPassword(c) PROVE Load(k, u)' <= MaxOf(k) + Threads - 1
  <2>1. /\ UserKey(req[c]) \in Keys /\ c \in InFlight /\ pc[c] = "verify"
        /\ UserKey(req[c]) # ClientKey(req[c]) /\ Unsettled(c, UserKey(req[c]))
    BY <1>0, <1>2, <1>8, KeyTypes, KeysApart DEF WrongPassword, InFlight, Unsettled
  <2>2. (IF Meaningful(req[c]) THEN "recordClient" ELSE "done") \in {"recordClient", "done"}
    OBVIOUS
  <2> QED BY <1>8, <1>0, <2>1, <2>2, RecordLoad DEF WrongPassword
<1>9. ASSUME NEW c \in Calls, RecordClient(c) PROVE Load(k, u)' <= MaxOf(k) + Threads - 1
  <2>1. /\ ClientKey(req[c]) \in Keys /\ c \in InFlight /\ pc[c] = "recordClient"
        /\ Unsettled(c, ClientKey(req[c]))
    BY <1>0, <1>2, <1>9, KeyTypes DEF RecordClient, InFlight, Unsettled, OnlyMeaningful
  <2> QED BY <1>9, <1>0, <2>1, RecordLoad DEF RecordClient
<1>10. ASSUME NEW c \in Calls, RightPassword(c) \/ Uncounted(c)
       PROVE  Load(k, u)' <= MaxOf(k) + Threads - 1
  <2>1. Goto(c, last[c], "done") /\ req' = req /\ log' \subseteq log
    BY <1>10 DEF RightPassword, Uncounted, Without
  <2>2. c \notin Pending(k, u)' /\ Pending(k, u)' \ {c} \subseteq Pending(k, u)
    BY <1>0, <2>1, OthersPending
  <2>3. InWindow(k, u)' \subseteq InWindow(k, u)
    BY <2>1 DEF InWindow
  <2> QED BY <1>3, <2>2, <2>3
<1>11. ASSUME NEW ks, Clear(ks) PROVE Load(k, u)' <= MaxOf(k) + Threads - 1
  <2>1. InWindow(k, u)' \subseteq InWindow(k, u)
    BY <1>11 DEF Clear, Without, InWindow
  <2>2. Pending(k, u)' \subseteq Pending(k, u)
    BY <1>11 DEF Clear, Pending, Unsettled, InFlight, Meaningful
  <2> QED BY <1>3, <2>1, <2>2
<1>12. ASSUME Restart PROVE Load(k, u)' <= MaxOf(k) + Threads - 1
  <2>1. InWindow(k, u)' \subseteq InWindow(k, u)
    BY <1>12 DEF Restart, InWindow
  <2>2. Pending(k, u)' \subseteq Pending(k, u)
    BY <1>0, <1>12 DEF Restart, Pending, InFlight, TypeOK
  <2> QED BY <1>3, <2>1, <2>2
<1>13. ASSUME UNCHANGED <<pc, req, last, log>> PROVE Load(k, u)' <= MaxOf(k) + Threads - 1
  <2>1. InWindow(k, u)' \subseteq InWindow(k, u) /\ Pending(k, u)' \subseteq Pending(k, u)
    BY <1>13 DEF InWindow, Pending, Unsettled, InFlight, Meaningful
  <2> QED BY <1>3, <2>1
<1>14. ASSUME NEW c \in Calls, Handle(c) PROVE Load(k, u)' <= MaxOf(k) + Threads - 1
  BY <1>14, <1>4, <1>5, <1>6, <1>7, <1>8, <1>9, <1>10 DEF Handle
<1> QED
  BY <1>11, <1>12, <1>13, <1>14 DEF Next, Unlock, UnlockAll, Tick, vars

LEMMA FailureInit == Init => FailureInv
<1> SUFFICES ASSUME Init PROVE FailureInv
  OBVIOUS
<1>1. ASSUME NEW k \in FailureKeys, NEW u \in Int PROVE Load(k, u) <= MaxOf(k) + Threads - 1
  <2>1. InWindow(k, u) = {} /\ Pending(k, u) = {}
    BY DEF Init, InWindow, Pending, InFlight
  <2>2. MaxOf(k) \in Nat \ {0}
    BY Limits DEF Keys
  <2> QED BY <2>1, <2>2, FS_EmptySet, LimiterAssumption DEF Load
<1>2. OnlyMeaningful
  BY DEF Init, OnlyMeaningful
<1> QED BY <1>1, <1>2, RetentionInit DEF FailureInv, LoadOK

(* LOGIN_USER_MAX_FAILURES and LOGIN_CLIENT_MAX_FAILURES (routes.py:843): the
   check and the record of a failure are apart, so the limit can be exceeded,
   but never by more than the other threads of the worker.                   *)
THEOREM FailuresHold == Spec => []FailureBound
<1>1. FailureInv => FailureBound
  <2> SUFFICES ASSUME FailureInv, NEW k \in FailureKeys, NEW u \in Times
               PROVE  Cardinality(InWindow(k, u)) <= MaxOf(k) + Threads - 1
    BY DEF FailureBound
  <2>1. u \in Int /\ k \in Keys /\ TypeOK
    BY DEF Times, FailureInv, RetentionInv, TypeOK, Keys
  <2>2. /\ Load(k, u) <= MaxOf(k) + Threads - 1 /\ MaxOf(k) \in Nat
        /\ Cardinality(InWindow(k, u)) \in Nat /\ Cardinality(Pending(k, u)) \in Nat
    BY <2>1, LoadFinite, Limits DEF FailureInv, LoadOK
  <2> QED BY <2>2, LimiterAssumption DEF Load
<1> QED BY <1>1, FailureInit, FailureStep, PTL DEF Spec

-----------------------------------------------------------------------------
(* No lockout of everybody by one visitor.                                   *)

\* A counter of a name only has rows of calls that carried the name.
Named == \A r \in log : \A name \in Names :
            r.key \in {<<"form", name>>, <<"user", name>>} => req[r.call].name = name

NamedInv == FailureInv /\ Named

LEMMA OwnKeys ==
    ASSUME NEW r, NEW name,
           \/ <<"form", name>> \in {LimitKey(r), IpKey(r), UserKey(r), ClientKey(r)}
           \/ <<"user", name>> \in {LimitKey(r), IpKey(r), UserKey(r), ClientKey(r)}
    PROVE  r.name = name
BY DEF LimitKey, ClientId, IpKey, UserKey, ClientKey

LEMMA NamedStep == NamedInv /\ [Next]_vars => NamedInv'
<1> SUFFICES ASSUME NamedInv, [Next]_vars PROVE NamedInv'
  OBVIOUS
<1>0. FailureInv'
  BY FailureStep DEF NamedInv
<1>1. ASSUME NEW c \in Calls, NEW k \in {LimitKey(req[c]), IpKey(req[c]), UserKey(req[c]), ClientKey(req[c])},
             NEW n, log' \subseteq log \cup {Row(k, n, c)}, req' = req
      PROVE  Named'
  <2>1. \A name : k \in {<<"form", name>>, <<"user", name>>} => req[c].name = name
    BY OwnKeys
  <2> QED BY <1>1, <2>1 DEF NamedInv, Named, Row
<1>2. ASSUME log' \subseteq log, req' = req PROVE Named'
  BY <1>2 DEF NamedInv, Named
<1>3. ASSUME NEW c \in Calls, NEW p,
             NEW k \in {LimitKey(req[c]), IpKey(req[c]), UserKey(req[c]), ClientKey(req[c])},
             Hit(c, k, p) \/ RecordFailure(c, k, p)
      PROVE  Named'
  <2>1. PICK n : log' \subseteq log \cup {Row(k, n, c)} /\ req' = req
    BY <1>3 DEF Hit, RecordFailure
  <2> QED BY <1>1, <2>1
<1>4. ASSUME NEW c \in Calls, Handle(c) PROVE Named'
  <2>1. CASE Limit(c) \/ LimitIp(c)
    BY <1>3, <2>1 DEF Limit, LimitIp
  <2>2. CASE WrongPassword(c) \/ RecordClient(c)
    BY <1>3, <2>2 DEF WrongPassword, RecordClient
  <2>3. CASE CheckUser(c) \/ CheckClient(c) \/ Uncounted(c) \/ RightPassword(c)
    BY <1>2, <2>3 DEF CheckUser, CheckClient, CheckFailures, Uncounted, RightPassword, Without
  <2> QED BY <1>4, <2>1, <2>2, <2>3 DEF Handle
<1>5. ASSUME NEW ks, Clear(ks) PROVE Named'
  BY <1>2, <1>5 DEF Clear, Without
<1>6. ASSUME Restart \/ Tick \/ UNCHANGED vars PROVE Named'
  <2>1. log' = log /\ req' = req
    BY <1>6 DEF Restart, Tick, vars
  <2> QED BY <1>2, <2>1
<1>7. Named'
  BY <1>4, <1>5, <1>6 DEF Next, Unlock, UnlockAll
<1> QED BY <1>0, <1>7 DEF NamedInv

\* A call is refused when it meets a full counter.
LEMMA RefusedBy ==
    ASSUME TypeOK, NEW c \in Calls, NEW k \in Keys, NEW p \in Phases \ {"refused"},
           Hit(c, k, p) \/ CheckFailures(c, k, p), pc'[c] = "refused"
    PROVE  Cardinality({r \in rows : r.key = k}) >= MaxOf(k)
<1>1. PICK n \in ReadTime(c), kept \in SUBSET rows : Reached(kept, k, n)
  <2>1. \A n : \A q : Goto(c, n, q) => pc'[c] = q
    BY DEF Goto, TypeOK
  <2>2. \A n : Purge(n) \subseteq SUBSET rows
    BY DEF Purge
  <2>3. CASE Hit(c, k, p)
    BY <2>1, <2>2, <2>3 DEF Hit
  <2>4. CASE CheckFailures(c, k, p)
    BY <2>1, <2>4 DEF CheckFailures
  <2> QED BY <2>3, <2>4
<1> DEFINE seen == Since(kept, k, n - WindowOf(k))
           hits == {r \in rows : r.key = k}
<1>2. seen \subseteq hits /\ IsFiniteSet(hits)
  BY FS_Subset DEF Since, TypeOK
<1>3. Cardinality(seen) <= Cardinality(hits) /\ Cardinality(hits) \in Nat /\ Cardinality(seen) \in Nat
  BY <1>2, FS_Subset, FS_CardinalityType
<1>4. Cardinality(seen) >= MaxOf(k) /\ MaxOf(k) \in Nat
  BY <1>1, Limits DEF Reached
<1> QED BY <1>3, <1>4

(* "The per-IP limit protects nobody there and would lock everybody out"
   (routes.py:858): behind the onion service a form is refused only once the
   counter of the name it carries is full, of calls that carried that name.  *)
THEOREM NobodyLocksAllOut == Spec => NoSharedLockout
<1> DEFINE Own(c) ==
      (/\ pc[c] # "refused" /\ pc'[c] = "refused"
       /\ ~Meaningful(req[c]) /\ req[c].who = Anon)
        => \E k \in Keys :
              LET hits == {r \in rows : r.key = k} IN
                  /\ \A r \in hits : req[r.call].name = req[c].name
                  /\ Cardinality(hits) >= MaxOf(k)
<1>1. NamedInv /\ [Next]_vars => [\A c \in Calls : Own(c)]_vars
  <2> SUFFICES ASSUME NamedInv, Next, NEW c \in Calls,
                      pc[c] # "refused", pc'[c] = "refused",
                      ~Meaningful(req[c]), req[c].who = Anon
               PROVE  \E k \in Keys :
                        LET hits == {r \in rows : r.key = k} IN
                            /\ \A r \in hits : req[r.call].name = req[c].name
                            /\ Cardinality(hits) >= MaxOf(k)
    BY DEF vars
  <2>1. TypeOK /\ Named /\ OnlyMeaningful
    BY DEF NamedInv, FailureInv, RetentionInv
  <2>2. req[c].name \in Names
    BY <2>1, LimiterAssumption DEF TypeOK
  <2>3. ASSUME NEW k \in {<<"form", req[c].name>>, <<"user", req[c].name>>},
               Cardinality({r \in rows : r.key = k}) >= MaxOf(k)
        PROVE  \E l \in Keys :
                  LET hits == {r \in rows : r.key = l} IN
                      /\ \A r \in hits : req[r.call].name = req[c].name
                      /\ Cardinality(hits) >= MaxOf(l)
    <3>1. k \in Keys
      BY <2>2 DEF Keys, CounterKeys, FailureKeys
    <3>2. \A r \in rows : r.key = k => req[r.call].name = req[c].name
      BY <2>1, <2>2 DEF Named, TypeOK
    <3> QED BY <2>3, <3>1, <3>2
  <2>4. LimitKey(req[c]) = <<"form", req[c].name>> /\ UserKey(req[c]) = <<"user", req[c].name>>
    BY DEF LimitKey, UserKey
  <2>5. LimitKey(req[c]) \in Keys /\ UserKey(req[c]) \in Keys
    BY <2>1, KeyTypes DEF Keys
  <2>6. PICK d \in Calls : Handle(d) \/ Restart
    <3>1. \A ks : ~Clear(ks)
      BY DEF Clear
    <3> QED BY <3>1 DEF Next, Unlock, UnlockAll, Tick, Restart, InFlight
  <2>7. CASE Restart
    BY <2>1, <2>7 DEF Restart, TypeOK
  <2>8. CASE Handle(d)
    <3>1. \A n : \A q : Goto(d, n, q) => d = c /\ q = "refused"
      BY <2>1 DEF Goto, TypeOK
    <3>2. CASE Limit(d)
      <4>1. d = c /\ Hit(c, LimitKey(req[c]), AfterLimit(c)) /\ AfterLimit(c) \in Phases \ {"refused"}
        BY <3>1, <3>2 DEF Limit, Hit, AfterLimit, Phases
      <4> QED BY <2>1, <2>3, <2>4, <2>5, <4>1, RefusedBy
    <3>3. CASE CheckUser(d)
      <4>1. d = c /\ CheckFailures(c, UserKey(req[c]), "verify") /\ "verify" \in Phases \ {"refused"}
        BY <3>1, <3>3 DEF CheckUser, CheckFailures, Phases
      <4> QED BY <2>1, <2>3, <2>4, <2>5, <4>1, RefusedBy
    <3>4. CASE LimitIp(d) \/ CheckClient(d)
      <4>1. d = c
        BY <3>1, <3>4 DEF LimitIp, CheckClient, Hit, CheckFailures
      <4> QED BY <2>1, <3>4, <4>1 DEF LimitIp, CheckClient, OnlyMeaningful
    <3>5. CASE WrongPassword(d) \/ RecordClient(d) \/ RightPassword(d) \/ Uncounted(d)
      BY <3>1, <3>5 DEF WrongPassword, RecordClient, RecordFailure, RightPassword, Uncounted
    <3> QED BY <2>8, <3>2, <3>3, <3>4, <3>5 DEF Handle
  <2> QED BY <2>6, <2>7, <2>8
<1>2. Init => NamedInv
  BY FailureInit DEF NamedInv, Named, Init
<1>3. Spec => [][\A c \in Calls : Own(c)]_vars
  BY <1>1, <1>2, NamedStep, PTL DEF Spec
<1> QED BY <1>3 DEF NoSharedLockout

=============================================================================
