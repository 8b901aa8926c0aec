---------------------------- MODULE Stream_proofs ----------------------------
(* Proofs about Stream, for any number of clients, requests and threads and
   any capacity of the queues.                                               *)
EXTENDS Stream, FiniteSetTheorems, SequenceTheorems, TLAPS

-----------------------------------------------------------------------------
(* Sequences without repetition.                                           *)

NoTwice(s) == \A i, j \in 1..Len(s) : s[i] = s[j] => i = j

LEMMA SetOfAppend ==
    ASSUME NEW S, NEW s \in Seq(S), NEW e \in S
    PROVE  /\ ToSet(Append(s, e)) = ToSet(s) \cup {e}
           /\ NoTwice(s) /\ e \notin ToSet(s) => NoTwice(Append(s, e))
<1>1. /\ Len(s) \in Nat /\ Append(s, e) \in Seq(S) /\ Len(Append(s, e)) = Len(s) + 1
      /\ \A i \in 1..Len(s) : Append(s, e)[i] = s[i]
      /\ Append(s, e)[Len(s) + 1] = e
  BY AppendProperties, LenProperties
<1>2. DOMAIN s = 1..Len(s) /\ DOMAIN Append(s, e) = 1..Len(s) + 1
  BY <1>1, LenProperties
<1>3. \A i : i \in 1..Len(s) + 1 <=> i \in 1..Len(s) \/ i = Len(s) + 1
  BY <1>1
<1>4. ToSet(Append(s, e)) = ToSet(s) \cup {e}
  BY <1>1, <1>2, <1>3 DEF ToSet
<1>5. NoTwice(s) /\ e \notin ToSet(s) => NoTwice(Append(s, e))
  BY <1>1, <1>2, <1>3 DEF ToSet, NoTwice
<1> QED BY <1>4, <1>5

LEMMA SetOfTail ==
    ASSUME NEW S, NEW s \in Seq(S), s # <<>>, NoTwice(s)
    PROVE  /\ Head(s) \in ToSet(s) /\ Tail(s) \in Seq(S)
           /\ ToSet(Tail(s)) = ToSet(s) \ {Head(s)}
           /\ NoTwice(Tail(s))
<1>1. /\ Len(s) \in Nat \ {0} /\ Tail(s) \in Seq(S) /\ Len(Tail(s)) = Len(s) - 1
      /\ \A i \in 1..Len(s) - 1 : Tail(s)[i] = s[i + 1]
  BY HeadTailProperties, LenProperties, EmptySeq
<1>2. DOMAIN s = 1..Len(s) /\ DOMAIN Tail(s) = 1..Len(s) - 1 /\ Head(s) = s[1]
  BY <1>1, LenProperties
<1>3. Head(s) \in ToSet(s)
  BY <1>1, <1>2 DEF ToSet
<1>4. ToSet(Tail(s)) = ToSet(s) \ {Head(s)}
  <2>1. ASSUME NEW x \in ToSet(Tail(s)) PROVE x \in ToSet(s) \ {Head(s)}
    <3>1. PICK i \in 1..Len(s) - 1 : x = s[i + 1]
      BY <1>1, <1>2 DEF ToSet
    <3>2. i + 1 \in 1..Len(s) /\ i + 1 # 1 /\ 1 \in 1..Len(s)
      BY <1>1
    <3> QED BY <1>2, <3>1, <3>2 DEF ToSet, NoTwice
  <2>2. ASSUME NEW x \in ToSet(s) \ {Head(s)} PROVE x \in ToSet(Tail(s))
    <3>1. PICK i \in 1..Len(s) : x = s[i]
      BY <1>2 DEF ToSet
    <3>2. i - 1 \in 1..Len(s) - 1 /\ (i - 1) + 1 = i
      BY <1>1, <1>2, <3>1
    <3>3. Tail(s)[i - 1] = x
      BY <1>1, <3>1, <3>2
    <3> QED BY <1>2, <3>2, <3>3 DEF ToSet
  <2> QED BY <2>1, <2>2
<1>5. NoTwice(Tail(s))
  <2> SUFFICES ASSUME NEW i \in 1..Len(s) - 1, NEW j \in 1..Len(s) - 1, Tail(s)[i] = Tail(s)[j]
               PROVE  i = j
    BY <1>1 DEF NoTwice
  <2>1. s[i + 1] = s[j + 1] /\ i + 1 \in 1..Len(s) /\ j + 1 \in 1..Len(s)
    BY <1>1
  <2> QED BY <2>1 DEF NoTwice
<1> QED BY <1>1, <1>3, <1>4, <1>5

\* A sequence of events that increases up to n goes on increasing with n + 1.
Increasing(s) == \A i, j \in DOMAIN s : i < j => s[i] < s[j]
Below(s, n) == \A i \in DOMAIN s : s[i] < n

LEMMA IncreasingAppend ==
    ASSUME NEW s \in Seq(Events), NEW n \in Events, Increasing(s), Below(s, n)
    PROVE  Increasing(Append(s, n)) /\ Below(Append(s, n), n + 1)
<1>1. /\ Len(s) \in Nat /\ Len(Append(s, n)) = Len(s) + 1 /\ Append(s, n) \in Seq(Events)
      /\ \A i \in 1..Len(s) : Append(s, n)[i] = s[i]
      /\ Append(s, n)[Len(s) + 1] = n
  BY AppendProperties, LenProperties
<1>2. DOMAIN s = 1..Len(s) /\ DOMAIN Append(s, n) = 1..Len(s) + 1
  BY <1>1, LenProperties
<1>3. /\ \A i : i \in 1..Len(s) + 1 <=> i \in 1..Len(s) \/ i = Len(s) + 1
      /\ \A i \in 1..Len(s) : s[i] \in Int /\ s[i] < n /\ i \in Int /\ i < Len(s) + 1
      /\ n \in Int
  <2>1. \A i \in 1..Len(s) : s[i] \in Events
    BY ElementOfSeq
  <2>2. Events \subseteq Int
    BY DEF Events
  <2>3. \A i : i \in 1..Len(s) + 1 <=> i \in 1..Len(s) \/ i = Len(s) + 1
    BY <1>1
  <2>4. \A i \in 1..Len(s) : s[i] < n /\ i \in Int /\ i < Len(s) + 1
    BY <1>1, <1>2 DEF Below
  <2> QED BY <2>1, <2>2, <2>3, <2>4
<1>4. Increasing(Append(s, n))
  BY <1>1, <1>2, <1>3 DEF Increasing
<1>5. Below(Append(s, n), n + 1)
  BY <1>1, <1>2, <1>3 DEF Below
<1> QED BY <1>4, <1>5

-----------------------------------------------------------------------------
(* The invariant, in parts.                                                *)

HasThread(c) == stream[c].phase \notin {"off", "queued"}
AtWork(r) == request[r] \in {"running", "publishing"}

\* Nobody waits twice.
Queue == backlog \in Seq(Clients \cup Requests) /\ NoTwice(backlog)

\* The lock's holder is the one publisher, of the last event.
Publisher(r) ==
    /\ request[r] = "publishing" <=> lock = r
    /\ lock = r => event[r] = published /\ published # 0
    /\ lock # r => event[r] = None /\ todo[r] = {}
    /\ todo[r] \subseteq Subscribers

Delivered(c) ==
    /\ Increasing(stream[c].inbox) /\ Below(stream[c].inbox, published + 1)
    /\ \A r \in Requests : c \in todo[r] => Below(stream[c].inbox, published)
    /\ ~Subscribed(c) => stream[c].inbox = <<>>
    /\ Subscribed(c) =>
          \A n \in stream[c].since + 1..published :
             \/ n \in ToSet(stream[c].inbox) \cup stream[c].missed
             \/ \E r \in Requests : event[r] = n /\ c \in todo[r]

\* A stream is never late for longer than it went without a check.
Timely(s) ==
    /\ s.late <= s.age \/ s.late = 0
    /\ s.phase \notin {"get", "decide"} \/ ~s.revoked => s.late = 0

StreamInv ==
    /\ TypeOK /\ Queue
    /\ \A r \in Requests : Publisher(r)
    /\ \A c \in Clients : Delivered(c) /\ Timely(stream[c])

-----------------------------------------------------------------------------
(* Threads at work.                                                        *)

ServedClients == {c \in Clients : HasThread(c)}
WorkingRequests == {r \in Requests : AtWork(r)}

LEMMA BusySize ==
    /\ IsFiniteSet(ServedClients) /\ IsFiniteSet(WorkingRequests)
    /\ Cardinality(ServedClients) \in Nat /\ Cardinality(WorkingRequests) \in Nat
    /\ Busy = Cardinality(ServedClients) + Cardinality(WorkingRequests)
<1>1. ServedClients \subseteq Clients /\ WorkingRequests \subseteq Requests
  BY DEF ServedClients, WorkingRequests
<1>2. IsFiniteSet(ServedClients) /\ IsFiniteSet(WorkingRequests)
  BY <1>1, StreamAssumption, FS_Subset
<1> QED BY <1>2, FS_CardinalityType DEF Busy, ServedClients, WorkingRequests, HasThread, AtWork

\* A step after which no thread is at work that was not needs none more.
LEMMA BusyDrops ==
    ASSUME Busy <= Threads, ServedClients' \subseteq ServedClients,
           WorkingRequests' \subseteq WorkingRequests
    PROVE  Busy' <= Threads
<1>1. /\ IsFiniteSet(ServedClients) /\ IsFiniteSet(WorkingRequests)
      /\ Cardinality(ServedClients) \in Nat /\ Cardinality(WorkingRequests) \in Nat
      /\ Busy = Cardinality(ServedClients) + Cardinality(WorkingRequests)
  BY BusySize
<1>2. /\ Cardinality(ServedClients') \in Nat /\ Cardinality(WorkingRequests') \in Nat
      /\ Cardinality(ServedClients') <= Cardinality(ServedClients)
      /\ Cardinality(WorkingRequests') <= Cardinality(WorkingRequests)
  <2>1. IsFiniteSet(ServedClients') /\ IsFiniteSet(WorkingRequests')
    BY <1>1, FS_Subset
  <2> QED BY <1>1, <2>1, FS_Subset, FS_CardinalityType
<1>3. Busy' = Cardinality(ServedClients') + Cardinality(WorkingRequests')
  BY DEF Busy, ServedClients, WorkingRequests, HasThread, AtWork
<1> QED BY <1>1, <1>2, <1>3, StreamAssumption

\* A thread that was free takes up one stream or one request.
LEMMA BusyGrows ==
    ASSUME Busy < Threads, NEW x,
           \/ ServedClients' = ServedClients \cup {x} /\ WorkingRequests' = WorkingRequests
           \/ ServedClients' = ServedClients /\ WorkingRequests' = WorkingRequests \cup {x}
    PROVE  Busy' <= Threads
<1>1. /\ IsFiniteSet(ServedClients) /\ IsFiniteSet(WorkingRequests)
      /\ Cardinality(ServedClients) \in Nat /\ Cardinality(WorkingRequests) \in Nat
      /\ Busy = Cardinality(ServedClients) + Cardinality(WorkingRequests)
  BY BusySize
<1>2. /\ Cardinality(ServedClients \cup {x}) \in {Cardinality(ServedClients), Cardinality(ServedClients) + 1}
      /\ Cardinality(WorkingRequests \cup {x}) \in {Cardinality(WorkingRequests), Cardinality(WorkingRequests) + 1}
  BY <1>1, FS_AddElement
<1>3. Busy' = Cardinality(ServedClients') + Cardinality(WorkingRequests')
  BY DEF Busy, ServedClients, WorkingRequests, HasThread, AtWork
<1>4. Busy' \in {Busy, Busy + 1}
  BY <1>1, <1>2, <1>3
<1> QED BY <1>1, <1>4, StreamAssumption

-----------------------------------------------------------------------------
(* The initial state.                                                      *)

LEMMA OffState == Off \in StreamState /\ Off.phase = "off" /\ Off.inbox = <<>> /\ Timely(Off)
BY StreamAssumption DEF Off, StreamState, Phases, Timely

LEMMA EmptyBacklog ==
    ToSet(<<>>) = {} /\ NoTwice(<<>>) /\ \A S : <<>> \in Seq(S)
<1>1. Len(<<>>) = 0 /\ DOMAIN <<>> = {}
  OBVIOUS
<1> QED BY <1>1, EmptySeq DEF ToSet, NoTwice

\* Everything that is in memory is as after a start, the events published apart.
Fresh ==
    /\ backlog = <<>> /\ stream = [c \in Clients |-> Off]
    /\ request = [r \in Requests |-> "idle"] /\ lock = Free
    /\ todo = [r \in Requests |-> {}] /\ event = [r \in Requests |-> None]
    /\ published \in 0..MaxEvents /\ leaked = 0

LEMMA FreshInv == Fresh => StreamInv
<1> SUFFICES ASSUME Fresh PROVE StreamInv
  OBVIOUS
<1>1. /\ \A c \in Clients : stream[c] = Off /\ ~Subscribed(c) /\ stream[c].phase = "off"
      /\ \A r \in Requests : request[r] = "idle" /\ todo[r] = {} /\ event[r] = None
      /\ backlog = <<>> /\ lock = Free
  BY OffState DEF Fresh, Subscribed
<1>2. TypeOK
  <2>1. ToSet(backlog) = {c \in Clients : stream[c].phase = "queued"}
                            \cup {r \in Requests : request[r] = "queued"}
    BY <1>1, EmptyBacklog
  <2>2. Busy <= Threads
    <3>1. ServedClients = {} /\ WorkingRequests = {}
      BY <1>1 DEF ServedClients, WorkingRequests, HasThread, AtWork
    <3> QED BY <3>1, BusySize, FS_EmptySet, StreamAssumption
  <2> QED BY <1>1, <2>1, <2>2, OffState, StreamAssumption DEF TypeOK, Fresh, None
<1>3. Queue
  BY <1>1, EmptyBacklog DEF Queue
<1>4. \A r \in Requests : Publisher(r)
  BY <1>1, StreamAssumption DEF Publisher
<1>5. \A c \in Clients : Delivered(c) /\ Timely(stream[c])
  BY <1>1, OffState DEF Delivered, Increasing, Below
<1> QED BY <1>2, <1>3, <1>4, <1>5 DEF StreamInv

LEMMA InitInv == Init => StreamInv
BY FreshInv, StreamAssumption DEF Init, Fresh

LEMMA RestartInv == ASSUME StreamInv, Restart PROVE StreamInv'
<1>1. Fresh'
  BY DEF StreamInv, TypeOK, Restart, Fresh
<1>2. (Fresh => StreamInv)'
  BY FreshInv, PTL
<1> QED BY <1>1, <1>2

-----------------------------------------------------------------------------
(* Steps of one stream.                                                    *)

\* What the thread of a stream may make of its state: it leaves, goes on, or subscribes.
Calm(c, s) ==
    /\ s \in StreamState /\ stream' = [stream EXCEPT ![c] = s]
    /\ HasThread(c) /\ s.phase # "queued" /\ Timely(s)
    /\ \/ s.phase = "off" /\ s.inbox = <<>> /\ lock = Free
       \/ /\ s.phase # "off" /\ s.inbox = stream[c].inbox
          /\ s.since = stream[c].since /\ s.missed = stream[c].missed
          /\ s.phase \in {"welcome", "get", "decide"} <=> Subscribed(c)
       \/ s.phase = "welcome" /\ s.inbox = <<>> /\ s.since = published /\ lock = Free
    /\ UNCHANGED <<backlog, request, lock, todo, event, published>>
    /\ leaked' \in 0..MaxLeaks

LEMMA CalmInv ==
    ASSUME StreamInv, NEW c \in Clients, NEW s, Calm(c, s)
    PROVE  StreamInv'
<1>1. /\ TypeOK /\ s \in StreamState /\ stream \in [Clients -> StreamState]
      /\ stream' \in [Clients -> StreamState] /\ stream'[c] = s
      /\ \A d \in Clients \ {c} : stream'[d] = stream[d]
      /\ UNCHANGED <<backlog, request, lock, todo, event, published>>
  BY DEF StreamInv, TypeOK, Calm
<1>2. stream[c].phase # "queued" /\ stream[c].phase # "off" /\ s.phase # "queued"
  BY DEF Calm, HasThread
<1>3. TypeOK'
  <2>1. {d \in Clients : stream'[d].phase = "queued"} = {d \in Clients : stream[d].phase = "queued"}
    BY <1>1, <1>2
  <2>2. Busy' <= Threads
    <3>1. ServedClients' \subseteq ServedClients /\ WorkingRequests' = WorkingRequests
      BY <1>1, <1>2 DEF ServedClients, WorkingRequests, HasThread, AtWork
    <3> QED BY <1>1, <3>1, BusyDrops DEF TypeOK
  <2> QED BY <1>1, <2>1, <2>2 DEF TypeOK, Calm
<1>4. Queue'
  BY <1>1 DEF StreamInv, Queue
\* While the lock is free no event is on its way to anybody.
<1>5. lock = Free => \A r \in Requests : todo[r] = {}
  BY StreamAssumption DEF StreamInv, Publisher
<1>6. \A r \in Requests : Publisher(r)'
  <2> SUFFICES ASSUME NEW r \in Requests PROVE Publisher(r)'
    OBVIOUS
  <2>1. Publisher(r)
    BY DEF StreamInv
  <2>2. todo[r] \subseteq Subscribers'
    BY <1>1, <1>5, <2>1 DEF Publisher, Calm, Subscribers, Subscribed
  <2> QED BY <1>1, <2>1, <2>2 DEF Publisher
<1>7. \A d \in Clients \ {c} : Delivered(d)' /\ Timely(stream'[d])
  BY <1>1 DEF StreamInv, Delivered, Subscribed
<1>8. Timely(stream'[c])
  BY <1>1 DEF Calm
<1>9. Delivered(c)'
  <2>1. Delivered(c) /\ published \in Nat
    BY <1>1 DEF StreamInv, TypeOK
  <2>2. CASE s.phase = "off" /\ s.inbox = <<>> /\ lock = Free
    BY <1>1, <2>2 DEF Delivered, Subscribed, Increasing, Below
  <2>3. CASE /\ s.phase # "off" /\ s.inbox = stream[c].inbox
             /\ s.since = stream[c].since /\ s.missed = stream[c].missed
             /\ s.phase \in {"welcome", "get", "decide"} <=> Subscribed(c)
    <3>1. /\ stream'[c].inbox = stream[c].inbox /\ stream'[c].since = stream[c].since
          /\ stream'[c].missed = stream[c].missed /\ (Subscribed(c)' <=> Subscribed(c))
      BY <1>1, <2>3 DEF Subscribed
    <3> QED BY <1>1, <2>1, <3>1 DEF Delivered
  <2>4. CASE s.phase = "welcome" /\ s.inbox = <<>> /\ s.since = published /\ lock = Free
    <3>1. \A n \in published + 1..published : FALSE
      BY <2>1
    <3> QED BY <1>1, <2>4, <3>1 DEF Delivered, Increasing, Below, Subscribed
  <2> QED BY <2>2, <2>3, <2>4 DEF Calm
<1> QED BY <1>3, <1>4, <1>6, <1>7, <1>8, <1>9 DEF StreamInv

LEMMA StreamFields ==
    ASSUME StreamInv, NEW c \in Clients
    PROVE  /\ stream[c] \in StreamState /\ Timely(stream[c])
           /\ stream[c].age \in 0..Heartbeat /\ stream[c].late \in 0..Heartbeat
           /\ published \in Nat /\ leaked \in 0..MaxLeaks /\ stream \in [Clients -> StreamState]
BY DEF StreamInv, TypeOK, StreamState

LEMMA RegisterInv ==
    ASSUME StreamInv, NEW c \in Clients, Register(c)
    PROVE  StreamInv'
<1> DEFINE s == IF Slots >= MaxSubs THEN Off
                ELSE [stream[c] EXCEPT !.phase = "welcome", !.since = published]
<1>1. stream[c] \in StreamState /\ Timely(stream[c]) /\ published \in Nat /\ leaked \in 0..MaxLeaks
  BY StreamFields
<1>2. stream[c].phase = "handler" /\ lock = Free /\ stream' = [stream EXCEPT ![c] = s]
  BY DEF Register
<1>3. stream[c].inbox = <<>>
  BY <1>2 DEF StreamInv, Delivered, Subscribed
<1>4. CASE Slots >= MaxSubs
  <2>1. Calm(c, Off)
    BY <1>1, <1>2, <1>4, OffState DEF Calm, Register, HasThread
  <2> QED BY <2>1, CalmInv
<1>5. CASE ~(Slots >= MaxSubs)
  <2>1. /\ s \in StreamState /\ s.phase = "welcome" /\ s.since = published /\ s.inbox = <<>>
        /\ s.late = stream[c].late /\ s.age = stream[c].age /\ s.revoked = stream[c].revoked
    BY <1>1, <1>3, <1>5 DEF StreamState, Phases
  <2>2. s.late = 0
    BY <1>1, <1>2, <2>1 DEF Timely
  <2> HIDE DEF s
  <2>3. Calm(c, s)
    BY <1>1, <1>2, <2>1, <2>2 DEF Calm, Register, HasThread, Timely
  <2> QED BY <2>3, CalmInv
<1> QED BY <1>4, <1>5

LEMMA RegisterHeadInv ==
    ASSUME StreamInv, NEW c \in Clients, RegisterHead(c)
    PROVE  StreamInv'
<1>1. leaked' \in 0..MaxLeaks
  BY StreamFields, StreamAssumption DEF RegisterHead
<1>2. Calm(c, Off)
  BY <1>1, OffState DEF Calm, RegisterHead, HasThread
<1> QED BY <1>2, CalmInv

\* A stream that goes on with its events untouched
LEMMA GoesOnInv ==
    ASSUME StreamInv, NEW c \in Clients, NEW s \in StreamState, stream' = [stream EXCEPT ![c] = s],
           s.phase \in {"welcome", "get", "decide"}, Subscribed(c), Timely(s),
           s.inbox = stream[c].inbox, s.since = stream[c].since, s.missed = stream[c].missed,
           UNCHANGED <<backlog, request, lock, todo, event, published, leaked>>
    PROVE  StreamInv'
<1>1. Calm(c, s)
  BY StreamFields DEF Calm, HasThread, Subscribed
<1> QED BY <1>1, CalmInv

\* A write goes on with the stream's next state or ends it.
LEMMA WriteInv ==
    ASSUME StreamInv, NEW c \in Clients, NEW s \in StreamState, Write(c, s),
           s.phase = "get", Subscribed(c), Timely(s),
           s.inbox = stream[c].inbox, s.since = stream[c].since, s.missed = stream[c].missed,
           UNCHANGED <<backlog, request, lock, todo, event, published, leaked>>
    PROVE  StreamInv'
<1>1. CASE lock = Free /\ stream' = [stream EXCEPT ![c] = Off]
  <2>1. Calm(c, Off)
    BY <1>1, OffState, StreamFields DEF Calm, HasThread, Subscribed
  <2> QED BY <2>1, CalmInv
<1>2. CASE stream' = [stream EXCEPT ![c] =
                        [s EXCEPT !.lost = IF @ = "yes" THEN "unnoticed" ELSE @]]
  <2> DEFINE n == [s EXCEPT !.lost = IF @ = "yes" THEN "unnoticed" ELSE @]
  <2>1. /\ n \in StreamState /\ n.phase = s.phase /\ n.inbox = s.inbox /\ n.since = s.since
        /\ n.missed = s.missed /\ n.late = s.late /\ n.age = s.age /\ n.revoked = s.revoked
    BY DEF StreamState
  <2>2. Timely(n)
    BY <2>1 DEF Timely
  <2>3. stream' = [stream EXCEPT ![c] = n]
    BY <1>2
  <2> HIDE DEF n
  <2> QED BY <2>1, <2>2, <2>3, GoesOnInv
<1> QED BY <1>1, <1>2 DEF Write

LEMMA WelcomeInv ==
    ASSUME StreamInv, NEW c \in Clients, Welcome(c)
    PROVE  StreamInv'
<1> DEFINE s == [stream[c] EXCEPT !.phase = "get", !.age = 0]
<1>1. stream[c] \in StreamState /\ Timely(stream[c]) /\ stream[c].phase = "welcome"
  BY StreamFields DEF Welcome
<1>2. /\ s \in StreamState /\ s.phase = "get" /\ s.inbox = stream[c].inbox
      /\ s.since = stream[c].since /\ s.missed = stream[c].missed
      /\ s.late = stream[c].late
  <2>1. 0 \in 0..Heartbeat
    BY StreamAssumption
  <2> QED BY <1>1, <2>1 DEF StreamState, Phases
<1>3. Timely(s)
  BY <1>1, <1>2 DEF Timely
<1>4. Write(c, s) /\ UNCHANGED <<backlog, request, lock, todo, event, published, leaked>>
  BY DEF Welcome
<1> HIDE DEF s
<1> QED BY <1>1, <1>2, <1>3, <1>4, WriteInv DEF Subscribed

LEMMA TakeInv ==
    ASSUME StreamInv, NEW c \in Clients, Take(c)
    PROVE  StreamInv'
<1> DEFINE s == [stream[c] EXCEPT !.phase = "decide", !.hand = Head(stream[c].queue), !.queue = Tail(@)]
<1>1. /\ stream[c] \in StreamState /\ Timely(stream[c]) /\ stream[c].phase = "get"
      /\ stream[c].queue \in Seq(Events) /\ stream[c].queue # <<>>
  BY StreamFields DEF Take, StreamState
<1>2. Head(stream[c].queue) \in Events /\ Tail(stream[c].queue) \in Seq(Events)
  BY <1>1, HeadTailProperties
<1>3. /\ s \in StreamState /\ s.phase = "decide" /\ s.inbox = stream[c].inbox
      /\ s.since = stream[c].since /\ s.missed = stream[c].missed
      /\ s.late = stream[c].late /\ s.age = stream[c].age /\ s.revoked = stream[c].revoked
  BY <1>1, <1>2 DEF StreamState, Phases
<1>4. Timely(s)
  BY <1>1, <1>3 DEF Timely
<1>5. /\ stream' = [stream EXCEPT ![c] = s]
      /\ UNCHANGED <<backlog, request, lock, todo, event, published, leaked>>
  BY <1>1, StreamFields DEF Take
<1> HIDE DEF s
<1> QED BY <1>1, <1>3, <1>4, <1>5, GoesOnInv DEF Subscribed

LEMMA TimeOutInv ==
    ASSUME StreamInv, NEW c \in Clients, TimeOut(c)
    PROVE  StreamInv'
<1> DEFINE s == [stream[c] EXCEPT !.phase = "decide"]
<1>1. stream[c] \in StreamState /\ Timely(stream[c]) /\ stream[c].phase = "get"
  BY StreamFields DEF TimeOut
<1>2. /\ s \in StreamState /\ s.phase = "decide" /\ s.inbox = stream[c].inbox
      /\ s.since = stream[c].since /\ s.missed = stream[c].missed
      /\ s.late = stream[c].late /\ s.age = stream[c].age /\ s.revoked = stream[c].revoked
  BY <1>1 DEF StreamState, Phases
<1>3. Timely(s)
  BY <1>1, <1>2 DEF Timely
<1>4. /\ stream' = [stream EXCEPT ![c] = s]
      /\ UNCHANGED <<backlog, request, lock, todo, event, published, leaked>>
  BY DEF TimeOut
<1> HIDE DEF s
<1> QED BY <1>1, <1>2, <1>3, <1>4, GoesOnInv DEF Subscribed

LEMMA DecideInv ==
    ASSUME StreamInv, NEW c \in Clients, Decide(c)
    PROVE  StreamInv'
<1> DEFINE s == [stream[c] EXCEPT !.phase = "get", !.hand = None,
                                  !.age = IF MustCheck(c) THEN 0 ELSE @]
<1>1. /\ stream[c] \in StreamState /\ Timely(stream[c]) /\ stream[c].phase = "decide"
      /\ UNCHANGED <<backlog, request, lock, todo, event, published, leaked>>
  BY StreamFields DEF Decide
<1>2. CASE MustCheck(c) /\ stream[c].revoked
  <2>1. Calm(c, Off)
    BY <1>1, <1>2, OffState, StreamFields DEF Calm, HasThread, Decide
  <2> QED BY <2>1, CalmInv
<1>3. CASE ~(MustCheck(c) /\ stream[c].revoked)
  <2>1. /\ s \in StreamState /\ s.phase = "get" /\ s.inbox = stream[c].inbox
        /\ s.since = stream[c].since /\ s.missed = stream[c].missed
        /\ s.late = stream[c].late /\ s.revoked = stream[c].revoked
        /\ s.age = IF MustCheck(c) THEN 0 ELSE stream[c].age
    <3>1. 0 \in 0..Heartbeat /\ stream[c].age \in 0..Heartbeat
      BY StreamAssumption, StreamFields
    <3>2. (IF MustCheck(c) THEN 0 ELSE stream[c].age) \in 0..Heartbeat
      BY <3>1
    <3> QED BY <1>1, <3>2 DEF StreamState, Phases
  <2>2. Timely(s)
    BY <1>1, <1>3, <2>1 DEF Timely
  <2>3. Write(c, s)
    BY <1>3 DEF Decide
  <2> HIDE DEF s
  <2> QED BY <1>1, <2>1, <2>2, <2>3, WriteInv DEF Subscribed
<1> QED BY <1>2, <1>3

LEMMA RevokeInv ==
    ASSUME StreamInv, NEW c \in Clients, Revoke(c)
    PROVE  StreamInv'
<1> DEFINE s == [stream[c] EXCEPT !.revoked = TRUE]
<1>1. /\ stream[c] \in StreamState /\ Timely(stream[c]) /\ ~stream[c].revoked
      /\ HasThread(c) /\ leaked \in 0..MaxLeaks
  BY StreamFields DEF Revoke, HasThread
<1>2. /\ s \in StreamState /\ s.phase = stream[c].phase /\ s.inbox = stream[c].inbox
      /\ s.since = stream[c].since /\ s.missed = stream[c].missed
      /\ s.late = stream[c].late
  BY <1>1 DEF StreamState
<1>3. Timely(s)
  BY <1>1, <1>2 DEF Timely
<1>4. /\ stream' = [stream EXCEPT ![c] = s]
      /\ UNCHANGED <<backlog, request, lock, todo, event, published, leaked>>
  BY DEF Revoke
<1> HIDE DEF s
<1>5. Calm(c, s)
  BY <1>1, <1>2, <1>3, <1>4 DEF Calm, HasThread, Subscribed
<1> QED BY <1>5, CalmInv

LEMMA DisconnectInv ==
    ASSUME StreamInv, NEW c \in Clients, Disconnect(c)
    PROVE  StreamInv'
<1> DEFINE s == [stream[c] EXCEPT !.lost = "yes"]
<1>1. stream[c] \in StreamState /\ Timely(stream[c]) /\ Subscribed(c)
  BY StreamFields DEF Disconnect
<1>2. /\ s \in StreamState /\ s.phase = stream[c].phase /\ s.inbox = stream[c].inbox
      /\ s.since = stream[c].since /\ s.missed = stream[c].missed
      /\ s.late = stream[c].late /\ s.age = stream[c].age /\ s.revoked = stream[c].revoked
  BY <1>1 DEF StreamState
<1>3. Timely(s)
  BY <1>1, <1>2 DEF Timely
<1>4. /\ stream' = [stream EXCEPT ![c] = s]
      /\ UNCHANGED <<backlog, request, lock, todo, event, published, leaked>>
  BY DEF Disconnect
<1> HIDE DEF s
<1> QED BY <1>1, <1>2, <1>3, <1>4, GoesOnInv DEF Subscribed

-----------------------------------------------------------------------------
(* Time, and the requests that arrive and end.                             *)

LEMMA AgedFields ==
    ASSUME NEW s \in StreamState, Timely(s)
    PROVE  /\ Aged(s) \in StreamState /\ Timely(Aged(s)) /\ Aged(s).phase = s.phase
           /\ Aged(s).inbox = s.inbox /\ Aged(s).since = s.since /\ Aged(s).missed = s.missed
<1>1. s.age \in 0..Heartbeat /\ s.late \in 0..Heartbeat /\ Heartbeat \in Nat
  BY StreamAssumption DEF StreamState
<1>2. /\ Cap(s.age) \in 0..Heartbeat /\ Cap(s.late) \in 0..Heartbeat
      /\ s.late <= s.age => Cap(s.late) <= Cap(s.age)
      /\ s.late = 0 => Cap(s.late) <= Cap(s.age)
      /\ s.age <= Cap(s.age)
  BY <1>1, StreamAssumption DEF Cap
<1>3. CASE s.phase \notin {"get", "decide"}
  BY <1>3 DEF Aged
<1>4. CASE s.phase \in {"get", "decide"}
  <2> DEFINE late == IF s.revoked THEN Cap(s.late) ELSE s.late
             n == [s EXCEPT !.age = Cap(s.age), !.late = late]
  <2>1. late \in 0..Heartbeat
    BY <1>1, <1>2
  <2>2. Aged(s) = n
    BY <1>4 DEF Aged, StreamState
  <2>3. /\ n \in StreamState /\ n.phase = s.phase /\ n.inbox = s.inbox /\ n.since = s.since
        /\ n.missed = s.missed /\ n.age = Cap(s.age) /\ n.late = late /\ n.revoked = s.revoked
    BY <1>2, <2>1 DEF StreamState
  <2>4. Timely(n)
    BY <1>1, <1>2, <1>4, <2>3 DEF Timely
  <2> QED BY <2>2, <2>3, <2>4
<1> QED BY <1>3, <1>4

LEMMA TickInv == ASSUME StreamInv, Tick PROVE StreamInv'
<1>1. /\ stream' = [c \in Clients |-> Aged(stream[c])]
      /\ UNCHANGED <<backlog, request, lock, todo, event, published, leaked>>
      /\ TypeOK
  BY DEF Tick, StreamInv
<1>2. \A c \in Clients :
        /\ stream'[c] \in StreamState /\ Timely(stream'[c]) /\ stream'[c].phase = stream[c].phase
        /\ stream'[c].inbox = stream[c].inbox /\ stream'[c].since = stream[c].since
        /\ stream'[c].missed = stream[c].missed
  BY <1>1, StreamFields, AgedFields
<1>3. TypeOK'
  <2>1. {c \in Clients : stream'[c].phase = "queued"} = {c \in Clients : stream[c].phase = "queued"}
    BY <1>2
  <2>2. ServedClients' = ServedClients /\ WorkingRequests' = WorkingRequests
    BY <1>1, <1>2 DEF ServedClients, WorkingRequests, HasThread, AtWork
  <2> QED BY <1>1, <1>2, <2>1, <2>2, BusyDrops DEF TypeOK
<1>4. Queue' /\ \A r \in Requests : Publisher(r)'
  <2>1. Subscribers' = Subscribers
    BY <1>2 DEF Subscribers, Subscribed
  <2> QED BY <1>1, <2>1 DEF StreamInv, Queue, Publisher
<1>5. \A c \in Clients : Delivered(c)'
  <2> SUFFICES ASSUME NEW c \in Clients PROVE Delivered(c)'
    OBVIOUS
  <2>1. Subscribed(c)' <=> Subscribed(c)
    BY <1>2 DEF Subscribed
  <2> QED BY <1>1, <1>2, <2>1 DEF StreamInv, Delivered
<1> QED BY <1>2, <1>3, <1>4, <1>5 DEF StreamInv

\* A step that leaves the subscribers, the lock and what was published alone
LEMMA OutsideInv ==
    ASSUME StreamInv, TypeOK', Queue', UNCHANGED <<lock, todo, event, published>>,
           \A r \in Requests : request'[r] = "publishing" <=> request[r] = "publishing",
           \A c \in Clients :
              \/ stream'[c] = stream[c]
              \/ /\ ~Subscribed(c) /\ ~Subscribed(c)' /\ stream'[c].inbox = stream[c].inbox
                 /\ Timely(stream'[c])
    PROVE  StreamInv'
<1>1. Subscribers' = Subscribers
  BY DEF Subscribers, Subscribed
<1>2. \A r \in Requests : Publisher(r)'
  BY <1>1 DEF StreamInv, Publisher
<1>3. \A c \in Clients : Delivered(c)' /\ Timely(stream'[c])
  BY DEF StreamInv, Delivered, Subscribed
<1> QED BY <1>2, <1>3 DEF StreamInv

LEMMA ConnectInv ==
    ASSUME StreamInv, NEW c \in Clients, Connect(c)
    PROVE  StreamInv'
<1> DEFINE s == [stream[c] EXCEPT !.phase = "queued"]
<1>1. /\ stream[c] \in StreamState /\ Timely(stream[c]) /\ stream[c].phase = "off" /\ TypeOK
      /\ backlog \in Seq(Clients \cup Requests) /\ NoTwice(backlog)
      /\ UNCHANGED <<request, lock, todo, event, published, leaked>>
      /\ backlog' = Append(backlog, c)
  BY StreamFields DEF StreamInv, Queue, Connect
<1>2. /\ s \in StreamState /\ s.phase = "queued" /\ s.inbox = stream[c].inbox
      /\ s.late = stream[c].late /\ s.age = stream[c].age /\ s.revoked = stream[c].revoked
  BY <1>1 DEF StreamState, Phases
<1>3. Timely(s)
  BY <1>1, <1>2 DEF Timely
<1>4. /\ stream'[c] = s /\ stream' \in [Clients -> StreamState]
      /\ \A d \in Clients \ {c} : stream'[d] = stream[d]
  BY <1>2, StreamFields DEF Connect
<1> HIDE DEF s
<1>5. c \notin ToSet(backlog)
  BY <1>1, StreamAssumption DEF TypeOK
<1>6. Queue' /\ ToSet(backlog') = ToSet(backlog) \cup {c}
  BY <1>1, <1>5, SetOfAppend, AppendProperties DEF Queue
<1>7. TypeOK'
  <2>1. {d \in Clients : stream'[d].phase = "queued"}
          = {d \in Clients : stream[d].phase = "queued"} \cup {c}
    BY <1>2, <1>4
  <2>2. ServedClients' = ServedClients /\ WorkingRequests' = WorkingRequests
    BY <1>1, <1>2, <1>4 DEF ServedClients, WorkingRequests, HasThread, AtWork
  <2>3. Busy' <= Threads
    BY <1>1, <2>2, BusyDrops DEF TypeOK
  <2> QED BY <1>1, <1>4, <1>6, <2>1, <2>3 DEF TypeOK
<1> QED BY <1>1, <1>2, <1>3, <1>4, <1>6, <1>7, OutsideInv DEF Subscribed

LEMMA ArriveInv ==
    ASSUME StreamInv, NEW r \in Requests, Arrive(r)
    PROVE  StreamInv'
<1>1. /\ TypeOK /\ request[r] = "idle"
      /\ backlog \in Seq(Clients \cup Requests) /\ NoTwice(backlog)
      /\ UNCHANGED <<stream, lock, todo, event, published, leaked>>
      /\ backlog' = Append(backlog, r) /\ request' = [request EXCEPT ![r] = "queued"]
  BY DEF StreamInv, Queue, Arrive
<1>2. /\ request'[r] = "queued" /\ \A q \in Requests \ {r} : request'[q] = request[q]
      /\ request' \in [Requests -> {"idle", "queued", "running", "publishing"}]
  BY <1>1 DEF TypeOK
<1>3. r \notin ToSet(backlog)
  BY <1>1, StreamAssumption DEF TypeOK
<1>4. Queue' /\ ToSet(backlog') = ToSet(backlog) \cup {r}
  BY <1>1, <1>3, SetOfAppend, AppendProperties DEF Queue
<1>5. TypeOK'
  <2>1. {q \in Requests : request'[q] = "queued"} = {q \in Requests : request[q] = "queued"} \cup {r}
    BY <1>2
  <2>2. ServedClients' = ServedClients /\ WorkingRequests' = WorkingRequests
    BY <1>1, <1>2 DEF ServedClients, WorkingRequests, HasThread, AtWork
  <2>3. Busy' <= Threads
    BY <1>1, <2>2, BusyDrops DEF TypeOK
  <2>4. lock # Free => request'[lock] = "publishing"
    BY <1>1, <1>2 DEF TypeOK
  <2> QED BY <1>1, <1>2, <1>4, <2>1, <2>3, <2>4 DEF TypeOK
<1> QED BY <1>1, <1>2, <1>4, <1>5, OutsideInv

LEMMA FinishInv ==
    ASSUME StreamInv, NEW r \in Requests, Finish(r)
    PROVE  StreamInv'
<1>1. /\ TypeOK /\ request[r] = "running" /\ request' = [request EXCEPT ![r] = "idle"]
      /\ UNCHANGED <<backlog, stream, lock, todo, event, published, leaked>>
  BY DEF StreamInv, Finish
<1>2. /\ request'[r] = "idle" /\ \A q \in Requests \ {r} : request'[q] = request[q]
      /\ request' \in [Requests -> {"idle", "queued", "running", "publishing"}]
  BY <1>1 DEF TypeOK
<1>3. TypeOK'
  <2>1. {q \in Requests : request'[q] = "queued"} = {q \in Requests : request[q] = "queued"}
    BY <1>1, <1>2
  <2>2. ServedClients' = ServedClients /\ WorkingRequests' \subseteq WorkingRequests
    BY <1>1, <1>2 DEF ServedClients, WorkingRequests, HasThread, AtWork
  <2>3. Busy' <= Threads
    BY <1>1, <2>2, BusyDrops DEF TypeOK
  <2>4. lock # Free => request'[lock] = "publishing"
    BY <1>1, <1>2 DEF TypeOK
  <2> QED BY <1>1, <1>2, <2>1, <2>3, <2>4 DEF TypeOK
<1>4. Queue'
  BY <1>1 DEF StreamInv, Queue
<1> QED BY <1>1, <1>2, <1>3, <1>4, OutsideInv

\* The first in the backlog gets the free thread.
LEMMA DispatchInv == ASSUME StreamInv, Dispatch PROVE StreamInv'
<1>0. PICK x : x = Head(backlog)
  OBVIOUS
<1>1. /\ TypeOK /\ backlog # <<>> /\ Busy < Threads /\ backlog' = Tail(backlog)
      /\ backlog \in Seq(Clients \cup Requests) /\ NoTwice(backlog)
      /\ UNCHANGED <<lock, todo, event, published, leaked>>
  BY DEF StreamInv, Queue, Dispatch
<1>2. /\ x \in ToSet(backlog) /\ Queue' /\ ToSet(backlog') = ToSet(backlog) \ {x}
  BY <1>0, <1>1, SetOfTail DEF Queue
<1>3. CASE x \in Clients
  <2> DEFINE s == [stream[x] EXCEPT !.phase = "handler"]
  <2>1. /\ stream[x] \in StreamState /\ Timely(stream[x]) /\ stream[x].phase = "queued"
        /\ stream' = [stream EXCEPT ![x].phase = "handler"] /\ request' = request
    BY <1>0, <1>1, <1>2, <1>3, StreamFields, StreamAssumption DEF TypeOK, Dispatch
  <2>2. /\ s \in StreamState /\ s.phase = "handler" /\ s.inbox = stream[x].inbox
        /\ s.late = stream[x].late /\ s.age = stream[x].age /\ s.revoked = stream[x].revoked
    BY <2>1 DEF StreamState, Phases
  <2>3. Timely(s)
    BY <2>1, <2>2 DEF Timely
  <2>4. /\ stream'[x] = s /\ stream' \in [Clients -> StreamState]
        /\ \A d \in Clients \ {x} : stream'[d] = stream[d]
    BY <1>3, <2>1, <2>2, StreamFields
  <2> HIDE DEF s
  <2>5. TypeOK'
    <3>1. {d \in Clients : stream'[d].phase = "queued"}
            = {d \in Clients : stream[d].phase = "queued"} \ {x}
      BY <2>2, <2>4
    <3>2. ServedClients' = ServedClients \cup {x} /\ WorkingRequests' = WorkingRequests
      BY <1>3, <2>1, <2>2, <2>4 DEF ServedClients, WorkingRequests, HasThread, AtWork
    <3>3. Busy' <= Threads
      BY <1>1, <3>2, BusyGrows
    <3>4. x \notin Requests
      BY <1>3, StreamAssumption
    <3> QED BY <1>1, <1>2, <2>1, <2>4, <3>1, <3>3, <3>4 DEF TypeOK
  <2> QED BY <1>1, <1>2, <2>1, <2>2, <2>3, <2>4, <2>5, OutsideInv DEF Subscribed
<1>4. CASE x \notin Clients
  <2>1. /\ x \in Requests /\ request[x] = "queued"
        /\ request' = [request EXCEPT ![x] = "running"] /\ stream' = stream
    BY <1>0, <1>1, <1>2, <1>4 DEF TypeOK, Dispatch
  <2>2. /\ request'[x] = "running" /\ \A q \in Requests \ {x} : request'[q] = request[q]
        /\ request' \in [Requests -> {"idle", "queued", "running", "publishing"}]
    BY <1>1, <2>1 DEF TypeOK
  <2>3. TypeOK'
    <3>1. {q \in Requests : request'[q] = "queued"} = {q \in Requests : request[q] = "queued"} \ {x}
      BY <2>2
    <3>2. ServedClients' = ServedClients /\ WorkingRequests' = WorkingRequests \cup {x}
      BY <2>1, <2>2 DEF ServedClients, WorkingRequests, HasThread, AtWork
    <3>3. Busy' <= Threads
      BY <1>1, <3>2, BusyGrows
    <3>4. lock # Free => request'[lock] = "publishing"
      BY <1>1, <2>1, <2>2 DEF TypeOK
    <3> QED BY <1>1, <1>2, <1>4, <2>1, <2>2, <3>1, <3>3, <3>4 DEF TypeOK
  <2> QED BY <1>1, <1>2, <2>1, <2>2, <2>3, OutsideInv
<1> QED BY <1>3, <1>4

-----------------------------------------------------------------------------
(* A publication.                                                          *)

LEMMA PublisherFields ==
    ASSUME StreamInv, NEW r \in Requests
    PROVE  /\ Publisher(r) /\ published \in Nat /\ MaxEvents \in Nat /\ published <= MaxEvents
           /\ lock = r => \A q \in Requests \ {r} : todo[q] = {} /\ event[q] = None
           /\ lock = Free => \A q \in Requests : todo[q] = {} /\ event[q] = None
           /\ lock = r => event[r] = published /\ published \in Events
BY StreamAssumption DEF StreamInv, Publisher, TypeOK, Events

LEMMA BeginPublishInv ==
    ASSUME StreamInv, NEW r \in Requests, BeginPublish(r)
    PROVE  StreamInv'
<1>1. /\ TypeOK /\ request[r] = "running" /\ lock = Free /\ published < MaxEvents /\ lock' = r
      /\ published' = published + 1 /\ published \in Nat /\ published' \in 0..MaxEvents
      /\ UNCHANGED <<backlog, stream, leaked>>
      /\ request' \in [Requests -> {"idle", "queued", "running", "publishing"}]
      /\ request'[r] = "publishing" /\ \A q \in Requests \ {r} : request'[q] = request[q]
      /\ todo' \in [Requests -> SUBSET Clients]
      /\ todo'[r] = Subscribers /\ \A q \in Requests \ {r} : todo'[q] = todo[q]
      /\ event' \in [Requests -> 0..MaxEvents]
      /\ event'[r] = published + 1 /\ \A q \in Requests \ {r} : event'[q] = event[q]
  <2>1. TypeOK /\ published \in Nat /\ published <= MaxEvents /\ MaxEvents \in Nat
    BY PublisherFields DEF StreamInv
  <2>2. published + 1 \in 0..MaxEvents
    BY <2>1 DEF BeginPublish
  <2>3. Subscribers \subseteq Clients
    BY DEF Subscribers
  <2> QED BY <2>1, <2>2, <2>3 DEF BeginPublish, TypeOK
<1>2. TypeOK'
  <2>1. {q \in Requests : request'[q] = "queued"} = {q \in Requests : request[q] = "queued"}
    BY <1>1
  <2>2. ServedClients' = ServedClients /\ WorkingRequests' = WorkingRequests
    BY <1>1 DEF ServedClients, WorkingRequests, HasThread, AtWork
  <2>3. Busy' <= Threads
    BY <1>1, <2>2, BusyDrops DEF TypeOK
  <2> QED BY <1>1, <2>1, <2>3 DEF TypeOK
<1>3. Queue'
  BY <1>1 DEF StreamInv, Queue
<1>4. Subscribers' = Subscribers /\ \A q \in Requests : todo[q] = {} /\ event[q] = None
  BY <1>1, PublisherFields DEF Subscribers, Subscribed
<1>5. \A q \in Requests : Publisher(q)'
  <2> SUFFICES ASSUME NEW q \in Requests PROVE Publisher(q)'
    OBVIOUS
  <2>1. Publisher(q) /\ q # Free
    BY StreamAssumption DEF StreamInv
  <2>2. CASE q = r
    BY <1>1, <1>4, <2>2 DEF Publisher
  <2>3. CASE q # r
    BY <1>1, <1>4, <2>1, <2>3 DEF Publisher
  <2> QED BY <2>2, <2>3
<1>6. ASSUME NEW c \in Clients PROVE Delivered(c)' /\ Timely(stream'[c])
  <2>1. /\ Delivered(c) /\ stream'[c] = stream[c] /\ (Subscribed(c)' <=> Subscribed(c))
        /\ Timely(stream[c]) /\ stream[c].inbox \in Seq(Events)
    BY <1>1, StreamFields DEF StreamInv, Subscribed, StreamState
  <2>2. Below(stream[c].inbox, published') /\ Below(stream[c].inbox, published' + 1)
    <3>1. \A i \in DOMAIN stream[c].inbox : stream[c].inbox[i] \in Int
      <4>1. \A i \in 1..Len(stream[c].inbox) : stream[c].inbox[i] \in Events
        BY <2>1, ElementOfSeq
      <4>2. DOMAIN stream[c].inbox = 1..Len(stream[c].inbox)
        BY <2>1, LenProperties
      <4> QED BY <4>1, <4>2 DEF Events
    <3> QED BY <1>1, <2>1, <3>1 DEF Delivered, Below
  <2>3. ASSUME Subscribed(c), NEW n \in stream[c].since + 1..published'
        PROVE  \/ n \in ToSet(stream[c].inbox) \cup stream[c].missed
               \/ \E q \in Requests : event'[q] = n /\ c \in todo'[q]
    <3>1. CASE n = published'
      BY <1>1, <2>3, <3>1 DEF Subscribers
    <3>2. CASE n # published'
      <4>1. stream[c].since \in Nat
        BY StreamFields DEF StreamState
      <4>2. n \in stream[c].since + 1..published
        BY <1>1, <2>3, <3>2, <4>1
      <4> QED BY <1>4, <2>1, <2>3, <4>2 DEF Delivered
    <3> QED BY <3>1, <3>2
  <2>4. \A q \in Requests : c \in todo'[q] => q = r /\ Subscribed(c)
    BY <1>1, <1>4 DEF Subscribers
  <2> QED BY <1>1, <2>1, <2>2, <2>3, <2>4 DEF Delivered
<1> QED BY <1>2, <1>3, <1>5, <1>6 DEF StreamInv

LEMMA PutInv ==
    ASSUME StreamInv, NEW r \in Requests, NEW c \in Clients, Put(r, c)
    PROVE  StreamInv'
<1>0. PICK n : n = published
  OBVIOUS
<1>1. /\ TypeOK /\ c \in todo[r] /\ UNCHANGED <<backlog, request, lock, event, published, leaked>>
      /\ todo' = [todo EXCEPT ![r] = @ \ {c}] /\ lock = r /\ event[r] = n /\ n \in Events /\ n \in Nat
      /\ Subscribed(c)
      /\ \A q \in Requests \ {r} : todo[q] = {} /\ event[q] = None
  BY <1>0, PublisherFields DEF StreamInv, Put, Publisher, Subscribers
<1>2. /\ todo'[r] = todo[r] \ {c} /\ \A q \in Requests \ {r} : todo'[q] = todo[q]
      /\ todo' \in [Requests -> SUBSET Clients]
  BY <1>1 DEF TypeOK
<1>3. /\ stream[c] \in StreamState /\ Timely(stream[c]) /\ Delivered(c)
      /\ stream[c].inbox \in Seq(Events) /\ stream[c].queue \in Seq(Events)
      /\ stream[c].missed \subseteq Events /\ stream \in [Clients -> StreamState]
  BY StreamFields DEF StreamInv, StreamState
\* The event is in the queue now, or missed.
<1>4. /\ stream' \in [Clients -> StreamState]
      /\ \A d \in Clients \ {c} : stream'[d] = stream[d]
      /\ stream'[c].phase = stream[c].phase /\ stream'[c].since = stream[c].since
      /\ stream'[c].late = stream[c].late /\ stream'[c].age = stream[c].age
      /\ stream'[c].revoked = stream[c].revoked
      /\ \/ /\ stream'[c].inbox = Append(stream[c].inbox, n)
            /\ stream'[c].missed = stream[c].missed
         \/ /\ stream'[c].inbox = stream[c].inbox
            /\ stream'[c].missed = stream[c].missed \cup {n}
  <2>1. CASE Len(stream[c].queue) < Capacity
    <3> DEFINE s == [stream[c] EXCEPT !.queue = Append(@, n), !.inbox = Append(@, n)]
    <3>1. Append(stream[c].queue, n) \in Seq(Events) /\ Append(stream[c].inbox, n) \in Seq(Events)
      BY <1>1, <1>3, AppendProperties
    <3>2. /\ s \in StreamState /\ s.inbox = Append(stream[c].inbox, n) /\ s.missed = stream[c].missed
          /\ s.phase = stream[c].phase /\ s.since = stream[c].since /\ s.late = stream[c].late
          /\ s.age = stream[c].age /\ s.revoked = stream[c].revoked
      BY <1>3, <3>1 DEF StreamState
    <3>3. stream' = [stream EXCEPT ![c] = s]
      BY <1>1, <1>3, <2>1 DEF Put
    <3> HIDE DEF s
    <3> QED BY <1>3, <3>2, <3>3
  <2>2. CASE ~(Len(stream[c].queue) < Capacity)
    <3> DEFINE s == [stream[c] EXCEPT !.missed = @ \cup {n}]
    <3>1. /\ s \in StreamState /\ s.inbox = stream[c].inbox /\ s.missed = stream[c].missed \cup {n}
          /\ s.phase = stream[c].phase /\ s.since = stream[c].since /\ s.late = stream[c].late
          /\ s.age = stream[c].age /\ s.revoked = stream[c].revoked
      BY <1>1, <1>3 DEF StreamState
    <3>2. stream' = [stream EXCEPT ![c] = s]
      BY <1>1, <1>3, <2>2 DEF Put
    <3> HIDE DEF s
    <3> QED BY <1>3, <3>1, <3>2
  <2> QED BY <2>1, <2>2
<1>5. TypeOK'
  <2>1. {d \in Clients : stream'[d].phase = "queued"} = {d \in Clients : stream[d].phase = "queued"}
    BY <1>4
  <2>2. ServedClients' = ServedClients /\ WorkingRequests' = WorkingRequests
    BY <1>1, <1>4 DEF ServedClients, WorkingRequests, HasThread, AtWork
  <2>3. Busy' <= Threads
    BY <1>1, <2>2, BusyDrops DEF TypeOK
  <2> QED BY <1>1, <1>2, <1>4, <2>1, <2>3 DEF TypeOK
<1>6. Queue'
  BY <1>1 DEF StreamInv, Queue
<1>7. \A q \in Requests : Publisher(q)'
  <2>1. Subscribers' = Subscribers
    BY <1>4 DEF Subscribers, Subscribed
  <2> QED BY <1>1, <1>2, <2>1 DEF StreamInv, Publisher
<1>8. ASSUME NEW d \in Clients \ {c} PROVE Delivered(d)' /\ Timely(stream'[d])
  <2>1. /\ Delivered(d) /\ stream'[d] = stream[d] /\ (Subscribed(d)' <=> Subscribed(d))
        /\ \A q \in Requests : d \in todo'[q] <=> d \in todo[q]
    BY <1>1, <1>2, <1>4 DEF StreamInv, Subscribed
  <2> QED BY <1>1, <2>1 DEF StreamInv, Delivered
<1>9. Delivered(c)' /\ Timely(stream'[c])
  <2>1. Increasing(stream[c].inbox) /\ Below(stream[c].inbox, n) /\ Below(stream[c].inbox, n + 1)
    BY <1>0, <1>1, <1>3 DEF Delivered
  <2>2. Increasing(stream'[c].inbox) /\ Below(stream'[c].inbox, n + 1)
    BY <1>1, <1>3, <1>4, <2>1, IncreasingAppend
  <2>3. \A q \in Requests : c \notin todo'[q]
    BY <1>1, <1>2
  <2>4. ToSet(stream'[c].inbox) \cup stream'[c].missed = ToSet(stream[c].inbox) \cup stream[c].missed \cup {n}
    <3>1. ToSet(Append(stream[c].inbox, n)) = ToSet(stream[c].inbox) \cup {n}
      BY <1>1, <1>3, SetOfAppend
    <3> QED BY <1>4, <3>1
  <2>5. \A m \in stream[c].since + 1..published :
            m \in ToSet(stream[c].inbox) \cup stream[c].missed \cup {n}
    BY <1>1, <1>3 DEF Delivered, None
  <2>6. Subscribed(c)'
    BY <1>1, <1>4 DEF Subscribed
  <2>7. Timely(stream'[c])
    BY <1>3, <1>4 DEF Timely
  <2> QED BY <1>0, <1>1, <1>4, <2>2, <2>3, <2>4, <2>5, <2>6, <2>7 DEF Delivered
<1> QED BY <1>5, <1>6, <1>7, <1>8, <1>9 DEF StreamInv

LEMMA EndPublishInv ==
    ASSUME StreamInv, NEW r \in Requests, EndPublish(r)
    PROVE  StreamInv'
<1>1. /\ TypeOK /\ request[r] = "publishing" /\ todo[r] = {} /\ lock' = Free
      /\ UNCHANGED <<backlog, stream, todo, published, leaked>> /\ Publisher(r) /\ lock = r
      /\ request' \in [Requests -> {"idle", "queued", "running", "publishing"}]
      /\ request'[r] = "idle" /\ \A q \in Requests \ {r} : request'[q] = request[q]
      /\ event' \in [Requests -> 0..MaxEvents]
      /\ event'[r] = None /\ \A q \in Requests \ {r} : event'[q] = event[q]
  BY PublisherFields DEF StreamInv, EndPublish, TypeOK, None, Publisher
<1>2. \A q \in Requests : todo[q] = {} /\ event'[q] = None
  BY <1>1, PublisherFields
<1>3. TypeOK'
  <2>1. {q \in Requests : request'[q] = "queued"} = {q \in Requests : request[q] = "queued"}
    BY <1>1
  <2>2. ServedClients' = ServedClients /\ WorkingRequests' \subseteq WorkingRequests
    BY <1>1 DEF ServedClients, WorkingRequests, HasThread, AtWork
  <2>3. Busy' <= Threads
    BY <1>1, <2>2, BusyDrops DEF TypeOK
  <2> QED BY <1>1, <2>1, <2>3 DEF TypeOK
<1>4. Queue'
  BY <1>1 DEF StreamInv, Queue
<1>5. \A q \in Requests : Publisher(q)'
  <2> SUFFICES ASSUME NEW q \in Requests PROVE Publisher(q)'
    OBVIOUS
  <2>1. Publisher(q) /\ q # Free
    BY StreamAssumption DEF StreamInv
  <2> QED BY <1>1, <1>2, <2>1 DEF Publisher
<1>6. \A c \in Clients : Delivered(c)' /\ Timely(stream'[c])
  BY <1>1, <1>2 DEF StreamInv, Delivered, Subscribed
<1> QED BY <1>3, <1>4, <1>5, <1>6 DEF StreamInv

-----------------------------------------------------------------------------
(* The theorems.                                                           *)

LEMMA InvStep == StreamInv /\ [Next]_vars => StreamInv'
<1> SUFFICES ASSUME StreamInv, [Next]_vars PROVE StreamInv'
  OBVIOUS
<1>1. ASSUME NEW c \in Clients, Connect(c) \/ Serve(c) \/ Revoke(c) \/ Disconnect(c)
      PROVE  StreamInv'
  BY <1>1, ConnectInv, RegisterInv, RegisterHeadInv, WelcomeInv, TakeInv, TimeOutInv, DecideInv,
     RevokeInv, DisconnectInv DEF Serve
<1>2. ASSUME NEW r \in Requests, Arrive(r) \/ Finish(r) \/ BeginPublish(r) \/ Publish(r)
      PROVE  StreamInv'
  BY <1>2, ArriveInv, FinishInv, BeginPublishInv, PutInv, EndPublishInv DEF Publish
<1>3. CASE UNCHANGED vars
  <2>1. /\ TypeOK' /\ Queue'
    BY <1>3 DEF StreamInv, TypeOK, Queue, Busy, vars
  <2> QED BY <1>3, <2>1, OutsideInv DEF vars
<1> QED BY <1>1, <1>2, <1>3, DispatchInv, TickInv, RestartInv DEF Next

LEMMA Invariant == Spec => []StreamInv
<1> QED BY InitInv, InvStep, PTL DEF Spec

(* Streams, requests and the backlog keep their types, no more threads are at
   work than gunicorn has, and the lock is held by a publication only.       *)
THEOREM TypeCorrect == Spec => []TypeOK
<1>1. StreamInv => TypeOK
  BY DEF StreamInv
<1> QED BY <1>1, Invariant, PTL

(* A subscriber gets the events in the order of their publication, and misses
   only those that its full queue could not take (publish_mobile_event).     *)
THEOREM EventsInOrder == Spec => []InOrder
<1>1. StreamInv => InOrder
  BY DEF StreamInv, Delivered, Increasing, InOrder, Subscribers
<1> QED BY <1>1, Invariant, PTL

\* Only Decide takes a stream from "decide" to "get".
LEMMA OnlyDecideSends ==
    ASSUME StreamInv, [Next]_vars, NEW c \in Clients,
           stream[c].phase = "decide", stream'[c].phase = "get"
    PROVE  Decide(c)
<1>1. stream \in [Clients -> StreamState] /\ Off.phase = "off"
  BY StreamFields, OffState
<1>2. ASSUME NEW d \in Clients, Connect(d) \/ Serve(d) \/ Revoke(d) \/ Disconnect(d) PROVE Decide(c)
  <2>1. CASE Connect(d)
    BY <1>1, <2>1 DEF Connect, StreamState
  <2>2. CASE Register(d) \/ RegisterHead(d)
    BY <1>1, <2>2 DEF Register, RegisterHead, StreamState
  <2>3. CASE Welcome(d)
    <3>1. d # c
      BY <2>3 DEF Welcome
    <3> QED BY <1>1, <2>3, <3>1 DEF Welcome, Write
  <2>4. CASE Take(d) \/ TimeOut(d)
    BY <1>1, <2>4 DEF Take, TimeOut, StreamState
  <2>5. CASE Decide(d)
    <3>1. d # c => stream'[c] = stream[c]
      BY <1>1, <2>5 DEF Decide, Write
    <3> QED BY <2>5, <3>1
  <2>6. CASE Revoke(d) \/ Disconnect(d)
    <3>1. \/ stream' = [stream EXCEPT ![d].revoked = TRUE]
          \/ stream' = [stream EXCEPT ![d].lost = "yes"]
      BY <2>6 DEF Revoke, Disconnect
    <3>2. stream'[c].phase = stream[c].phase
      <4>1. CASE d # c
        BY <1>1, <3>1, <4>1
      <4>2. CASE d = c
        <5>1. stream[c] \in StreamState
          BY <1>1
        <5>2. \/ stream'[c] = [stream[c] EXCEPT !.revoked = TRUE]
              \/ stream'[c] = [stream[c] EXCEPT !.lost = "yes"]
          BY <1>1, <3>1, <4>2
        <5> QED BY <5>1, <5>2 DEF StreamState
      <4> QED BY <4>1, <4>2
    <3> QED BY <3>2
  <2> QED BY <1>2, <2>1, <2>2, <2>3, <2>4, <2>5, <2>6 DEF Serve
<1>3. ASSUME NEW r \in Requests, Arrive(r) \/ Finish(r) \/ BeginPublish(r) \/ Publish(r) PROVE FALSE
  <2>1. CASE \E d \in Clients : Put(r, d)
    BY <1>1, <2>1 DEF Put, StreamState
  <2>2. CASE UNCHANGED stream
    BY <2>2
  <2> QED BY <1>3, <2>1, <2>2 DEF Arrive, Finish, BeginPublish, Publish, EndPublish
<1>4. CASE Dispatch
  <2>1. stream' = stream \/ \E x \in Clients : stream' = [stream EXCEPT ![x].phase = "handler"]
    BY <1>4 DEF Dispatch
  <2> QED BY <1>1, <2>1 DEF StreamState
<1>5. CASE Tick
  <2>1. stream'[c].phase = stream[c].phase
    BY <1>5, StreamFields, AgedFields DEF Tick
  <2> QED BY <2>1
<1>6. CASE Restart
  BY <1>1, <1>6 DEF Restart
<1>7. CASE UNCHANGED vars
  BY <1>7 DEF vars
<1> QED BY <1>2, <1>3, <1>4, <1>5, <1>6, <1>7 DEF Next

(* The account is read again at least once per heartbeat, so no event goes out
   a heartbeat after the account lost its rights (api_admin_mobile_stream).  *)
THEOREM NoEventAfterRevocation == Spec => NoLateEvent
<1>1. StreamInv /\ [Next]_vars =>
        [\A c \in Clients :
            (/\ stream[c].phase = "decide" /\ stream[c].hand # None
             /\ stream'[c].phase = "get") => stream[c].late < Heartbeat]_vars
  <2> SUFFICES ASSUME StreamInv, [Next]_vars, NEW c \in Clients,
                      stream[c].phase = "decide", stream[c].hand # None, stream'[c].phase = "get"
               PROVE  stream[c].late < Heartbeat
    OBVIOUS
  <2>1. Decide(c)
    BY OnlyDecideSends
  <2>2. ~(MustCheck(c) /\ stream[c].revoked)
    <3>1. SUFFICES ASSUME MustCheck(c), stream[c].revoked PROVE FALSE
      OBVIOUS
    <3>2. stream' = [stream EXCEPT ![c] = Off]
      BY <2>1, <3>1 DEF Decide
    <3> QED BY <3>2, StreamFields, OffState
  <2>3. /\ stream[c].age \in 0..Heartbeat /\ stream[c].late \in 0..Heartbeat /\ Timely(stream[c])
        /\ Heartbeat \in Nat \ {0}
    BY StreamFields, StreamAssumption
  <2> QED BY <2>2, <2>3 DEF MustCheck, Timely
<1> QED BY <1>1, Invariant, PTL DEF Spec, NoLateEvent

=============================================================================
