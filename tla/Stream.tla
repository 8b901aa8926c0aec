------------------------------- MODULE Stream -------------------------------
(***************************************************************************)
(* The event stream of the mobile API (app/mobile_api.py), the publication *)
(* of chat messages to it (app/services.py: publish_mobile_event) and the  *)
(* threads they share with every other request: one gunicorn worker with a *)
(* pool of threads and a first-come first-served backlog.  A stream holds  *)
(* its thread until it ends; an admin page in wait mode or any other       *)
(* request returns by itself.                                              *)
(*                                                                         *)
(* Time is counted in ticks since a stream last checked its account, up to *)
(* Heartbeat of them.                                                      *)
(***************************************************************************)
EXTENDS Integers, Sequences, FiniteSets, SequencesExt

CONSTANTS
    Clients,    \* mobile applications; each has at most one stream
    Requests,   \* the other requests; any of them may post a chat message
    Threads,    \* gunicorn --threads
    MaxSubs,    \* most entries in mobile_event_subscribers
    Capacity,   \* maxsize of a subscriber's queue
    Heartbeat,  \* SSE_HEARTBEAT_SECONDS, in ticks
    MaxEvents,  \* bound on the events published
    MaxLeaks,   \* bound on the slots lost
    Free        \* the state of mobile_event_lock when nobody holds it

ASSUME StreamAssumption ==
    /\ IsFiniteSet(Clients) /\ IsFiniteSet(Requests) /\ Clients \cap Requests = {}
    /\ MaxSubs \in Nat /\ Threads \in Nat /\ MaxSubs < Threads
    /\ Capacity \in Nat \ {0} /\ Heartbeat \in Nat \ {0}
    /\ MaxEvents \in Nat /\ MaxLeaks \in Nat
    /\ Free \notin Requests

VARIABLES
    backlog,    \* requests accepted that wait for a thread
    stream,     \* client -> the state of its stream
    request,    \* request -> "idle", "queued", "running" or "publishing"
    lock,       \* mobile_event_lock
    todo,       \* request -> subscribers it has still to put its event to
    event,      \* request -> the event it publishes, numbered in order of publication
    published,  \* how many events were published
    leaked      \* entries of mobile_event_subscribers whose generator never started

vars == <<backlog, stream, request, lock, todo, event, published, leaked>>

-----------------------------------------------------------------------------
Events == 1..MaxEvents
Phases == {"off", "queued", "handler", "welcome", "get", "decide"}
None == 0

(* A stream: hand is the event taken from the queue; revoked that the account
   changed since it was authenticated, late for how many ticks an open stream
   has been revoked; lost that the client went away, and whether a write has
   missed that.  since, inbox and missed are history: events published before
   it subscribed, put to its queue, and dropped because the queue was full.  *)
StreamState ==
    [phase: Phases, queue: Seq(Events), hand: Events \cup {None}, age: 0..Heartbeat,
     revoked: BOOLEAN, late: 0..Heartbeat, lost: {"no", "yes", "unnoticed"},
     since: Nat, inbox: Seq(Events), missed: SUBSET Events]

Off == [phase |-> "off", queue |-> <<>>, hand |-> None, age |-> 0, revoked |-> FALSE,
        late |-> 0, lost |-> "no", since |-> 0, inbox |-> <<>>, missed |-> {}]

Subscribed(c) == stream[c].phase \in {"welcome", "get", "decide"}
Subscribers == {c \in Clients : Subscribed(c)}
Slots == Cardinality(Subscribers) + leaked

Busy == Cardinality({c \in Clients : stream[c].phase \notin {"off", "queued"}})
        + Cardinality({r \in Requests : request[r] \in {"running", "publishing"}})

Cap(n) == IF n < Heartbeat THEN n + 1 ELSE n

Init ==
    /\ backlog = <<>>
    /\ stream = [c \in Clients |-> Off]
    /\ request = [r \in Requests |-> "idle"]
    /\ lock = Free
    /\ todo = [r \in Requests |-> {}]
    /\ event = [r \in Requests |-> None]
    /\ published = 0 /\ leaked = 0

-----------------------------------------------------------------------------
(* The pool of threads.                                                    *)

Connect(c) ==
    /\ stream[c].phase = "off"
    /\ stream' = [stream EXCEPT ![c].phase = "queued"]
    /\ backlog' = Append(backlog, c)
    /\ UNCHANGED <<request, lock, todo, event, published, leaked>>

Arrive(r) ==
    /\ request[r] = "idle"
    /\ request' = [request EXCEPT ![r] = "queued"]
    /\ backlog' = Append(backlog, r)
    /\ UNCHANGED <<stream, lock, todo, event, published, leaked>>

\* Mutant: the pool takes one request too many.
DispatchOverbooked ==
    /\ backlog # <<>> /\ Busy <= Threads
    /\ LET x == Head(backlog) IN
          IF x \in Clients
          THEN stream' = [stream EXCEPT ![x].phase = "handler"] /\ UNCHANGED request
          ELSE request' = [request EXCEPT ![x] = "running"] /\ UNCHANGED stream
    /\ backlog' = Tail(backlog)
    /\ UNCHANGED <<lock, todo, event, published, leaked>>

\* A stream's account is authenticated and its session_version read here.
Dispatch ==
    /\ backlog # <<>> /\ Busy < Threads
    /\ LET x == Head(backlog) IN
          IF x \in Clients
          THEN stream' = [stream EXCEPT ![x].phase = "handler"] /\ UNCHANGED request
          ELSE request' = [request EXCEPT ![x] = "running"] /\ UNCHANGED stream
    /\ backlog' = Tail(backlog)
    /\ UNCHANGED <<lock, todo, event, published, leaked>>

\* A page, or an admin page in wait mode (at most 25 s): it ends by itself.
Finish(r) ==
    /\ request[r] = "running"
    /\ request' = [request EXCEPT ![r] = "idle"]
    /\ UNCHANGED <<backlog, stream, lock, todo, event, published, leaked>>

-----------------------------------------------------------------------------
(* publish_mobile_event, after the commit of a chat message.               *)

\* Mutant: the queues are filled without mobile_event_lock.
BeginPublishUnlocked(r) ==
    /\ request[r] = "running"
    /\ published < MaxEvents
    /\ lock' = lock
    /\ request' = [request EXCEPT ![r] = "publishing"]
    /\ todo' = [todo EXCEPT ![r] = Subscribers]
    /\ published' = published + 1
    /\ event' = [event EXCEPT ![r] = published']
    /\ UNCHANGED <<backlog, stream, leaked>>

BeginPublish(r) ==
    /\ request[r] = "running"
    /\ lock = Free
    /\ published < MaxEvents
    /\ lock' = r
    /\ request' = [request EXCEPT ![r] = "publishing"]
    /\ todo' = [todo EXCEPT ![r] = Subscribers]
    /\ published' = published + 1
    /\ event' = [event EXCEPT ![r] = published']
    /\ UNCHANGED <<backlog, stream, leaked>>

\* Mutant: put instead of put_nowait, which waits for room under the lock.
PutWaiting(r, c) ==
    /\ c \in todo[r] /\ Len(stream[c].queue) < Capacity
    /\ todo' = [todo EXCEPT ![r] = @ \ {c}]
    /\ stream' = [stream EXCEPT ![c].queue = Append(@, event[r]),
                               ![c].inbox = Append(@, event[r])]
    /\ UNCHANGED <<backlog, request, lock, event, published, leaked>>

\* put_nowait: a full queue drops the event
Put(r, c) ==
    /\ c \in todo[r]
    /\ todo' = [todo EXCEPT ![r] = @ \ {c}]
    /\ stream' = IF Len(stream[c].queue) < Capacity
                 THEN [stream EXCEPT ![c].queue = Append(@, event[r]),
                                     ![c].inbox = Append(@, event[r])]
                 ELSE [stream EXCEPT ![c].missed = @ \cup {event[r]}]
    /\ UNCHANGED <<backlog, request, lock, event, published, leaked>>

EndPublish(r) ==
    /\ request[r] = "publishing" /\ todo[r] = {}
    /\ lock' = Free
    /\ request' = [request EXCEPT ![r] = "idle"]
    /\ event' = [event EXCEPT ![r] = None]
    /\ UNCHANGED <<backlog, stream, todo, published, leaked>>

-----------------------------------------------------------------------------
(* api_admin_mobile_stream.                                                *)

\* The count and the append are under the lock; over the limit the answer is 429.
Register(c) ==
    /\ stream[c].phase = "handler" /\ lock = Free
    /\ stream' = [stream EXCEPT ![c] =
                     IF Slots >= MaxSubs THEN Off
                     ELSE [@ EXCEPT !.phase = "welcome", !.since = published]]
    /\ UNCHANGED <<backlog, request, lock, todo, event, published, leaked>>

\* A HEAD request: the queue is appended, the generator is closed before it
\* has started, and its finally clause never runs.
RegisterHead(c) ==
    /\ stream[c].phase = "handler" /\ lock = Free
    /\ Slots < MaxSubs /\ leaked < MaxLeaks
    /\ stream' = [stream EXCEPT ![c] = Off]
    /\ leaked' = leaked + 1
    /\ UNCHANGED <<backlog, request, lock, todo, event, published>>

\* A write to a client that went away may succeed once; the next one raises,
\* the generator is closed and its finally clause gives the slot back.
Write(c, next) ==
    IF stream[c].lost = "unnoticed" THEN lock = Free /\ stream' = [stream EXCEPT ![c] = Off]
    ELSE \/ stream' = [stream EXCEPT ![c] =
                          [next EXCEPT !.lost = IF @ = "yes" THEN "unnoticed" ELSE @]]
         \/ /\ stream[c].lost = "yes" /\ lock = Free
            /\ stream' = [stream EXCEPT ![c] = Off]

\* The first message; the account counts as checked now.
Welcome(c) ==
    /\ stream[c].phase = "welcome"
    /\ Write(c, [stream[c] EXCEPT !.phase = "get", !.age = 0])
    /\ UNCHANGED <<backlog, request, lock, todo, event, published, leaked>>

\* queue.get returns an event
Take(c) ==
    /\ stream[c].phase = "get" /\ stream[c].queue # <<>>
    /\ stream' = [stream EXCEPT ![c].phase = "decide", ![c].hand = Head(stream[c].queue),
                                ![c].queue = Tail(@)]
    /\ UNCHANGED <<backlog, request, lock, todo, event, published, leaked>>

\* ... or raises queue.Empty a heartbeat later
TimeOut(c) ==
    /\ stream[c].phase = "get" /\ stream[c].queue = <<>>
    /\ stream[c].age = Heartbeat
    /\ stream' = [stream EXCEPT ![c].phase = "decide"]
    /\ UNCHANGED <<backlog, request, lock, todo, event, published, leaked>>

\* Mutant: the account is checked only when no event came.
MustCheckWhenIdle(c) == stream[c].hand = None

MustCheck(c) == stream[c].hand = None \/ stream[c].age >= Heartbeat

\* Mutant: the loop ends without the finally clause.
DecideKeepingSlot(c) ==
    /\ stream[c].phase = "decide"
    /\ IF MustCheck(c) /\ stream[c].revoked
       THEN UNCHANGED stream
       ELSE Write(c, [stream[c] EXCEPT !.phase = "get", !.hand = None,
                                       !.age = IF MustCheck(c) THEN 0 ELSE @])
    /\ UNCHANGED <<backlog, request, lock, todo, event, published, leaked>>

\* The account is read again when it is time, then the event or a heartbeat is
\* written; a stream that is no longer authorized returns.
Decide(c) ==
    /\ stream[c].phase = "decide"
    /\ IF MustCheck(c) /\ stream[c].revoked
       THEN lock = Free /\ stream' = [stream EXCEPT ![c] = Off]
       ELSE Write(c, [stream[c] EXCEPT !.phase = "get", !.hand = None,
                                       !.age = IF MustCheck(c) THEN 0 ELSE @])
    /\ UNCHANGED <<backlog, request, lock, todo, event, published, leaked>>

-----------------------------------------------------------------------------
(* The environment.                                                        *)

\* Demoted, banned, logged out, password to be changed, second factor off.
Revoke(c) ==
    /\ stream[c].phase \notin {"off", "queued"} /\ ~stream[c].revoked
    /\ stream' = [stream EXCEPT ![c].revoked = TRUE]
    /\ UNCHANGED <<backlog, request, lock, todo, event, published, leaked>>

Disconnect(c) ==
    /\ Subscribed(c) /\ stream[c].lost = "no"
    /\ stream' = [stream EXCEPT ![c].lost = "yes"]
    /\ UNCHANGED <<backlog, request, lock, todo, event, published, leaked>>

Aged(s) ==
    IF s.phase \notin {"get", "decide"} THEN s
    ELSE [s EXCEPT !.age = Cap(@), !.late = IF s.revoked THEN Cap(@) ELSE @]

Tick ==
    /\ stream' = [c \in Clients |-> Aged(stream[c])]
    /\ UNCHANGED <<backlog, request, lock, todo, event, published, leaked>>

\* The worker dies or is restarted; everything it held was in memory.
Restart ==
    /\ backlog' = <<>>
    /\ stream' = [c \in Clients |-> Off]
    /\ request' = [r \in Requests |-> "idle"]
    /\ lock' = Free
    /\ todo' = [r \in Requests |-> {}]
    /\ event' = [r \in Requests |-> None]
    /\ leaked' = 0
    /\ UNCHANGED published

-----------------------------------------------------------------------------
Serve(c) == Register(c) \/ RegisterHead(c) \/ Welcome(c) \/ Take(c) \/ TimeOut(c) \/ Decide(c)

Publish(r) == EndPublish(r) \/ \E c \in Clients : Put(r, c)

Next ==
    \/ \E c \in Clients : Connect(c) \/ Serve(c) \/ Revoke(c) \/ Disconnect(c)
    \/ \E r \in Requests : Arrive(r) \/ Finish(r) \/ BeginPublish(r) \/ Publish(r)
    \/ Dispatch \/ Tick \/ Restart

(* Threads are scheduled, time passes, no handler but a stream's generator
   waits for ever, and a write to a socket returns.  Clients, requests,
   revocations and restarts happen or not.                                  *)
Fairness ==
    /\ \A c \in Clients : WF_vars(Serve(c))
    /\ \A r \in Requests : WF_vars(Finish(r) \/ Publish(r))
    /\ WF_vars(Dispatch)
    /\ WF_vars(Tick)

Spec == Init /\ [][Next]_vars /\ Fairness

-----------------------------------------------------------------------------
(* Properties.                                                             *)

(* Types; the pool is not overbooked, and only a publication holds the lock. *)
TypeOK ==
    /\ stream \in [Clients -> StreamState]
    /\ request \in [Requests -> {"idle", "queued", "running", "publishing"}]
    /\ ToSet(backlog) = {c \in Clients : stream[c].phase = "queued"}
                            \cup {r \in Requests : request[r] = "queued"}
    /\ lock \in Requests \cup {Free}
    /\ lock # Free => request[lock] = "publishing"
    /\ todo \in [Requests -> SUBSET Clients] /\ event \in [Requests -> 0..MaxEvents]
    /\ published \in 0..MaxEvents /\ leaked \in 0..MaxLeaks
    /\ Busy <= Threads

(* Every subscriber receives the events in the order of their publication,
   and each event published since it subscribed, except those dropped while
   its queue was full.                                                     *)
InOrder ==
    \A c \in Subscribers : LET s == stream[c] IN
        /\ \A i, j \in DOMAIN s.inbox : i < j => s.inbox[i] < s.inbox[j]
        /\ \A n \in s.since + 1..published :
              \/ n \in ToSet(s.inbox) \cup s.missed
              \/ \E r \in Requests : event[r] = n /\ c \in todo[r]

(* "Re-check the account at least once per heartbeat period, even while events
   keep flowing": an event goes out on a revoked stream less than a heartbeat
   after both the revocation and the opening of the stream.                *)
NoLateEvent ==
    [][\A c \in Clients :
          (/\ stream[c].phase = "decide" /\ stream[c].hand # None
           /\ stream'[c].phase = "get") => stream[c].late < Heartbeat]_vars

(* A revoked stream gives its slot and its thread back, and so does the
   stream of a client that went away.                                      *)
SlotReturned ==
    \A c \in Clients :
        (Subscribed(c) /\ (stream[c].revoked \/ stream[c].lost # "no")) ~> ~Subscribed(c)

(* "each open SSE stream holds a thread, so --threads 32 is kept"
   (deploy/blog.service): streams never starve the site, every other request
   that arrives is answered.                                               *)
Served == \A r \in Requests : request[r] = "queued" ~> request[r] = "idle"

=============================================================================
