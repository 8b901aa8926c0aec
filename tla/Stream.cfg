SPECIFICATION Spec
CONSTANTS
    Clients = {c1, c2}
    Requests = {r1, r2}
    Threads = 3
    MaxSubs = 1
    Capacity = 1
    Heartbeat = 2
    MaxEvents = 2
    MaxLeaks = 1
    Free = free
INVARIANTS
    TypeOK
    InOrder
PROPERTIES
    NoLateEvent
    SlotReturned
    Served
