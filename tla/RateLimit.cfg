SPECIFICATION Spec
CONSTANTS
    Calls = {c1, c2, c3}
    Threads = 2
    Names = {alice, bob}
    Accounts = {carol}
    Addrs = {loopback, ip1}
    Anon = anon
    alice = alice
    bob = bob
    carol = carol
    loopback = loopback
    ip1 = ip1
    Traffic <- MCTraffic
    Meaningless = {loopback}
    LimitMax = 1
    Window = 1
    UserMax = 1
    UserWindow = 1
    ClientMax = 1
    ClientWindow = 1
    MaxAge = 2
    Skew = 1
    MaxClock = 2
SYMMETRY Symmetry
CHECK_DEADLOCK FALSE
INVARIANTS
    TypeOK
    WindowBound
    FailureBound
    NoEarlyPurge
PROPERTY
    NoSharedLockout
