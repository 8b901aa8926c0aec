SPECIFICATION BackupSpec
CONSTANTS
    Workers = {w1, w2}
    Users = {alice}
    Pictures = {cat}
    NoImage = none
    MaxFile = 2
    Parallel = 1
CHECK_DEADLOCK FALSE
SYMMETRY Symmetry
INVARIANTS
    TypeOK
    NoBytesLost
    RowsResolve
    EncryptedAtRest
    FlaggedNotServed
    ErasedWithAccount
    BackupComplete
