SPECIFICATION Spec
CONSTANTS
    Browsers = {b1, b2}
    RecoveryCount = 1
    PreMaxAge = 0
    MaxTime = 2
    MaxSecret = 1
    MaxGeneration = 2
    MaxVersion = 3
SYMMETRY Symmetry
CONSTRAINT Undisturbed
INVARIANTS
    TypeOK
    NoBypass
    NewestCodesOnly
PROPERTY
    ImplementsOneTimeCodes
