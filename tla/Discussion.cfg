SPECIFICATION Spec
CONSTANTS
    Workers = {w1, w2}
    Users = {"ann", "bob"}
    Admins = {"ann"}
    Tags = {"t"}
    Forms <- MCForms
    MaxPost = 2
    MaxTime = 1
    MaxRequests = 4
    Mixes <- MCMixes
    MaxComment = 2
    PerLevel = 6
    BadgeAt = 1
    Badges = {"legacy"}
    Holders = {"bob"}
CONSTRAINT Undisturbed
SYMMETRY Symmetry
CHECK_DEADLOCK FALSE
INVARIANTS
    TypeOK
    OnlyDuePublished
    RevisionsComplete
    ReferencesResolve
    LikesCounted
    NoFarming
    ErasedStaysErased
    BadgeOnce
