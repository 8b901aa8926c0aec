SPECIFICATION Spec
CONSTANTS
    Browsers = {b1, b2}
    MaxId = 2
    FirstAdmins = {1}
    FirstMembers = {2}
    Provisioned = {2}
    Newcomers = 1
    MaxVersion = 2
CONSTRAINT
    OneOrTheOther
SYMMETRY Symmetry
CHECK_DEADLOCK FALSE
INVARIANTS
    TypeOK
    EndedStayOut
PROPERTY
    LastAdminGoesOvertaken
