SPECIFICATION Spec
CONSTANTS
    Browsers = {b1, b2}
    MaxId = 2
    FirstAdmins = {1}
    FirstMembers = {2}
    Provisioned = {}
    Newcomers = 1
    MaxVersion = 1
SYMMETRY Symmetry
CHECK_DEADLOCK FALSE
INVARIANT
    SessionOwner
