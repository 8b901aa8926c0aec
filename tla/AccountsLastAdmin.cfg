SPECIFICATION Spec
CONSTANTS
    Browsers = {b1, b2}
    MaxId = 2
    FirstAdmins = {1, 2}
    FirstMembers = {}
    Provisioned = {}
    Newcomers = 0
    MaxVersion = 1
SYMMETRY Symmetry
CHECK_DEADLOCK FALSE
INVARIANT
    AtLeastOneAdmin
