SPECIFICATION Spec
CONSTANTS
    Editors = {e1, e2}
    Keys = {title, old}
    Known = {title}
    Texts = {a, bad}
    Invalid = {bad}
    Default = default
    Blank = blank
    None = none
    Kept = 2
SYMMETRY Symmetry
INVARIANTS
    TypeOK
    HistoryTellsUntorn
PROPERTY
    OverwritesOnlyRaced
