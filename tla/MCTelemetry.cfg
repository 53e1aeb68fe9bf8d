SPECIFICATION Spec
CONSTANTS
    Cmds = {c1, c2}
    Sudo = TRUE
    Edits <- AllEdits
    MaxEdits = 2
    MaxStarts = 2
INVARIANTS
    TypeOK
    Consent
    NoMeansNo
    ReportPredicts
PROPERTIES
    AskedOnce
SYMMETRY Symmetry
CHECK_DEADLOCK FALSE
