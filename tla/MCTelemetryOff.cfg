SPECIFICATION Spec
CONSTANTS
    Cmds = {c1}
    Sudo = TRUE
    Edits <- UserEdits
    MaxEdits = 1
    MaxStarts = 2
INVARIANTS
    ReportedOffIsOff
CHECK_DEADLOCK FALSE
