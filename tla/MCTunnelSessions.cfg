SPECIFICATION Spec
CONSTANTS
    Sessions = {s1, s2}
    s1 = s1
    s2 = s2
    Stdio = FALSE
    ChunkSize = 1
    Cap = 1
    MaxBytes <- OneOfTwo
    Faults = {"crash", "restart"}
INVARIANTS
    EndHasCause
    Orderly
CHECK_DEADLOCK FALSE
