SPECIFICATION Spec
CONSTANTS
    Sessions = {s1}
    s1 = s1
    s2 = s2
    Stdio = FALSE
    ChunkSize = 2
    Cap = 2
    MaxBytes <- ThreeUp
    Faults = {"link", "crash"}
INVARIANTS
    TypeOK
    Conservation
    NoHoles
PROPERTIES
    ConduitSafety
CHECK_DEADLOCK FALSE
