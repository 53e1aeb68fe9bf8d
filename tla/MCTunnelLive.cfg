SPECIFICATION FairSpec
CONSTANTS
    Sessions = {s1}
    s1 = s1
    s2 = s2
    Stdio = FALSE
    ChunkSize = 2
    Cap = 2
    MaxBytes <- OneEach
    Faults = {"link", "crash", "restart"}
PROPERTIES
    HangUpSpreads
    Teardown
    ConduitFlows
CHECK_DEADLOCK FALSE
