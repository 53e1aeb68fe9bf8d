SPECIFICATION Spec
CONSTANTS
    Runs = {r1, r2}
    a = "a"
    b = "b"
    Names = {"a", "b"}
    Ids = {"id1", "id2"}
    MaxLines = 0
    Files <- UserFiles
PROPERTIES
    AtomicWrite
CHECK_DEADLOCK FALSE
