SPECIFICATION Spec
CONSTANTS
    Runs = {r1}
    a = "a"
    b = "b"
    Names = {"a", "b"}
    Ids = {"id1", "id2"}
    MaxLines = 0
    Files <- TakenFiles
PROPERTIES
    TakenIsAnError
CHECK_DEADLOCK FALSE
