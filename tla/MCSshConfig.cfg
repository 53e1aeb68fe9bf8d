SPECIFICATION Spec
CONSTANTS
    Runs = {r1, r2}
    a = "a"
    b = "b"
    Names = {"a", "b"}
    Ids = {"id1", "id2"}
    MaxLines = 4
    Files <- AllFiles
INVARIANTS
    TypeOK
    ListTellsTheTruth
    RemoveUndoesAdd
    OneOfThemSucceeds
PROPERTIES
    OnlyOursGo
    AddTakesEffect
    RemoveFindsOne
    AtomicChange
SYMMETRY Alike
CHECK_DEADLOCK FALSE
