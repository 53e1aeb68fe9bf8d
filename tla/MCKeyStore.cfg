SPECIFICATION Spec
CONSTANTS
    Procs = {p1, p2, p3}
    Keys = {k1, k2, k3}
INVARIANTS
    TypeOK
    OnlyRealKeys
    IdentityPersists
    ServedIsStored
PROPERTIES
    PairIsFinal
SYMMETRY Symmetry
CHECK_DEADLOCK FALSE
