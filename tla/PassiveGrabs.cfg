SPECIFICATION Spec
CONSTANTS
    Client = {c1, c2}
    Device = {keyboard}
    Detail = {k1, k2}
    Modifier = {m1, m2}
    Terms = {t1}
    MaxGrabs = 3
    AnyValue = any
    Null = null
INVARIANTS TypeOK OneGrabPerCombination
PROPERTY TableKept
SYMMETRY Symmetry
