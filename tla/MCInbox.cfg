SPECIFICATION Spec
CONSTANTS
    Notes = {n1, n2}
    Calls = {c1, c2}
    None = None
INVARIANTS
    TypeOK
    FlipsAreAccounted
PROPERTIES
    NewsArrive
    ReadSticks
CHECK_DEADLOCK FALSE
