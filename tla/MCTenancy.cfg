SPECIFICATION Spec
CONSTANTS
    Manager = Manager
    Tenants = {t1}
    Units = {u1}
    Vacant = {}
    MaxLeases = 2
    Calls = {c1, c2}
    None = None
SYMMETRY Symmetry
INVARIANTS
    TypeOK
    LeasesAreComplete
    PagesLag
PROPERTIES
    SignaturesStand
CHECK_DEADLOCK FALSE
