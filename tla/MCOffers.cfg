SPECIFICATION Spec
CONSTANTS
    Owner = Owner
    Managers = {m1}
    Properties = {p1, p2}
    Offers = {f1, f2}
    Calls = {c1, c2}
    MaxFailures = 1
    None = None
SYMMETRY Symmetry
INVARIANTS
    TypeOK
    ManagedByOffer
    PagesLag
    UnofferedAreReported
PROPERTIES
    AnswersStand
CHECK_DEADLOCK FALSE
