SPECIFICATION Spec
CONSTANTS
    Tenants = {tessa}
    Managers = {m1}
    Technicians = {tech}
    Tickets = {t1}
    Seed <- MCSeed
    Escalated = {t1}
    Calls = {c1, c2}
    None = None
SYMMETRY Symmetry
INVARIANTS
    TypeOK
    HasAssignee
    RowsLag
    RefusedMeansMoved
PROPERTIES
    Lifecycle
CHECK_DEADLOCK FALSE
