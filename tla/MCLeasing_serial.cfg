SPECIFICATION Spec
CONSTANTS
    Tenants = {t1, t2}
    Managers = {m1}
    Owners = {o1}
    Admins = {a1}
    Properties = {p1}
    Units = {u1}
    Leases = {l1, l2}
    Requests = {q1, q2, q3}
    Null = Null
SYMMETRY Symmetry
INVARIANTS
    OnePendingPerTenant
    RequestsLetExclusively
    LeasesMatchApprovals
PROPERTIES
    HistoryIsKept
