SPECIFICATION Spec
CONSTANTS
    Tenants = {t1}
    Managers = {}
    Owners = {o1}
    Admins = {}
    Properties = {p1}
    Units = {u1}
    Leases = {l1, l2}
    Requests = {q1}
    Null = Null
PROPERTY
    CreatingALeaseOccupies
