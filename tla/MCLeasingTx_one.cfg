SPECIFICATION OneAtATimeSpec
CONSTANTS
    Sessions = {s1, s2}
    Tenants = {t1, t2}
    Managers = {m1}
    Owners = {}
    Admins = {a1}
    Properties = {p1}
    Units = {u1}
    Leases = {l1, l2}
    Requests = {q1, q2}
    Null = Null
SYMMETRY Symmetry
PROPERTIES
    ImplementsLeasing
