SPECIFICATION NoticeSpec
CONSTANTS
    Tenants = {t1, t2}
    Managers = {m1}
    Owners = {o1}
    Admins = {}
    Properties = {p1}
    Units = {u1}
    Leases = {l1}
    Requests = {q1, q2}
    Null = Null
SYMMETRY Symmetry
INVARIANT
    AnsweredAreTold
