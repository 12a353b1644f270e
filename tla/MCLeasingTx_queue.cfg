SPECIFICATION TxSpec
CONSTANTS
    Sessions = {s1, s2}
    Tenants = {t1, t2}
    Managers = {}
    Owners = {o1}
    Admins = {}
    Properties = {p1}
    Units = {u1}
    Leases = {l1, l2}
    Requests = {q1, q2}
    Null = Null
PROPERTY
    ApprovalClearsQueue
