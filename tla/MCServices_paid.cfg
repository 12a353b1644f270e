SPECIFICATION Spec
CONSTANTS
    b1 = b1
    k1 = k1
    manager = manager
    tenant = tenant
    Null = Null
    Sessions = {s1, s2}
    Bills = {b1}
    Tickets = {k1}
    Users = {manager, tenant}
    Staff = {manager}
    TenantOf <- MCTenantOf
    Fees = {0, 1}
    Tables <- MCTables
    Pool = 2
    MaxCalls = 2
    MaxFaults = 1
PROPERTIES
    PaidStays
CHECK_DEADLOCK FALSE
