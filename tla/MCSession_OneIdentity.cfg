SPECIFICATION Spec
CONSTANTS
    tess = tess
    max = max
    Accounts = {tess, max}
    Role <- MCRole
    Registered = {tess}
    Tokens = {k1, k2}
    Typed = {"tenant"}
    Ops = {o1, o2}
    None = None
INVARIANTS
    OneIdentity

CHECK_DEADLOCK FALSE
