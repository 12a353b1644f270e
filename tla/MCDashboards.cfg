SPECIFICATION Spec
CONSTANTS
    l1 = l1
    l2 = l2
    l3 = l3
    l4 = l4
    l5 = l5
    r1 = r1
    r2 = r2
    r3 = r3
    p1 = p1
    p2 = p2
    o1 = o1
    Leases = {l1, l2, l3, l4, l5}
    Requests = {r1, r2, r3}
    Offers = {o1}
    Properties = {p1, p2}
    Home <- MCHome
    Building = p1
    Position <- MCPosition
    Ends <- MCEnds
    Due <- MCDue
    Priority <- MCPriority
    Escalated = {r2}
    Mine = {l1, l5, r1, r2}
    Seed <- MCSeed
    Days = {380, 410}
    ListLength = 2
    LeaseLines = 1
    RecentLines = 1
    MaxChanges = 2
INVARIANTS
    SaidWasSo
    FiguresAgree
CHECK_DEADLOCK FALSE
