----------------------------- MODULE MCServices -----------------------------
(* One bill and one repair of one tenant; a tenant and a manager.          *)
EXTENDS Services

CONSTANTS b1, k1, manager, tenant

MCTenantOf == [k \in Keys |-> tenant]

Table(bill, ticket) == [k \in Keys |-> IF k = b1 THEN bill ELSE ticket]

MCPending == [status |-> "PENDING", dated |-> FALSE, fee |-> 0]

MCSubmitted == [status |-> "SUBMITTED", assignee |-> Null, escalated |-> FALSE]

MCTables ==
    {Table(Null, Null), Table(MCPending, MCSubmitted),
     Table(MCPending, [MCSubmitted EXCEPT !.status = "IN_PROGRESS", !.assignee = tenant])}
=============================================================================
