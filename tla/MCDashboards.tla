---------------------------- MODULE MCDashboards ----------------------------
(* Five leases: a draft, one to be signed, one in arrears, one invoiced    *)
(* and one paid. The tenant's are the draft, which is first in the list,   *)
(* and the one to be signed.                                               *)
EXTENDS Dashboards

CONSTANTS l1, l2, l3, l4, l5, r1, r2, r3, p1, p2, o1

MCHome == [l \in Leases |-> p1]
MCEnds == [l \in Leases |-> CASE l = l1 -> 470 [] l = l2 -> 400 [] OTHER -> 405]
MCPosition == [l \in Leases |-> CASE l = l1 -> 2 [] l = l5 -> 1 [] OTHER -> 3]
MCDue == [l \in Leases |-> CASE l = l1 -> 360 [] l = l2 -> 375 [] OTHER -> 350]
MCPriority == [r \in Requests |-> CASE r = r1 -> "low" [] r = r2 -> "emergency"
                                    [] OTHER -> "low"]

Invoice(status, day) == [status |-> status, on |-> day]

MCSeed ==
    [leases |-> [l \in Leases |-> IF l = l1 THEN "pending_tenant"
                                   ELSE IF l = l5 THEN "draft" ELSE "active"],
     payments |-> [l \in Leases |->
         CASE l \in {l1, l5} -> Invoice("none", 0) [] l = l2 -> Invoice("overdue", 0)
           [] l = l3 -> Invoice("pending", 0) [] OTHER -> Invoice("paid", 355)],
     requests |-> [r \in Requests |->
         CASE r = r1 -> [status |-> "in_progress", updated |-> -1]
           [] r = r2 -> [status |-> "none", updated |-> 0]
           [] OTHER -> [status |-> "submitted", updated |-> 0]],
     offers |-> [o \in Offers |-> "none"],
     listed |-> [p \in Properties |-> IF p = p1 THEN 1 ELSE 0],
     occupied |-> {l2, l3, l4}, day |-> 380]
=============================================================================
