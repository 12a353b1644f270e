----------------------------- MODULE MCTickets -----------------------------
(* Tickets with a tenant, a manager and one request, not yet submitted. *)
EXTENDS Tickets, TLC

MCSeed == [t \in Tickets |->
             [status |-> "none", assigned_to |-> None, tenant |-> None]]

Symmetry == Permutations(Calls)
=============================================================================
