---------------------------- MODULE MCLeasingTx ----------------------------
(* LeasingTx on small sets of sessions and rows. *)
EXTENDS LeasingTx, TLC

Symmetry == Permutations(Sessions) \cup Permutations(Leases)
               \cup Permutations(Requests) \cup Permutations(Tenants)
=============================================================================
