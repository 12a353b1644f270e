----------------------------- MODULE MCLeasing -----------------------------
(* Leasing on small sets. Row keys are interchangeable, and so are tenants. *)
EXTENDS Leasing, TLC

Symmetry == Permutations(Tenants) \cup Permutations(Leases)
               \cup Permutations(Requests) \cup Permutations(Units)
=============================================================================
