-------------------------- MODULE MCLeasingNotices --------------------------
(* One unit, two tenants who ask for it, and one lease.                    *)
EXTENDS LeasingNotices, TLC

Symmetry == Permutations(Tenants) \cup Permutations(Requests)
=============================================================================
