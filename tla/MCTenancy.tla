----------------------------- MODULE MCTenancy -----------------------------
EXTENDS Tenancy, TLC

Symmetry == Permutations(Calls) \cup Permutations(Tenants)
=============================================================================
