------------------------------ MODULE MCOffers ------------------------------
(* Offers with one manager; the other names are interchangeable. *)
EXTENDS Offers, TLC

Symmetry == Permutations(Properties) \cup Permutations(Offers) \cup Permutations(Calls)
=============================================================================
