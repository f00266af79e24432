--------------------------- MODULE MCLineContract ---------------------------
(* Instances of LineContract for TLC. *)
EXTENDS LineContract, TLC

CONSTANTS a1, a2, m1, m2

Symmetry == Permutations(Payments) \cup Permutations(Agents)
=============================================================================
