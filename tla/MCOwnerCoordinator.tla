------------------------- MODULE MCOwnerCoordinator -------------------------
(* Instances of OwnerCoordinator: workers, and operations, are alike. *)
EXTENDS OwnerCoordinator, TLC

Symmetry == Permutations(Processes) \cup Permutations(Operations)
=============================================================================
