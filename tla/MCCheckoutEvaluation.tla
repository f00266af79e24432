------------------------ MODULE MCCheckoutEvaluation ------------------------
(* Instances of CheckoutEvaluation: requests and references are *)
(* interchangeable.                                             *)
EXTENDS CheckoutEvaluation, TLC

Symmetry == Permutations(Requests) \cup Permutations(References)
=============================================================================
