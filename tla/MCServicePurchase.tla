------------------------- MODULE MCServicePurchase -------------------------
(* Instances of ServicePurchase: tabs are interchangeable. *)
EXTENDS ServicePurchase, TLC

Symmetry == Permutations(Tabs)
=============================================================================
