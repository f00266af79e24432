----------------------- MODULE MCOrganizationAccount -----------------------
(* Instances of OrganizationAccount: tabs are interchangeable. *)
EXTENDS OrganizationAccount, TLC

Symmetry == Permutations(Tabs)
=============================================================================
