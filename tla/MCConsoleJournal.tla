------------------------- MODULE MCConsoleJournal -------------------------
(* Instances of ConsoleJournal: tabs as model values, interchangeable. *)
EXTENDS ConsoleJournal, TLC

Symmetry == Permutations(Tabs)
=============================================================================
