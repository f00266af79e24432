-------------------------- MODULE MCLedgerProfiles --------------------------
(* Instances of LedgerProfiles for TLC. *)
EXTENDS LedgerProfiles, TLC

CONSTANTS a1, a2, m1, m2

Symmetry == Permutations(Payments) \cup Permutations(Recipients)
              \cup Permutations(Agents)
=============================================================================
