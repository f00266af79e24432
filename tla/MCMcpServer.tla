---------------------------- MODULE MCMcpServer ----------------------------
(* Instances of McpServer: calls in flight are interchangeable. *)
EXTENDS McpServer, TLC

CONSTANTS agent, mA, mB

Symmetry == Permutations(Slots)
=============================================================================
