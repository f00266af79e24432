--------------------------- MODULE MCMirrorHosts ---------------------------
(* Instances of MirrorHosts. *)
EXTENDS MirrorHosts

CONSTANTS agent, mA, mB
=============================================================================
