-------------------------- MODULE ServiceRequests --------------------------
(***************************************************************************)
(* The request IDs by which an organization and a supplier's server name   *)
(* the same API order (supplierRequestId, src/lib/organization/orders.ts), *)
(* numbered as the organization mints them.                                *)
(***************************************************************************)
EXTENDS Integers

CONSTANT Requests

ASSUME RequestsAssumption == Requests \subseteq Nat \ {0}
=============================================================================
