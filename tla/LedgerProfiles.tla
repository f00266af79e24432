--------------------------- MODULE LedgerProfiles ---------------------------
(***************************************************************************)
(* The two other ledgers the canonical circuits were carried over to: the  *)
(* organization profile, whose reserve is a token balance, and the private *)
(* facility.  A deployment is of one profile: a behaviour is of one or of  *)
(* the other, over the ledger's clock and a registry of merchants.         *)
(***************************************************************************)
EXTENDS OrganizationLine, PrivateFacility

VARIABLE profile   \* "organization" or "private"

organizationState == <<counters, terms, lineCommit, status, quotes, notes,
                       nullifiers, repaid, assets>>
profileVars == <<profile, blockTime, registeredMerchants, organizationState,
                 facilityVars>>

\* The two circuits of the private facility that are the canonical ones: its
\* Merkle trees of merchants are the keys of the public map, and its TRUE keys.
facilityMerchants ==
    \E caller \in Principals, m \in Suppliers :
        registerMerchant(caller, m) \/ disableMerchant(caller, m)

profileInit ==
    /\ profile \in {"organization", "private"}
    /\ orgInit
    /\ facilityInit

profileNext ==
    \/ profile = "organization" /\ orgNext /\ UNCHANGED <<profile, facilityVars>>
    \/ /\ profile = "private"
       /\ \/ facilityNext /\ UNCHANGED <<registeredMerchants, blockTime>>
          \/ facilityMerchants /\ UNCHANGED facilityVars
          \/ Tick /\ UNCHANGED facilityVars
       /\ UNCHANGED <<profile, organizationState>>

profileSpec == profileInit /\ [][profileNext]_profileVars
=============================================================================
