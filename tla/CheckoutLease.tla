--------------------------- MODULE CheckoutLease ---------------------------
(***************************************************************************)
(* The lease of the checkpoint directory (checkout-storage.ts): processes  *)
(* that start, die and start again create the .lease file exclusively, or  *)
(* take it over from a dead process under the .recovery directory.  Every  *)
(* process runs once; a restarted server is another process with another   *)
(* process number.  Every file operation is a step of its own.             *)
(***************************************************************************)
EXTENDS Integers

CONSTANTS Processes, Nobody

ASSUME LeaseAssumption == Nobody \notin Processes

VARIABLES
    lease,   \* the .lease file: who created it, and whether it is written yet
    guard,   \* the process that made the .recovery directory
    pc,      \* the next step of every process
    seen     \* the lease every process read when it probed the owner

vars == <<lease, guard, pc, seen>>

Steps == {"start", "guarding", "reading", "probed", "checked", "cleared",
          "writing", "owner", "refused", "closed", "dead"}
NoLease == [by |-> Nobody, written |-> FALSE]
Lease == [by : Processes \cup {Nobody}, written : BOOLEAN]

\* Every lease, guard and process is what the file system and code allow.
LeaseTypeOK ==
    /\ lease \in Lease
    /\ guard \in Processes \cup {Nobody}
    /\ pc \in [Processes -> Steps]
    /\ seen \in [Processes -> Lease]

Init ==
    /\ lease = NoLease /\ guard = Nobody
    /\ pc = [p \in Processes |-> "start"]
    /\ seen = [p \in Processes |-> NoLease]

Go(p, step) == pc' = [pc EXCEPT ![p] = step]
Stopped(p) == pc[p] \in {"refused", "closed", "dead"}

\* open(path, "wx") succeeds only where there is no file.
CreateLease(p) ==
    /\ pc[p] \in {"start", "cleared"} /\ lease = NoLease
    /\ lease' = [by |-> p, written |-> FALSE]
    /\ Go(p, "writing")
    /\ UNCHANGED <<guard, seen>>
\* EEXIST: the first attempt goes on to the recovery, the second is refused.
LeaseExists(p) ==
    /\ pc[p] = "start" /\ lease # NoLease
    /\ Go(p, "guarding")
    /\ UNCHANGED <<lease, guard, seen>>
Written(p) == IF lease.by = p THEN [lease EXCEPT !.written = TRUE] ELSE lease
\* The content goes to the file that was opened, wherever its name went.
WriteLease(p) ==
    /\ pc[p] = "writing"
    /\ lease' = Written(p)
    /\ guard' = IF guard = p THEN Nobody ELSE guard
    /\ Go(p, "owner")
    /\ UNCHANGED seen

\* Mutant of mayRecover: recoveries do not exclude each other.
recoversUnguarded == TRUE

mayRecover == guard = Nobody
MakeGuard(p) ==
    /\ pc[p] = "guarding" /\ mayRecover
    /\ guard' = p /\ Go(p, "reading")
    /\ UNCHANGED <<lease, seen>>
\* A written lease whose process is gone (ESRCH).
Stale == lease.written /\ pc[lease.by] = "dead"
ReadLease(p) ==
    /\ pc[p] = "reading" /\ Stale
    /\ seen' = [seen EXCEPT ![p] = lease]
    /\ Go(p, "probed")
    /\ UNCHANGED <<lease, guard>>
RereadLease(p) ==
    /\ pc[p] = "probed" /\ lease = seen[p]
    /\ Go(p, "checked")
    /\ UNCHANGED <<lease, guard, seen>>
RemoveLease(p) ==
    /\ pc[p] = "checked"
    /\ lease' = NoLease /\ Go(p, "cleared")
    /\ UNCHANGED <<guard, seen>>
\* Another recovery, a live owner, a malformed or a changed lease, or a failed
\* write, which leaves its file behind.
Refused(p) ==
    /\ \/ pc[p] = "writing"
       \/ pc[p] = "guarding" /\ ~mayRecover
       \/ pc[p] = "reading" /\ ~Stale
       \/ pc[p] = "probed" /\ lease # seen[p]
       \/ pc[p] = "cleared" /\ lease # NoLease
    /\ guard' = IF guard = p THEN Nobody ELSE guard
    /\ Go(p, "refused")
    /\ UNCHANGED <<lease, seen>>

Close(p) ==
    /\ pc[p] = "owner" /\ lease = [by |-> p, written |-> TRUE]
    /\ lease' = NoLease /\ Go(p, "closed")
    /\ UNCHANGED <<guard, seen>>
Die(p) ==
    /\ ~Stopped(p)
    /\ Go(p, "dead")
    /\ UNCHANGED <<lease, guard, seen>>

Next == \E p \in Processes :
    \/ CreateLease(p) \/ LeaseExists(p) \/ WriteLease(p)
    \/ MakeGuard(p) \/ ReadLease(p) \/ RereadLease(p) \/ RemoveLease(p)
    \/ Refused(p) \/ Close(p) \/ Die(p)
Spec == Init /\ [][Next]_vars

-----------------------------------------------------------------------------
\* At most one live process owns the checkpoint directory (openBound), also
\* when several take over from a dead one at once: two would both save, and
\* one restart would read the other's half of the sessions.
LeaseExclusive ==
    \A p, q \in Processes : pc[p] = "owner" /\ pc[q] = "owner" => p = q
=============================================================================
