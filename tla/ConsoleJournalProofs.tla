------------------------ MODULE ConsoleJournalProofs ------------------------
(***************************************************************************)
(* What the console's journal says is true, for any number of tabs and any *)
(* capacity: a rejected operation never happens, a confirmed one did, the  *)
(* record always passes its own validation, and no action is repeated      *)
(* beside an earlier one that may still execute.                           *)
(*                                                                         *)
(* Only the holder of the lease writes the journal, and only its last      *)
(* operation is ever unsettled: so a tab that dies at any step leaves one  *)
(* operation for the recovery of the next holder.                          *)
(***************************************************************************)
EXTENDS ConsoleJournal, SequenceTheorems, TLAPS

TxFates == {"none", "pool", "dropped", "succeeded", "failed", "partial"}

ConsoleTypeOK ==
    /\ mirror \in Books
    /\ lease \in Tabs \cup {NoTab}
    /\ tab \in [Tabs -> Tab]
    /\ lineCommit \in Books
    /\ cancelled \in BOOLEAN
    /\ tx \in [Ids -> TxFates]

\* A record that validateRecord accepts, whose last operation at most is
\* unsettled and which kept every snapshot that recovery may still need.
RecordOK(record) ==
    /\ record \in Seq(Operation) /\ Len(record) <= MAX_JOURNAL_OPERATIONS
    /\ \A i \in 1 .. Len(record) :
          /\ i < Len(record) => Settled(record[i])
          /\ ~Settled(record[i]) \/ i \in latestConfirmedOperation(record) =>
                record[i].snapshot # {}
          /\ record[i].acknowledged => record[i].status = "confirmed"

\* The operation took effect: by its own transaction, or as a public effect.
Happened(i) ==
    \/ tx[i] = "succeeded"
    \/ ops[i].kind = "bookTransition" /\ tx[i] = "partial"
    \/ ops[i].kind = "expireNote" /\ cancelled

\* Status by status, what is known of the transaction; nothing is on its way
\* for an operation that does not exist yet, and the line holds a book of this
\* journal only after the transaction that brought it.
TruthOK ==
    /\ \A i \in 1 .. Len(ops) :
          /\ ops[i].status = "prepared" => tx[i] = "none"
          /\ ops[i].status = "rejected" => tx[i] \in {"none", "failed"}
          /\ ops[i].status = "confirmed" => Happened(i)
    /\ \A i \in Ids : i > Len(ops) => tx[i] = "none"
    /\ lineCommit \in Ids => tx[lineCommit] \in {"succeeded", "partial"}

\* What the holder of the lease knows of the last operation at its step.
Knows(volatile) ==
    LET pc == volatile.pc
        last(status) == current > 0 /\ ops[current].status = status
    IN  /\ pc = "ready" => volatile.goal # "unlock"
        /\ pc = "settle" =>
              /\ current > 0
              /\ volatile.finding = "receiptFailure" => tx[current] = "failed"
              /\ volatile.finding # "receiptFailure" => Happened(current)
        /\ pc = "prepared" => last("prepared")
        /\ pc \in attemptPending => last("submitting") /\ tx[current] = "none"
        /\ pc = "submitted" => last("submitting")
        /\ pc \in {"confirmed", "mirrored"} => last("confirmed")

HolderOK == \A t \in Tabs : lease = t => Knows(tab[t])

ConsoleInv == ConsoleTypeOK /\ RecordOK(ops) /\ TruthOK /\ HolderOK

-----------------------------------------------------------------------------
(***************************************************************************)
(* The record                                                              *)
(***************************************************************************)
LEMMA RecordFacts ==
    ASSUME NEW record, RecordOK(record)
    PROVE  /\ Len(record) \in Nat /\ DOMAIN record = 1 .. Len(record)
           /\ Len(record) \in 0 .. MAX_JOURNAL_OPERATIONS
           /\ record \in [1 .. Len(record) -> Operation]
           /\ \A i \in 1 .. Len(record) : record[i] \in Operation
<1>1. record \in Seq(Operation)
    BY DEF RecordOK
<1>2. /\ Len(record) \in Nat /\ record \in [1 .. Len(record) -> Operation]
      /\ DOMAIN record = 1 .. Len(record)
    BY <1>1, LenProperties
<1> QED
    BY <1>2, JournalAssumption DEF RecordOK

\* A write keeps everything of the record but snapshots that nobody needs.
LEMMA Written ==
    ASSUME NEW record, RecordOK(record), write(record)
    PROVE  /\ RecordOK(ops)' /\ Len(ops)' = Len(record)
           /\ \A i \in 1 .. Len(record) :
                 /\ ops'[i].kind = record[i].kind
                 /\ ops'[i].status = record[i].status
<1>1. /\ Len(record) \in Nat /\ DOMAIN record = 1 .. Len(record)
      /\ record \in [1 .. Len(record) -> Operation]
      /\ \A i \in 1 .. Len(record) : record[i] \in Operation
    BY RecordFacts
<1>2. /\ DOMAIN ops' = 1 .. Len(record)
      /\ \A i \in 1 .. Len(record) :
            ops'[i] = IF compactable(record, i) THEN [record[i] EXCEPT !.snapshot = {}]
                      ELSE record[i]
    BY <1>1 DEF write
<1>3. \A i \in 1 .. Len(record) :
          /\ ops'[i] \in Operation
          /\ ops'[i].kind = record[i].kind /\ ops'[i].status = record[i].status
          /\ ops'[i].acknowledged = record[i].acknowledged
          /\ ~compactable(record, i) => ops'[i].snapshot = record[i].snapshot
    BY <1>1, <1>2 DEF Operation
<1>4. ops' \in [1 .. Len(record) -> Operation]
    <2>1. ops' = [i \in 1 .. Len(record) |-> ops'[i]]
        BY <1>1 DEF write
    <2> QED
        BY <1>3, <2>1
<1>5. ops' \in Seq(Operation) /\ Len(ops') = Len(record)
    BY <1>1, <1>4, SeqDef, LenProperties
<1>6. latestConfirmedOperation(ops') = latestConfirmedOperation(record)
    BY <1>1, <1>2, <1>3 DEF latestConfirmedOperation, confirmedIds
<1>7. \A i \in 1 .. Len(record) : Settled(ops'[i]) <=> Settled(record[i])
    BY <1>3 DEF Settled
<1>8. ASSUME NEW i \in 1 .. Len(record)
      PROVE  /\ i < Len(record) => Settled(ops'[i])
             /\ ~Settled(ops'[i]) \/ i \in latestConfirmedOperation(ops') =>
                   ops'[i].snapshot # {}
             /\ ops'[i].acknowledged => ops'[i].status = "confirmed"
    BY <1>3, <1>6, <1>7 DEF RecordOK, compactable
<1> QED
    BY <1>3, <1>5, <1>8 DEF RecordOK

\* The last operation changes: it was unsettled, or is the latest confirmed one.
LEMMA Replaced ==
    ASSUME RecordOK(ops), NEW i \in 1 .. Len(ops), NEW o \in Operation, NEW record,
           record \in Seq(Operation), Len(record) = Len(ops), record[i] = o,
           \A j \in 1 .. Len(ops) : j # i => record[j] = ops[j],
           o.snapshot = ops[i].snapshot,
           ~Settled(ops[i]) \/ i \in latestConfirmedOperation(ops),
           i < Len(ops) => Settled(o),
           o.acknowledged => o.status = "confirmed",
           ops[i].status = "confirmed" => o.status = "confirmed"
    PROVE  RecordOK(record)
<1>1. Len(ops) \in Nat /\ DOMAIN ops = 1 .. Len(ops) /\ DOMAIN record = 1 .. Len(ops)
    BY RecordFacts, LenProperties
<1>2. ASSUME NEW j \in latestConfirmedOperation(record), j # i
      PROVE  j \in latestConfirmedOperation(ops)
    BY <1>1, <1>2 DEF latestConfirmedOperation, confirmedIds
<1>3. ASSUME NEW j \in 1 .. Len(ops)
      PROVE  /\ j < Len(ops) => Settled(record[j])
             /\ ~Settled(record[j]) \/ j \in latestConfirmedOperation(record) =>
                   record[j].snapshot # {}
             /\ record[j].acknowledged => record[j].status = "confirmed"
    <2>1. CASE j = i
        BY <2>1 DEF RecordOK
    <2>2. CASE j # i
        BY <1>2, <2>2 DEF RecordOK
    <2> QED
        BY <2>1, <2>2
<1> QED
    BY <1>3 DEF RecordOK

\* Only the last operation can be pending; whatever is not settled is the last.
LEMMA PendingIsLast ==
    ASSUME RecordOK(ops), NEW i \in 1 .. Len(ops), ~Settled(ops[i])
    PROVE  i = current /\ current > 0 /\ ~ops[i].acknowledged
<1> QED
    BY RecordFacts DEF RecordOK, Settled, current

LEMMA PendingUnsettled ==
    ASSUME RecordOK(ops), NEW i \in Pending(ops)
    PROVE  i \in 1 .. Len(ops) /\ ~Settled(ops[i]) /\ ops[i].status # "confirmed"
<1> QED
    BY RecordFacts DEF Pending, Settled, Unresolved

\* A new status of the last operation.
LEMMA StatusWritten ==
    ASSUME RecordOK(ops), NEW i \in 1 .. Len(ops), ~Settled(ops[i]),
           NEW s \in {"prepared", "submitting", "uncertain", "confirmed", "rejected"},
           ops[i].status # "confirmed",
           write([ops EXCEPT ![i].status = s])
    PROVE  /\ RecordOK(ops)' /\ Len(ops)' = Len(ops) /\ i = current
           /\ ops'[i].status = s
           /\ \A j \in 1 .. Len(ops) : /\ ops'[j].kind = ops[j].kind
                                       /\ j # i => ops'[j].status = ops[j].status
<1> DEFINE o == [ops[i] EXCEPT !.status = s]
           record == [ops EXCEPT ![i].status = s]
<1>1. ops[i] \in Operation
    BY RecordFacts
<1>2. /\ o \in Operation /\ o.snapshot = ops[i].snapshot /\ o.status = s
      /\ o.acknowledged = ops[i].acknowledged /\ o.kind = ops[i].kind
    BY <1>1 DEF Operation
<1>3. i = current /\ ~ops[i].acknowledged
    BY PendingIsLast
<1>4. /\ record \in Seq(Operation) /\ Len(record) = Len(ops) /\ record[i] = o
      /\ \A j \in 1 .. Len(ops) : j # i => record[j] = ops[j]
    BY <1>2, ExceptSeq DEF RecordOK
<1> HIDE DEF o, record
<1>5. RecordOK(record)
    <2>1. i = Len(ops) /\ Len(ops) \in Nat
        BY <1>3, RecordFacts DEF current
    <2>2. /\ i < Len(ops) => Settled(o)
          /\ o.acknowledged => o.status = "confirmed"
          /\ ops[i].status = "confirmed" => o.status = "confirmed"
        BY <1>2, <1>3, <2>1
    <2> QED
        BY <1>2, <1>4, <2>2, Replaced
<1>6. write(record)
    BY DEF record
<1> QED
    BY <1>2, <1>3, <1>4, <1>5, <1>6, Written

\* A flag of an operation is set.
LEMMA FlagWritten ==
    ASSUME RecordOK(ops), NEW i \in 1 .. Len(ops),
           \/ ~Settled(ops[i]) /\ write([ops EXCEPT ![i].transactionId = TRUE])
           \/ /\ ops[i].status = "confirmed"
              /\ i = current \/ i \in latestConfirmedOperation(ops)
              /\ write([ops EXCEPT ![i].acknowledged = TRUE])
    PROVE  /\ RecordOK(ops)' /\ Len(ops)' = Len(ops)
           /\ \A j \in 1 .. Len(ops) : /\ ops'[j].kind = ops[j].kind
                                       /\ ops'[j].status = ops[j].status
<1>1. ops[i] \in Operation /\ Len(ops) \in Nat /\ DOMAIN ops = 1 .. Len(ops)
    BY RecordFacts
<1>2. PICK o :
          /\ write([ops EXCEPT ![i] = o])
          /\ \/ ~Settled(ops[i]) /\ o = [ops[i] EXCEPT !.transactionId = TRUE]
             \/ /\ ops[i].status = "confirmed"
                /\ i = current \/ i \in latestConfirmedOperation(ops)
                /\ o = [ops[i] EXCEPT !.acknowledged = TRUE]
    <2>1. CASE ~Settled(ops[i]) /\ write([ops EXCEPT ![i].transactionId = TRUE])
        BY <2>1
    <2>2. CASE /\ ops[i].status = "confirmed"
               /\ i = current \/ i \in latestConfirmedOperation(ops)
               /\ write([ops EXCEPT ![i].acknowledged = TRUE])
        BY <2>2
    <2> QED
        BY <2>1, <2>2
<1>3. /\ o \in Operation /\ o.snapshot = ops[i].snapshot /\ o.status = ops[i].status
      /\ o.kind = ops[i].kind
      /\ o.acknowledged # ops[i].acknowledged => ops[i].status = "confirmed" /\ o.acknowledged
    BY <1>1, <1>2 DEF Operation
<1>4. ~Settled(ops[i]) \/ i \in latestConfirmedOperation(ops)
    BY <1>1, <1>2 DEF latestConfirmedOperation, confirmedIds, current
<1>5. i < Len(ops) => Settled(o)
    BY <1>1, <1>2, <1>3 DEF RecordOK, Settled
<1>6. /\ o.acknowledged => o.status = "confirmed"
      /\ ops[i].status = "confirmed" => o.status = "confirmed"
    BY <1>3 DEF RecordOK
<1> DEFINE record == [ops EXCEPT ![i] = o]
<1>7. /\ record \in Seq(Operation) /\ Len(record) = Len(ops) /\ record[i] = o
      /\ \A j \in 1 .. Len(ops) : j # i => record[j] = ops[j]
    BY <1>3, ExceptSeq DEF RecordOK
<1>8. write(record)
    BY <1>2
<1> HIDE DEF record
<1>9. RecordOK(record)
    BY <1>3, <1>4, <1>5, <1>6, <1>7, Replaced
<1> QED
    BY <1>3, <1>7, <1>8, <1>9, Written

-----------------------------------------------------------------------------
(***************************************************************************)
(* The kinds of step                                                       *)
(***************************************************************************)
\* Only tab t changes its volatile state, to a proper one.
Moves(t) == tab' \in [Tabs -> Tab] /\ \A u \in Tabs : u # t => tab'[u] = tab[u]

\* Steps at which the holder of the lease knows nothing of the last operation.
Ignorant(volatile) == volatile.pc \in {"idle", "waitLock", "reconcile", "restored", "loadMirror"}

LEMMA IgnorantKnows ==
    ASSUME NEW t \in Tabs, Ignorant(tab[t])'
    PROVE  Knows(tab[t])'
<1> QED
    BY DEF Ignorant, Knows, attemptPending

LEMMA ConsoleInit == Init => ConsoleInv
<1> SUFFICES ASSUME Init PROVE ConsoleInv
    OBVIOUS
<1> USE JournalAssumption
<1>1. Locked \in Tab
    BY DEF Locked, Tab, Books, Foreign
<1>2. ConsoleTypeOK
    <2>1. 0 \in Books
        BY DEF Books, Foreign
    <2> QED
        BY <1>1, <2>1 DEF Init, ConsoleTypeOK, TxFates
<1>3. ops \in Seq(Operation) /\ Len(ops) = 0
    BY EmptySeq DEF Init
<1>4. RecordOK(ops)
    BY <1>3 DEF RecordOK
<1>5. TruthOK
    BY <1>3 DEF Init, TruthOK, Ids
<1>6. HolderOK
    BY DEF Init, HolderOK
<1> QED
    BY <1>2, <1>4, <1>5, <1>6 DEF ConsoleInv

\* A step of one tab that leaves journal and chain alone.
LEMMA VolatileStep ==
    ASSUME ConsoleInv, NEW t \in Tabs, Moves(t), mirror' \in Books,
           lease' \in {lease, NoTab, t}, lease' = t => Knows(tab[t])',
           UNCHANGED <<ops, chain>>
    PROVE  ConsoleInv'
<1>1. ConsoleTypeOK' /\ RecordOK(ops)' /\ TruthOK'
    BY DEF ConsoleInv, ConsoleTypeOK, RecordOK, TruthOK, Happened, Moves, chain
<1>2. \A u \in Tabs : tab'[u] = tab[u] /\ Knows(tab[u]) => Knows(tab[u])'
    BY DEF Knows, Happened, chain, current
<1>3. \A u \in Tabs : lease' = u /\ u # t => lease = u /\ tab'[u] = tab[u]
    BY JournalAssumption DEF Moves
<1>4. HolderOK'
    BY <1>2, <1>3 DEF HolderOK, ConsoleInv
<1> QED
    BY <1>1, <1>4 DEF ConsoleInv

\* A step of the holder that writes the journal: what is said of the last
\* operation afterwards is true.
LEMMA JournalStep ==
    ASSUME ConsoleInv, NEW t \in Tabs, lease = t, Moves(t), lease' \in {t, NoTab},
           RecordOK(ops)', Len(ops)' \in {current, current + 1},
           \A i \in 1 .. Len(ops) : ops'[i].kind = ops[i].kind,
           \A i \in 1 .. Len(ops)' : i < Len(ops)' => ops'[i].status = ops[i].status,
           Len(ops)' > 0 =>
              LET status == ops'[Len(ops)'].status IN
              /\ status = "prepared" => tx[Len(ops)'] = "none"
              /\ status = "rejected" => tx[Len(ops)'] \in {"none", "failed"}
              /\ status = "confirmed" => Happened(Len(ops))',
           lease' = t => Knows(tab[t])',
           UNCHANGED <<mirror, chain>>
    PROVE  ConsoleInv'
<1>1. ConsoleTypeOK'
    BY DEF ConsoleInv, ConsoleTypeOK, Moves, chain
<1>2. Len(ops) \in Nat /\ Len(ops)' \in Nat
    BY RecordFacts DEF ConsoleInv, current
<1>3. ASSUME NEW i \in 1 .. Len(ops)'
      PROVE  /\ ops'[i].status = "prepared" => tx'[i] = "none"
             /\ ops'[i].status = "rejected" => tx'[i] \in {"none", "failed"}
             /\ ops'[i].status = "confirmed" => Happened(i)'
    <2>1. CASE i = Len(ops)'
        BY <1>2, <2>1 DEF chain
    <2>2. CASE i # Len(ops)'
        <3>1. i \in 1 .. Len(ops) /\ ops'[i].status = ops[i].status /\ ops'[i].kind = ops[i].kind
            BY <1>2, <2>2 DEF current
        <3> QED
            BY <3>1 DEF ConsoleInv, TruthOK, Happened, chain
    <2> QED
        BY <2>1, <2>2
<1>4. TruthOK'
    BY <1>2, <1>3 DEF ConsoleInv, TruthOK, chain, current, Ids
<1>5. HolderOK'
    BY JournalAssumption DEF HolderOK
<1> QED
    BY <1>1, <1>4, <1>5 DEF ConsoleInv

\* The transaction of operation i gets another fate: the holder or the network.
\* Final fates stay, and what the journal says of i stays true.
LEMMA FateStep ==
    ASSUME ConsoleInv, NEW t \in Tabs \cup {NoTab}, NEW i \in Ids,
           i <= Len(ops),
           tx' \in [Ids -> TxFates], \A j \in Ids : j # i => tx'[j] = tx[j],
           tx[i] \in {"none", "pool"},
           ops[i].status \notin {"prepared", "rejected"},
           lineCommit' \in Books, cancelled' \in BOOLEAN, cancelled => cancelled',
           lineCommit' \in Ids /\ lineCommit' # lineCommit =>
              lineCommit' = i /\ tx'[i] \in {"succeeded", "partial"},
           ops[i].status = "confirmed" => tx[i] = "pool",
           Moves(t), lease' = lease, t \in Tabs /\ lease = t => Knows(tab[t])',
           lease # t /\ lease \in Tabs => tx[i] = "pool",
           UNCHANGED <<ops, mirror>>
    PROVE  ConsoleInv'
<1>1. ConsoleTypeOK' /\ RecordOK(ops)'
    BY DEF ConsoleInv, ConsoleTypeOK, Moves, RecordOK
<1>2. Len(ops) \in Nat
    BY RecordFacts DEF ConsoleInv
<1>3. ASSUME NEW j \in 1 .. Len(ops), j \in Ids, Happened(j)
      PROVE  Happened(j)'
    BY <1>3 DEF Happened
<1>4. \A j \in 1 .. Len(ops) : j \in Ids
    BY <1>2, RecordFacts, JournalAssumption DEF ConsoleInv, Ids
<1>5. TruthOK'
    <2>1. \A j \in 1 .. Len(ops) :
              /\ ops[j].status = "prepared" => tx'[j] = "none"
              /\ ops[j].status = "rejected" => tx'[j] \in {"none", "failed"}
              /\ ops[j].status = "confirmed" => Happened(j)'
        BY <1>3, <1>4 DEF ConsoleInv, TruthOK
    <2>2. \A j \in Ids : j > Len(ops) => tx'[j] = "none"
        BY <1>2 DEF ConsoleInv, TruthOK, Ids
    <2>3. lineCommit' \in Ids => tx'[lineCommit'] \in {"succeeded", "partial"}
        BY DEF ConsoleInv, TruthOK
    <2> QED
        BY <2>1, <2>2, <2>3 DEF TruthOK
<1>6. ASSUME NEW u \in Tabs, lease' = u
      PROVE  Knows(tab[u])'
    <2>1. CASE u = t
        BY <1>6, <2>1
    <2>2. CASE u # t
        <3>1. tab'[u] = tab[u] /\ Knows(tab[u]) /\ tx[i] = "pool"
            BY <1>6, <2>2 DEF Moves, ConsoleInv, HolderOK
        <3>2. current \in Nat /\ (current > 0 => current \in Ids /\ current \in 1 .. Len(ops))
            BY <1>2, <1>4 DEF current
        <3>3. current > 0 /\ tx[current] \in {"none", "failed"} => tx'[current] = tx[current]
            BY <3>1, <3>2
        <3>4. current > 0 /\ Happened(current) => Happened(current)'
            BY <1>3, <3>2 DEF current
        <3> QED
            BY <3>1, <3>3, <3>4 DEF Knows, current
    <2> QED
        BY <2>1, <2>2
<1> QED
    BY <1>1, <1>5, <1>6 DEF ConsoleInv, HolderOK

-----------------------------------------------------------------------------
(***************************************************************************)
(* Volatile states                                                         *)
(***************************************************************************)
\* What a tab knows depends on its step, its goal and its finding.
LEMMA KnowsSame ==
    ASSUME NEW t \in Tabs, tab'[t].pc = tab[t].pc, tab'[t].goal = tab[t].goal,
           tab'[t].finding = tab[t].finding, UNCHANGED <<ops, chain>>, Knows(tab[t])
    PROVE  Knows(tab[t])'
<1> QED
    BY DEF Knows, Happened, chain, current

LEMMA TabType ==
    ASSUME ConsoleTypeOK, NEW t \in Tabs
    PROVE  /\ tab[t] \in Tab /\ tab[t].memory \in Books
           /\ tab[t].goal \in Kinds \cup {"unlock"}
           /\ tab[t] = [pc |-> tab[t].pc, unlocked |-> tab[t].unlocked,
                        revoked |-> tab[t].revoked, memory |-> tab[t].memory,
                        goal |-> tab[t].goal, finding |-> tab[t].finding]
           /\ Locked \in Tab /\ 0 \in Books
<1>1. tab[t] \in Tab
    BY DEF ConsoleTypeOK
<1>2. 0 \in Books
    BY JournalAssumption DEF Books, Foreign
<1> QED
    BY <1>1, <1>2 DEF Tab, Locked

LEMMA GoToFacts ==
    ASSUME ConsoleTypeOK, NEW t \in Tabs, NEW pc, GoTo(t, pc),
           pc \in {"reconcile", "loadMirror", "ready", "prepared", "marked", "proved",
                   "recorded", "submitted", "confirmed", "mirrored"}
    PROVE  /\ Moves(t) /\ tab'[t].pc = pc /\ tab'[t].goal = tab[t].goal
           /\ tab'[t].finding = tab[t].finding
<1>1. tab[t] \in Tab /\ tab \in [Tabs -> Tab]
    BY DEF ConsoleTypeOK
<1>2. [tab[t] EXCEPT !.pc = pc] \in Tab
    BY <1>1 DEF Tab
<1>3. tab' = [tab EXCEPT ![t] = [tab[t] EXCEPT !.pc = pc]]
    BY DEF GoTo
<1> QED
    BY <1>1, <1>2, <1>3 DEF Moves, Tab

LEMMA LeaveFacts ==
    ASSUME ConsoleTypeOK, NEW t \in Tabs, NEW volatile \in Tab, Leave(t, volatile)
    PROVE  /\ Moves(t) /\ Ignorant(tab[t])'
           /\ lease' \in {lease, NoTab} /\ lease' # t
<1>1. tab \in [Tabs -> Tab]
    BY DEF ConsoleTypeOK
<1>2. PICK v : v = AtRest(volatile)
    OBVIOUS
<1>3. v = [pc |-> "idle", unlocked |-> volatile.unlocked, revoked |-> FALSE,
           memory |-> volatile.memory, goal |-> "unlock", finding |-> "none"]
    BY <1>2 DEF AtRest, Tab
<1>4. v \in Tab
    BY <1>3 DEF Tab
<1>5. tab' = [tab EXCEPT ![t] = v]
    BY <1>2 DEF Leave
<1>6. Moves(t) /\ tab'[t] = v
    BY <1>1, <1>4, <1>5 DEF Moves
<1>7. Ignorant(tab[t])'
    BY <1>3, <1>6 DEF Ignorant
<1>8. lease' \in {lease, NoTab} /\ lease' # t
    BY JournalAssumption DEF Leave, Release
<1> QED
    BY <1>6, <1>7, <1>8

LEMMA LeaveStep ==
    ASSUME ConsoleInv, NEW t \in Tabs, NEW volatile \in Tab, Leave(t, volatile),
           UNCHANGED <<ops, mirror, chain>>
    PROVE  ConsoleInv'
<1>1. mirror' \in Books
    BY DEF ConsoleInv, ConsoleTypeOK
<1> QED
    BY <1>1, LeaveFacts, VolatileStep DEF ConsoleInv

\* Sessions and the lease: nothing of the journal moves.
LEMMA SessionStep ==
    ASSUME ConsoleInv, NEW t \in Tabs,
           \/ BeginUnlock(t) \/ (\E kind \in Kinds : BeginMutation(t, kind))
           \/ AcquireLease(t) \/ LockVault(t) \/ Crash(t) \/ Throw(t)
    PROVE  ConsoleInv'
<1> USE DEF ConsoleInv
<1>0. /\ tab \in [Tabs -> Tab] /\ mirror \in Books
      /\ tab[t] \in Tab /\ Locked \in Tab
    BY TabType DEF ConsoleTypeOK
<1>1. CASE BeginUnlock(t)
    <2>1. PICK v : v = [Locked EXCEPT !.pc = "waitLock", !.unlocked = TRUE]
        OBVIOUS
    <2>2. v = [pc |-> "waitLock", unlocked |-> TRUE, revoked |-> FALSE, memory |-> 0,
               goal |-> "unlock", finding |-> "none"]
        BY <2>1 DEF Locked
    <2>3. v \in Tab
        BY <2>2, TabType DEF Tab
    <2>4. Moves(t) /\ Ignorant(tab[t])'
        BY <1>0, <1>1, <2>1, <2>2, <2>3 DEF BeginUnlock, Moves, Ignorant
    <2> QED
        BY <1>0, <1>1, <2>4, IgnorantKnows, VolatileStep DEF BeginUnlock
<1>2. ASSUME NEW kind \in Kinds, BeginMutation(t, kind)
      PROVE  ConsoleInv'
    <2>1. PICK v : v = [tab[t] EXCEPT !.pc = "waitLock", !.goal = kind, !.revoked = FALSE]
        OBVIOUS
    <2>2. v = [pc |-> "waitLock", unlocked |-> tab[t].unlocked, revoked |-> FALSE,
               memory |-> tab[t].memory, goal |-> kind, finding |-> tab[t].finding]
        BY <1>0, <2>1 DEF Tab
    <2>3. v \in Tab
        BY <1>0, <2>2, TabType DEF Tab
    <2>4. tab' = [tab EXCEPT ![t] = v]
        BY <1>2, <2>1 DEF BeginMutation
    <2>5. Moves(t) /\ Ignorant(tab[t])'
        BY <1>0, <2>2, <2>3, <2>4 DEF Moves, Ignorant
    <2> QED
        BY <1>0, <1>2, <2>5, IgnorantKnows, VolatileStep DEF BeginMutation
<1>3. CASE AcquireLease(t)
    <2>1. Moves(t) /\ tab'[t].pc = "reconcile"
        BY <1>3, GoToFacts DEF AcquireLease
    <2> QED
        BY <1>0, <1>3, <2>1, IgnorantKnows, VolatileStep DEF AcquireLease, Ignorant
<1>4. CASE LockVault(t)
    <2>0. PICK b \in BOOLEAN : b = (tab[t].pc # "idle")
        OBVIOUS
    <2>1. PICK v : v = [tab[t] EXCEPT !.unlocked = FALSE, !.memory = 0, !.revoked = b]
        OBVIOUS
    <2>2. v = [pc |-> tab[t].pc, unlocked |-> FALSE, revoked |-> b,
               memory |-> 0, goal |-> tab[t].goal, finding |-> tab[t].finding]
        BY <1>0, <2>1 DEF Tab
    <2>3. v \in Tab
        BY <1>0, <2>2, TabType DEF Tab
    <2>4. tab' = [tab EXCEPT ![t] = v]
        BY <1>4, <2>0, <2>1 DEF LockVault
    <2>5. Moves(t) /\ tab'[t] = v
        BY <1>0, <2>3, <2>4 DEF Moves
    <2>6. ASSUME lease = t
          PROVE  Knows(tab[t])'
        <3>1. Knows(tab[t])
            BY <2>6 DEF HolderOK
        <3>2. /\ tab'[t].pc = tab[t].pc /\ tab'[t].goal = tab[t].goal
              /\ tab'[t].finding = tab[t].finding
            BY <2>2, <2>5
        <3>3. UNCHANGED <<ops, chain>>
            BY <1>4 DEF LockVault
        <3> QED
            BY <3>1, <3>2, <3>3, KnowsSame
    <2> QED
        BY <1>0, <1>4, <2>5, <2>6, VolatileStep DEF LockVault
<1>5. CASE Crash(t)
    BY <1>0, <1>5, LeaveStep DEF Crash
<1>6. CASE Throw(t)
    <2>1. PICK v : v = IF tab[t].goal = "unlock" THEN Locked ELSE tab[t]
        OBVIOUS
    <2>2. v \in Tab /\ Leave(t, v)
        BY <1>0, <1>6, <2>1 DEF Throw
    <2> QED
        BY <1>6, <2>2, LeaveStep DEF Throw
<1> QED
    BY <1>1, <1>2, <1>3, <1>4, <1>5, <1>6

-----------------------------------------------------------------------------
(***************************************************************************)
(* Writes of the journal by the holder of the lease                        *)
(***************************************************************************)
LEMMA StatusStep ==
    ASSUME ConsoleInv, NEW t \in Tabs, lease = t, Moves(t), lease' \in {t, NoTab},
           NEW i \in 1 .. Len(ops), ~Settled(ops[i]), ops[i].status # "confirmed",
           NEW s \in {"submitting", "uncertain", "confirmed", "rejected"},
           write([ops EXCEPT ![i].status = s]),
           s = "rejected" => tx[i] \in {"none", "failed"},
           s = "confirmed" => Happened(i),
           lease' = t => Knows(tab[t])',
           UNCHANGED <<mirror, chain>>
    PROVE  ConsoleInv'
<1>1. /\ RecordOK(ops)' /\ Len(ops)' = Len(ops) /\ i = current
      /\ ops'[i].status = s
      /\ \A j \in 1 .. Len(ops) : /\ ops'[j].kind = ops[j].kind
                                  /\ j # i => ops'[j].status = ops[j].status
    BY StatusWritten DEF ConsoleInv
<1>2. Len(ops) \in Nat
    BY RecordFacts DEF ConsoleInv
<1>3. \A j \in 1 .. Len(ops)' : j < Len(ops)' => ops'[j].status = ops[j].status
    BY <1>1, <1>2 DEF current
<1>4. Happened(i) => Happened(i)'
    BY <1>1 DEF Happened, chain
<1>5. LET status == ops'[Len(ops)'].status IN
      /\ status = "prepared" => tx[Len(ops)'] = "none"
      /\ status = "rejected" => tx[Len(ops)'] \in {"none", "failed"}
      /\ status = "confirmed" => Happened(Len(ops))'
    BY <1>1, <1>4 DEF current
<1> QED
    BY <1>1, <1>3, <1>5, JournalStep DEF current

LEMMA FlagStep ==
    ASSUME ConsoleInv, NEW t \in Tabs, lease = t, Moves(t), lease' \in {t, NoTab},
           NEW i \in 1 .. Len(ops),
           \/ ~Settled(ops[i]) /\ write([ops EXCEPT ![i].transactionId = TRUE])
           \/ /\ ops[i].status = "confirmed"
              /\ i = current \/ i \in latestConfirmedOperation(ops)
              /\ write([ops EXCEPT ![i].acknowledged = TRUE]),
           lease' = t => Knows(tab[t])',
           UNCHANGED <<mirror, chain>>
    PROVE  ConsoleInv'
<1>1. /\ RecordOK(ops)' /\ Len(ops)' = Len(ops)
      /\ \A j \in 1 .. Len(ops) : /\ ops'[j].kind = ops[j].kind
                                  /\ ops'[j].status = ops[j].status
    BY FlagWritten DEF ConsoleInv
<1>2. Len(ops) \in Nat
    BY RecordFacts DEF ConsoleInv
<1>3. \A j \in 1 .. Len(ops) : Happened(j) => Happened(j)'
    BY <1>1 DEF Happened, chain
<1>4. ASSUME Len(ops)' > 0
      PROVE  LET status == ops'[Len(ops)'].status IN
             /\ status = "prepared" => tx[Len(ops)'] = "none"
             /\ status = "rejected" => tx[Len(ops)'] \in {"none", "failed"}
             /\ status = "confirmed" => Happened(Len(ops))'
    <2>1. Len(ops) \in 1 .. Len(ops)
        BY <1>1, <1>2, <1>4
    <2> QED
        BY <1>1, <1>3, <2>1 DEF ConsoleInv, TruthOK
<1> QED
    BY <1>1, <1>2, <1>4, JournalStep DEF current

\* The volatile state of a tab after a step of its recovery.
LEMMA FindingFacts ==
    ASSUME ConsoleTypeOK, NEW t \in Tabs,
           NEW pc \in {"reconcile", "settle"},
           NEW f \in {"none", "receiptSuccess", "receiptFailure", "observed"},
           tab' = [tab EXCEPT ![t].pc = pc, ![t].finding = f]
    PROVE  Moves(t) /\ tab'[t].pc = pc /\ tab'[t].finding = f
<1>1. tab[t] \in Tab /\ tab \in [Tabs -> Tab]
    BY DEF ConsoleTypeOK
<1>2. PICK v : v = [tab[t] EXCEPT !.pc = pc, !.finding = f]
    OBVIOUS
<1>3. v = [pc |-> pc, unlocked |-> tab[t].unlocked, revoked |-> tab[t].revoked,
           memory |-> tab[t].memory, goal |-> tab[t].goal, finding |-> f]
    BY <1>1, <1>2 DEF Tab
<1>4. v \in Tab
    BY <1>1, <1>3, TabType DEF Tab
<1>5. tab' = [tab EXCEPT ![t] = v]
    BY <1>2
<1> QED
    BY <1>1, <1>3, <1>4, <1>5 DEF Moves

-----------------------------------------------------------------------------
(***************************************************************************)
(* Recovery                                                                *)
(***************************************************************************)
LEMMA PendingFacts ==
    ASSUME ConsoleInv, NEW i \in Pending(ops)
    PROVE  /\ i \in 1 .. Len(ops) /\ i = current /\ current > 0
           /\ ~Settled(ops[i]) /\ ops[i].status # "confirmed"
<1> QED
    BY PendingUnsettled, PendingIsLast DEF ConsoleInv

LEMMA LatestFacts ==
    ASSUME NEW i \in latestConfirmedOperation(ops), ConsoleInv
    PROVE  i \in 1 .. Len(ops) /\ ops[i].status = "confirmed"
<1> QED
    BY RecordFacts DEF latestConfirmedOperation, confirmedIds, ConsoleInv

LEMMA AbandonStep ==
    ASSUME ConsoleInv, NEW t \in Tabs, AbandonPrepared(t)
    PROVE  ConsoleInv'
<1>1. PICK i \in Pending(ops) :
          ops[i].status = "prepared" /\ write([ops EXCEPT ![i].status = "rejected"])
    BY DEF AbandonPrepared
<1>2. i \in 1 .. Len(ops) /\ ~Settled(ops[i]) /\ ops[i].status # "confirmed"
    BY PendingFacts
<1>3. tx[i] = "none"
    BY <1>1, <1>2 DEF ConsoleInv, TruthOK
<1>4. Moves(t) /\ lease = t /\ lease' = t /\ Ignorant(tab[t])' /\ UNCHANGED <<mirror, chain>>
    BY DEF AbandonPrepared, Holds, Moves, Ignorant, ConsoleInv, ConsoleTypeOK
<1> QED
    BY <1>1, <1>2, <1>3, <1>4, IgnorantKnows, StatusStep

LEMMA ObserveStep ==
    ASSUME ConsoleInv, NEW t \in Tabs, ObserveReceipt(t) \/ ObserveEvidence(t)
    PROVE  ConsoleInv'
<1>1. PICK i \in Pending(ops), f \in {"receiptSuccess", "receiptFailure", "observed"} :
          /\ tab' = [tab EXCEPT ![t].pc = "settle", ![t].finding = f]
          /\ f = "receiptFailure" => tx[i] = "failed"
          /\ f # "receiptFailure" => Happened(i)
    <2>1. CASE ObserveReceipt(t)
        <3>1. PICK i \in Pending(ops) :
                  /\ receiptFinding(i) # "none"
                  /\ tab' = [tab EXCEPT ![t].pc = "settle", ![t].finding = receiptFinding(i)]
            BY <2>1 DEF ObserveReceipt
        <3>2. CASE tx[i] = "succeeded"
            BY <3>1, <3>2 DEF receiptFinding, Happened
        <3>3. CASE tx[i] = "failed"
            BY <3>1, <3>3 DEF receiptFinding
        <3>4. tx[i] = "succeeded" \/ tx[i] = "failed"
            BY <3>1 DEF receiptFinding
        <3> QED
            BY <3>2, <3>3, <3>4
    <2>2. CASE ObserveEvidence(t)
        <3>1. PICK i \in Pending(ops) :
                  /\ provesExecution(i)
                  /\ tab' = [tab EXCEPT ![t].pc = "settle", ![t].finding = "observed"]
            BY <2>2 DEF ObserveEvidence
        <3>2. i \in 1 .. Len(ops) /\ i \in Ids
            BY PendingFacts, RecordFacts, JournalAssumption DEF ConsoleInv, Ids
        <3>3. candidateObserved(i) => Happened(i)
            BY <3>2 DEF candidateObserved, Happened, ConsoleInv, TruthOK
        <3>4. effectObserved(i) => Happened(i)
            BY DEF effectObserved, Happened
        <3> QED
            BY <3>1, <3>3, <3>4 DEF provesExecution
    <2> QED
        BY <2>1, <2>2
<1>2. Moves(t) /\ tab'[t].pc = "settle" /\ tab'[t].finding = f
    BY <1>1, FindingFacts DEF ConsoleInv
<1>3. i = current /\ current > 0
    BY PendingFacts
<1>4. lease' = lease /\ mirror' \in Books /\ UNCHANGED <<ops, chain>>
    BY DEF ObserveReceipt, ObserveEvidence, ConsoleInv, ConsoleTypeOK
<1>5. Happened(current) => Happened(current)'
    BY <1>4 DEF Happened, chain, current
<1>6. /\ f = "receiptFailure" => tx'[current'] = "failed"
      /\ f # "receiptFailure" => Happened(current)'
    BY <1>1, <1>3, <1>4, <1>5 DEF chain, current
<1>7. Knows(tab[t])'
    BY <1>2, <1>3, <1>4, <1>6 DEF Knows, current, attemptPending
<1> QED
    BY <1>2, <1>4, <1>7, VolatileStep

LEMMA SettleStep ==
    ASSUME ConsoleInv, NEW t \in Tabs, SettlePending(t)
    PROVE  ConsoleInv'
<1>1. PICK s \in {"rejected", "confirmed"} :
          s = IF tab[t].finding = "receiptFailure" THEN "rejected" ELSE "confirmed"
    OBVIOUS
<1>2. PICK i \in Pending(ops) : write([ops EXCEPT ![i].status = s])
    BY <1>1 DEF SettlePending
<1>3. /\ i \in 1 .. Len(ops) /\ i = current /\ ~Settled(ops[i])
      /\ ops[i].status # "confirmed"
    BY PendingFacts
<1>4. /\ lease = t /\ tab[t].pc = "settle" /\ lease' = t /\ UNCHANGED <<mirror, chain>>
      /\ tab' = [tab EXCEPT ![t].pc = "reconcile", ![t].finding = "none"]
    BY DEF SettlePending, Holds
<1>5. /\ s = "rejected" => tx[i] \in {"none", "failed"}
      /\ s = "confirmed" => Happened(i)
    <2>1. Knows(tab[t])
        BY <1>4 DEF ConsoleInv, HolderOK
    <2> QED
        BY <1>1, <1>3, <1>4, <2>1 DEF Knows
<1>6. Moves(t) /\ Ignorant(tab[t])'
    BY <1>4, FindingFacts DEF ConsoleInv, Ignorant
<1> QED
    BY <1>2, <1>3, <1>4, <1>5, <1>6, IgnorantKnows, StatusStep

\* What ends a recovery without a write of the journal.
LEMMA StopStep ==
    ASSUME ConsoleInv, NEW t \in Tabs, Blocked(t) \/ NothingToRestore(t) \/ LoadMirror(t)
    PROVE  ConsoleInv'
<1> USE DEF ConsoleInv
<1>0. tab[t] \in Tab /\ mirror \in Books /\ mirror' = mirror /\ UNCHANGED <<ops, chain>>
    BY TabType DEF Blocked, NothingToRestore, LoadMirror, ConsoleTypeOK
<1>1. ASSUME StopRecovery(t)
      PROVE  ConsoleInv'
    <2>1. CASE tab[t].goal = "unlock"
        <3>1. GoTo(t, "loadMirror") /\ lease' \in {lease, NoTab}
            BY <1>1, <2>1 DEF StopRecovery, Release
        <3>2. Moves(t) /\ Ignorant(tab[t])'
            BY <3>1, GoToFacts DEF Ignorant
        <3> QED
            BY <1>0, <3>1, <3>2, IgnorantKnows, VolatileStep
    <2>2. CASE tab[t].goal # "unlock"
        BY <1>0, <1>1, <2>2, LeaveStep DEF StopRecovery
    <2> QED
        BY <2>1, <2>2
<1>2. CASE Blocked(t)
    BY <1>1, <1>2 DEF Blocked
<1>3. CASE NothingToRestore(t)
    <2>1. CASE tab[t].goal = "unlock"
        BY <1>1, <1>3, <2>1 DEF NothingToRestore
    <2>2. CASE tab[t].goal # "unlock"
        <3>1. GoTo(t, "ready") /\ lease' = lease
            BY <1>3, <2>2 DEF NothingToRestore
        <3>2. Moves(t) /\ tab'[t].pc = "ready" /\ tab'[t].goal # "unlock"
            BY <2>2, <3>1, GoToFacts
        <3>3. Knows(tab[t])'
            BY <3>2 DEF Knows, attemptPending
        <3> QED
            BY <1>0, <3>1, <3>2, <3>3, VolatileStep
    <2> QED
        BY <2>1, <2>2
<1>4. CASE LoadMirror(t)
    <2>1. PICK v : v = [tab[t] EXCEPT !.memory = mirror]
        OBVIOUS
    <2>2. v \in Tab /\ Leave(t, v)
        BY <1>0, <1>4, <2>1 DEF LoadMirror, Tab
    <2> QED
        BY <1>0, <2>2, LeaveStep
<1> QED
    BY <1>2, <1>3, <1>4

LEMMA RestoreStep ==
    ASSUME ConsoleInv, NEW t \in Tabs, RestoreLatest(t)
    PROVE  ConsoleInv'
<1>0. tab[t] \in Tab /\ tab \in [Tabs -> Tab] /\ lineCommit \in Books /\ mirror \in Books
    BY DEF ConsoleInv, ConsoleTypeOK
<1>1. PICK v : v = [tab[t] EXCEPT !.pc = "restored", !.memory = lineCommit]
    OBVIOUS
<1>2. v = [pc |-> "restored", unlocked |-> tab[t].unlocked, revoked |-> tab[t].revoked,
           memory |-> lineCommit, goal |-> tab[t].goal, finding |-> tab[t].finding]
    BY <1>0, <1>1 DEF Tab
<1>3. v \in Tab
    BY <1>0, <1>2, TabType DEF Tab
<1>4. tab' = [tab EXCEPT ![t] = v]
    BY <1>1 DEF RestoreLatest
<1>5. Moves(t) /\ Ignorant(tab[t])'
    BY <1>0, <1>2, <1>3, <1>4 DEF Moves, Ignorant
<1>6. mirror' \in Books /\ lease' = lease /\ UNCHANGED <<ops, chain>>
    BY <1>0 DEF RestoreLatest
<1> QED
    BY <1>5, <1>6, IgnorantKnows, VolatileStep

LEMMA AcknowledgeRestoredStep ==
    ASSUME ConsoleInv, NEW t \in Tabs, AcknowledgeRestored(t)
    PROVE  ConsoleInv'
<1>1. PICK i \in latestConfirmedOperation(ops) : write([ops EXCEPT ![i].acknowledged = TRUE])
    BY DEF AcknowledgeRestored
<1>2. i \in 1 .. Len(ops) /\ ops[i].status = "confirmed"
    BY LatestFacts
<1>3. lease = t /\ UNCHANGED <<mirror, chain>>
    BY DEF AcknowledgeRestored, Holds
<1>4. Moves(t) /\ lease' \in {t, NoTab} /\ (lease' = t => Knows(tab[t])')
    <2>1. CASE tab[t].goal = "unlock"
        <3>1. Leave(t, tab[t]) /\ tab[t] \in Tab
            BY <2>1 DEF AcknowledgeRestored, ConsoleInv, ConsoleTypeOK
        <3> QED
            BY <1>3, <3>1, LeaveFacts DEF ConsoleInv
    <2>2. CASE tab[t].goal # "unlock"
        <3>1. GoTo(t, "ready") /\ lease' = lease
            BY <2>2 DEF AcknowledgeRestored
        <3>2. Moves(t) /\ tab'[t].pc = "ready" /\ tab'[t].goal # "unlock"
            BY <2>2, <3>1, GoToFacts DEF ConsoleInv
        <3>3. Knows(tab[t])'
            BY <3>2 DEF Knows, attemptPending
        <3> QED
            BY <1>3, <3>1, <3>2, <3>3
    <2> QED
        BY <2>1, <2>2
<1> QED
    BY <1>1, <1>2, <1>3, <1>4, FlagStep

LEMMA RecoveryStep ==
    ASSUME ConsoleInv, NEW t \in Tabs, Recovery(t)
    PROVE  ConsoleInv'
<1> QED
    BY AbandonStep, ObserveStep, SettleStep, StopStep, RestoreStep, AcknowledgeRestoredStep
    DEF Recovery

-----------------------------------------------------------------------------
(***************************************************************************)
(* Submission                                                              *)
(***************************************************************************)
\* The last operation as the holder of the lease sees it.
LEMMA HolderKnows ==
    ASSUME ConsoleInv, NEW t \in Tabs, lease = t,
           tab[t].pc \in {"prepared", "marked", "proved", "recorded", "submitted",
                          "confirmed", "mirrored"}
    PROVE  /\ Knows(tab[t]) /\ current > 0 /\ current \in 1 .. Len(ops) /\ current \in Ids
           /\ tab[t].pc \notin {"confirmed", "mirrored"} =>
                 ~Settled(ops[current]) /\ ops[current].status # "confirmed"
<1>1. Knows(tab[t])
    BY DEF ConsoleInv, HolderOK
<1>2. /\ current > 0
      /\ ops[current].status \in {"prepared", "submitting", "confirmed"}
      /\ tab[t].pc \notin {"confirmed", "mirrored"} => ops[current].status # "confirmed"
    BY <1>1 DEF Knows, attemptPending
<1>3. current \in 1 .. Len(ops) /\ current \in Ids
    BY <1>2, RecordFacts, JournalAssumption DEF ConsoleInv, current, Ids
<1> QED
    BY <1>1, <1>2, <1>3 DEF Settled

\* A new operation, prepared.
LEMMA PrepareStep ==
    ASSUME ConsoleInv, NEW t \in Tabs, Prepare(t)
    PROVE  ConsoleInv'
<1> DEFINE n == Len(ops)
<1>1. /\ n \in Nat /\ ops \in Seq(Operation) /\ n < MAX_JOURNAL_OPERATIONS
      /\ n + 1 \in Ids /\ \A i \in 1 .. n : Settled(ops[i])
    BY RecordFacts, JournalAssumption DEF ConsoleInv, RecordOK, Prepare, mayPrepare, Ids
<1>2. Holds(t, "ready") /\ tab[t].goal \in Kinds /\ tab[t].memory \in Books
    BY TabType DEF Prepare, ConsoleInv, HolderOK, Holds, Knows
<1>3. PICK o : o = [kind |-> tab[t].goal, status |-> "prepared", acknowledged |-> FALSE,
                    transactionId |-> FALSE, witness |-> tab[t].memory,
                    snapshot |-> {IF tab[t].goal = "bookTransition" THEN Len(ops) + 1
                                  ELSE tab[t].memory}]
    OBVIOUS
<1>4. o \in Operation /\ o.status = "prepared" /\ o.snapshot # {} /\ ~o.acknowledged
    <2>1. n + 1 \in Books
        BY <1>1, JournalAssumption DEF Ids, Books, Foreign
    <2> QED
        BY <1>2, <1>3, <2>1 DEF Operation
<1>5. PICK record : record = Append(ops, o)
    OBVIOUS
<1>6. /\ record \in Seq(Operation) /\ Len(record) = n + 1 /\ record[n + 1] = o
      /\ \A i \in 1 .. n : record[i] = ops[i]
    BY <1>1, <1>4, <1>5, AppendProperties
<1>7. RecordOK(record)
    <2>1. DOMAIN record = 1 .. n + 1 /\ DOMAIN ops = 1 .. n
        BY <1>1, <1>6, LenProperties
    <2>2. ASSUME NEW i \in latestConfirmedOperation(record)
          PROVE  i \in latestConfirmedOperation(ops) /\ i \in 1 .. n
        BY <1>1, <1>4, <1>6, <2>1, <2>2 DEF latestConfirmedOperation, confirmedIds
    <2>3. ASSUME NEW i \in 1 .. n + 1
          PROVE  /\ i < n + 1 => Settled(record[i])
                 /\ ~Settled(record[i]) \/ i \in latestConfirmedOperation(record) =>
                       record[i].snapshot # {}
                 /\ record[i].acknowledged => record[i].status = "confirmed"
        <3>1. CASE i = n + 1
            BY <1>1, <1>4, <1>6, <3>1
        <3>2. CASE i # n + 1
            <4>1. i \in 1 .. n /\ record[i] = ops[i]
                BY <1>1, <1>6, <3>2
            <4> QED
                BY <1>1, <2>2, <4>1 DEF ConsoleInv, RecordOK
        <3> QED
            BY <3>1, <3>2
    <2> QED
        BY <1>1, <1>6, <2>3, JournalAssumption DEF RecordOK
<1>8. write(record)
    BY <1>3, <1>5 DEF Prepare
<1>9. /\ RecordOK(ops)' /\ Len(ops)' = n + 1 /\ ops'[n + 1].status = "prepared"
      /\ \A i \in 1 .. n : ops'[i].kind = ops[i].kind /\ ops'[i].status = ops[i].status
    BY <1>1, <1>4, <1>6, <1>7, <1>8, Written
<1>10. tx[n + 1] = "none"
    BY <1>1 DEF ConsoleInv, TruthOK
<1>11. /\ lease = t /\ lease' = t /\ UNCHANGED <<mirror, chain>>
       /\ Moves(t) /\ tab'[t].pc = "prepared"
    BY GoToFacts DEF Prepare, Holds, ConsoleInv
<1>12. Knows(tab[t])'
    BY <1>1, <1>9, <1>11 DEF Knows, current, attemptPending
<1>13. \A i \in 1 .. Len(ops)' : i < Len(ops)' => ops'[i].status = ops[i].status
    BY <1>1, <1>9
<1>14. LET status == ops'[Len(ops)'].status IN
       /\ status = "prepared" => tx[Len(ops)'] = "none"
       /\ status = "rejected" => tx[Len(ops)'] \in {"none", "failed"}
       /\ status = "confirmed" => Happened(Len(ops))'
    BY <1>9, <1>10
<1>15. Len(ops)' \in {current, current + 1} /\ \A i \in 1 .. Len(ops) : ops'[i].kind = ops[i].kind
    BY <1>9 DEF current
<1> QED
    BY <1>9, <1>11, <1>12, <1>13, <1>14, <1>15, JournalStep

LEMMA MarkSubmittingStep ==
    ASSUME ConsoleInv, NEW t \in Tabs, MarkSubmitting(t)
    PROVE  ConsoleInv'
<1>1. /\ lease = t /\ tab[t].pc = "prepared" /\ lease' = t /\ UNCHANGED <<mirror, chain>>
      /\ write([ops EXCEPT ![current].status = "submitting"])
      /\ Moves(t) /\ tab'[t].pc = "marked"
    BY GoToFacts DEF MarkSubmitting, Holds, ConsoleInv
<1>2. /\ Knows(tab[t]) /\ current > 0 /\ current \in 1 .. Len(ops)
      /\ ~Settled(ops[current]) /\ ops[current].status # "confirmed"
    BY <1>1, HolderKnows
<1>3. tx[current] = "none"
    BY <1>1, <1>2 DEF Knows, ConsoleInv, TruthOK
<1>4. Len(ops)' = Len(ops) /\ ops'[current].status = "submitting"
    BY <1>1, <1>2, StatusWritten DEF ConsoleInv
<1>5. Knows(tab[t])'
    BY <1>1, <1>2, <1>3, <1>4 DEF Knows, current, attemptPending, chain
<1> QED
    BY <1>1, <1>2, <1>5, StatusStep

LEMMA ProveStep ==
    ASSUME ConsoleInv, NEW t \in Tabs, Prove(t)
    PROVE  ConsoleInv'
<1>1. /\ lease = t /\ tab[t].pc = "marked" /\ lease' = t /\ mirror' \in Books
      /\ UNCHANGED <<ops, chain>> /\ Moves(t) /\ tab'[t].pc = "proved"
    BY GoToFacts DEF Prove, Holds, ConsoleInv, ConsoleTypeOK
<1>2. Knows(tab[t])
    BY <1>1, HolderKnows
<1>3. Knows(tab[t])'
    BY <1>1, <1>2 DEF Knows, current, attemptPending, chain
<1> QED
    BY <1>1, <1>3, VolatileStep

LEMMA RecordTransactionStep ==
    ASSUME ConsoleInv, NEW t \in Tabs, RecordTransaction(t)
    PROVE  ConsoleInv'
<1>1. /\ lease = t /\ tab[t].pc = "proved" /\ lease' = t /\ UNCHANGED <<mirror, chain>>
      /\ write([ops EXCEPT ![current].transactionId = TRUE])
      /\ Moves(t) /\ tab'[t].pc = "recorded"
    BY GoToFacts DEF RecordTransaction, Holds, ConsoleInv
<1>2. Knows(tab[t]) /\ current > 0 /\ current \in 1 .. Len(ops) /\ ~Settled(ops[current])
    BY <1>1, HolderKnows
<1>3. Len(ops)' = Len(ops) /\ ops'[current].status = ops[current].status
    BY <1>1, <1>2, FlagWritten DEF ConsoleInv
<1>4. Knows(tab[t])'
    BY <1>1, <1>2, <1>3 DEF Knows, current, attemptPending, chain
<1> QED
    BY <1>1, <1>2, <1>4, FlagStep

LEMMA SubmitStep ==
    ASSUME ConsoleInv, NEW t \in Tabs, Submit(t)
    PROVE  ConsoleInv'
<1>1. /\ lease = t /\ tab[t].pc = "recorded" /\ lease' = t
      /\ UNCHANGED <<ops, mirror, lineCommit, cancelled>>
      /\ Moves(t) /\ tab'[t].pc = "submitted"
    BY GoToFacts DEF Submit, Holds, ConsoleInv
<1>2. /\ Knows(tab[t]) /\ current > 0 /\ current \in 1 .. Len(ops) /\ current \in Ids
    BY <1>1, HolderKnows
<1>3. tx[current] = "none" /\ ops[current].status = "submitting"
    BY <1>1, <1>2 DEF Knows, attemptPending
<1>4. PICK fate \in {"pool", "dropped"} : tx' = [tx EXCEPT ![current] = fate]
    BY DEF Submit
<1>5. tx' \in [Ids -> TxFates] /\ \A j \in Ids : j # current => tx'[j] = tx[j]
    BY <1>2, <1>4 DEF ConsoleInv, ConsoleTypeOK, TxFates
<1>6. Knows(tab[t])'
    BY <1>1, <1>2, <1>3 DEF Knows, current, attemptPending
<1>7. lineCommit' \in Books /\ cancelled' \in BOOLEAN
    BY <1>1 DEF ConsoleInv, ConsoleTypeOK
<1>8. current <= Len(ops)
    BY RecordFacts DEF ConsoleInv, current
<1> QED
    BY <1>1, <1>2, <1>3, <1>5, <1>6, <1>7, <1>8, FateStep

\* The operation is settled, or left uncertain, and the tab lets go.
LEMMA OutcomeStep ==
    ASSUME ConsoleInv, NEW t \in Tabs,
           RejectUnattempted(t) \/ RejectSubmitted(t) \/ MarkUncertain(t)
    PROVE  ConsoleInv'
<1>1. /\ lease = t /\ tab[t].pc \in {"marked", "proved", "recorded", "submitted"}
      /\ UNCHANGED <<mirror, chain>> /\ Leave(t, tab[t]) /\ tab[t] \in Tab
    BY DEF RejectUnattempted, RejectSubmitted, MarkUncertain, Holds, attemptPending,
           ConsoleInv, ConsoleTypeOK
<1>2. Moves(t) /\ lease' = NoTab /\ lease' # t
    BY <1>1, LeaveFacts DEF ConsoleInv
<1>3. /\ Knows(tab[t]) /\ current \in 1 .. Len(ops)
      /\ ~Settled(ops[current]) /\ ops[current].status # "confirmed"
    BY <1>1, HolderKnows
<1>4. PICK s \in {"uncertain", "rejected"} :
          /\ write([ops EXCEPT ![current].status = s])
          /\ s = "rejected" => tx[current] \in {"none", "failed"}
    <2>1. tab[t].pc \in attemptPending => tx[current] = "none"
        BY <1>3 DEF Knows
    <2> QED
        BY <2>1 DEF RejectUnattempted, RejectSubmitted, MarkUncertain, definitiveRejection
<1> QED
    BY <1>1, <1>2, <1>3, <1>4, StatusStep

LEMMA ConfirmSubmittedStep ==
    ASSUME ConsoleInv, NEW t \in Tabs, ConfirmSubmitted(t)
    PROVE  ConsoleInv'
<1>1. /\ lease = t /\ tab[t].pc = "submitted" /\ lease' = t /\ UNCHANGED <<mirror, chain>>
      /\ write([ops EXCEPT ![current].status = "confirmed"])
      /\ Moves(t) /\ tab'[t].pc = "confirmed" /\ Happened(current)
    BY GoToFacts DEF ConfirmSubmitted, Holds, ConsoleInv, Happened
<1>2. /\ current > 0 /\ current \in 1 .. Len(ops)
      /\ ~Settled(ops[current]) /\ ops[current].status # "confirmed"
    BY <1>1, HolderKnows
<1>3. Len(ops)' = Len(ops) /\ ops'[current].status = "confirmed"
    BY <1>1, <1>2, StatusWritten DEF ConsoleInv
<1>4. Knows(tab[t])'
    BY <1>1, <1>2, <1>3 DEF Knows, current, attemptPending
<1> QED
    BY <1>1, <1>2, <1>4, StatusStep

LEMMA SaveMirrorStep ==
    ASSUME ConsoleInv, NEW t \in Tabs, SaveMirror(t)
    PROVE  ConsoleInv'
<1>1. /\ lease = t /\ tab[t].pc = "confirmed" /\ lease' = t /\ UNCHANGED <<ops, chain>>
      /\ Moves(t) /\ tab'[t].pc = "mirrored"
    BY GoToFacts DEF SaveMirror, Holds, ConsoleInv
<1>2. Knows(tab[t]) /\ current > 0 /\ current \in Ids
    BY <1>1, HolderKnows
<1>3. mirror' \in Books
    BY <1>2, JournalAssumption DEF SaveMirror, ConsoleInv, ConsoleTypeOK, Ids, Books, Foreign
<1>4. Knows(tab[t])'
    BY <1>1, <1>2 DEF Knows, current, attemptPending
<1> QED
    BY <1>1, <1>3, <1>4, VolatileStep

LEMMA AcknowledgeConfirmedStep ==
    ASSUME ConsoleInv, NEW t \in Tabs, AcknowledgeConfirmed(t)
    PROVE  ConsoleInv'
<1>1. lease = t /\ tab[t].pc = "mirrored" /\ UNCHANGED <<mirror, chain>>
    BY DEF AcknowledgeConfirmed, Holds
<1>2. tab[t] \in Tab /\ mirror' \in Books
    BY <1>1 DEF ConsoleInv, ConsoleTypeOK
<1>3. CASE assertCurrent(t)
    <2>1. PICK book \in ops[current].snapshot :
              /\ write([ops EXCEPT ![current].acknowledged = TRUE])
              /\ Leave(t, [tab[t] EXCEPT !.memory = book])
        BY <1>3 DEF AcknowledgeConfirmed
    <2>2. /\ Knows(tab[t]) /\ current \in 1 .. Len(ops) /\ ops[current].status = "confirmed"
        BY <1>1, HolderKnows DEF Knows
    <2>3. book \in Books
        BY <2>1, <2>2, RecordFacts DEF Operation, ConsoleInv
    <2>4. PICK v : v = [tab[t] EXCEPT !.memory = book]
        OBVIOUS
    <2>5. v \in Tab /\ Leave(t, v)
        BY <1>2, <2>1, <2>3, <2>4 DEF Tab
    <2>6. Moves(t) /\ lease' = NoTab /\ lease' # t
        BY <1>1, <2>5, LeaveFacts DEF ConsoleInv
    <2> QED
        BY <1>1, <2>1, <2>2, <2>6, FlagStep
<1>4. CASE ~assertCurrent(t)
    BY <1>1, <1>2, <1>4, LeaveStep DEF AcknowledgeConfirmed
<1> QED
    BY <1>3, <1>4

LEMMA SubmissionStep ==
    ASSUME ConsoleInv, NEW t \in Tabs, Submission(t)
    PROVE  ConsoleInv'
<1> QED
    BY PrepareStep, MarkSubmittingStep, ProveStep, RecordTransactionStep, SubmitStep,
       OutcomeStep, ConfirmSubmittedStep, SaveMirrorStep, AcknowledgeConfirmedStep
    DEF Submission

-----------------------------------------------------------------------------
(***************************************************************************)
(* The network                                                             *)
(***************************************************************************)
\* A transaction under way belongs to an operation that was submitted.
LEMMA PoolFacts ==
    ASSUME ConsoleInv, NEW i \in Ids, tx[i] = "pool"
    PROVE  /\ i <= Len(ops) /\ i \in 1 .. Len(ops)
           /\ ops[i].status \notin {"prepared", "rejected"}
<1>1. Len(ops) \in Nat /\ i \in Nat /\ i > 0
    BY RecordFacts, JournalAssumption DEF ConsoleInv, Ids
<1>2. i <= Len(ops)
    BY <1>1 DEF ConsoleInv, TruthOK
<1> QED
    BY <1>1, <1>2 DEF ConsoleInv, TruthOK

LEMMA NetworkStep ==
    ASSUME ConsoleInv, NEW i \in Ids, Succeed(i) \/ Miscarry(i)
    PROVE  ConsoleInv'
<1>1. tx[i] = "pool" /\ UNCHANGED <<ops, mirror, lease, tab>>
    BY DEF Succeed, Miscarry
<1>2. PICK fate \in {"succeeded", "failed", "partial", "dropped"} :
          /\ tx' = [tx EXCEPT ![i] = fate]
          /\ \/ fate \in {"succeeded", "partial"} /\ applyEffect(i)
             \/ UNCHANGED <<lineCommit, cancelled>>
    BY DEF Succeed, Miscarry
<1>3. tx' \in [Ids -> TxFates] /\ tx'[i] = fate /\ \A j \in Ids : j # i => tx'[j] = tx[j]
    BY <1>2 DEF ConsoleInv, ConsoleTypeOK, TxFates
<1>4. lineCommit \in Books /\ cancelled \in BOOLEAN /\ i \in Books
    BY JournalAssumption DEF ConsoleInv, ConsoleTypeOK, Ids, Books, Foreign
<1>5. lineCommit' \in {lineCommit, i} /\ (lineCommit' # lineCommit => fate \in {"succeeded", "partial"})
    BY <1>2 DEF applyEffect
<1>6. cancelled' \in BOOLEAN /\ (cancelled => cancelled')
    <2>1. CASE UNCHANGED cancelled
        BY <1>4, <2>1
    <2>2. CASE cancelled' = (cancelled \/ ops[i].kind = "expireNote")
        BY <2>2
    <2> QED
        BY <1>2, <2>1, <2>2 DEF applyEffect
<1>7. i <= Len(ops) /\ ops[i].status \notin {"prepared", "rejected"}
    BY <1>1, PoolFacts
<1>8. Moves(NoTab) /\ lease' = lease /\ NoTab \notin Tabs
    BY <1>1, JournalAssumption DEF Moves, ConsoleInv, ConsoleTypeOK
<1> QED
    BY <1>1, <1>3, <1>4, <1>5, <1>6, <1>7, <1>8, FateStep

\* Someone else cancels the note or moves the book.
LEMMA ElsewhereStep ==
    ASSUME ConsoleInv, Elsewhere
    PROVE  ConsoleInv'
<1>1. UNCHANGED <<ops, mirror, lease, tab, tx>>
    BY DEF Elsewhere, ExpireByOther, MoveBookElsewhere
<1>2. /\ cancelled' \in BOOLEAN /\ (cancelled => cancelled')
      /\ lineCommit' \in {lineCommit, Foreign}
    BY DEF Elsewhere, ExpireByOther, MoveBookElsewhere, ConsoleInv, ConsoleTypeOK
<1>3. Foreign \in Books /\ Foreign \notin Ids
    BY JournalAssumption DEF Foreign, Books, Ids
<1>4. ConsoleTypeOK' /\ RecordOK(ops)'
    BY <1>1, <1>2, <1>3 DEF ConsoleInv, ConsoleTypeOK, RecordOK
<1>5. \A i \in Ids : Happened(i) => Happened(i)'
    BY <1>1, <1>2 DEF Happened
<1>6. current \in Nat /\ (current > 0 => current \in Ids) /\ \A i \in 1 .. Len(ops) : i \in Ids
    BY RecordFacts, JournalAssumption DEF ConsoleInv, current, Ids
<1>7. TruthOK'
    BY <1>1, <1>2, <1>3, <1>5, <1>6 DEF ConsoleInv, TruthOK
<1>8. ASSUME NEW t \in Tabs, lease' = t
      PROVE  Knows(tab[t])'
    <2>1. Knows(tab[t])
        BY <1>1, <1>8 DEF ConsoleInv, HolderOK
    <2>2. current > 0 /\ Happened(current) => Happened(current)'
        BY <1>1, <1>5, <1>6 DEF current
    <2> QED
        BY <1>1, <2>1, <2>2 DEF Knows, current
<1> QED
    BY <1>4, <1>7, <1>8 DEF ConsoleInv, HolderOK

LEMMA ConsoleNext == ConsoleInv /\ [Next]_vars => ConsoleInv'
<1> SUFFICES ASSUME ConsoleInv, [Next]_vars PROVE ConsoleInv'
    OBVIOUS
<1>1. CASE UNCHANGED vars
    BY <1>1 DEF vars, ConsoleInv, ConsoleTypeOK, RecordOK, TruthOK, Happened, HolderOK,
                Knows, current
<1>2. CASE Next
    BY <1>2, SessionStep, RecoveryStep, SubmissionStep, NetworkStep, ElsewhereStep DEF Next
<1> QED
    BY <1>1, <1>2

LEMMA ConsoleSafety == Spec => []ConsoleInv
<1> QED
    BY ConsoleInit, ConsoleNext, PTL DEF Spec

-----------------------------------------------------------------------------
\* Every record the vault holds passes validateRecord when it is read back:
\* it never grows past its capacity, one operation at most awaits settlement
\* or acknowledgement, and the latest confirmed one keeps its snapshot.
THEOREM RecordAlwaysReadable == Spec => []JournalReadable
<1>1. ASSUME ConsoleInv
      PROVE  JournalReadable
    <2>1. RecordOK(ops)
        BY <1>1 DEF ConsoleInv
    <2>2. \A i \in DOMAIN ops : ~Settled(ops[i]) => i = current
        BY <2>1, RecordFacts, PendingIsLast
    <2>3. \A i \in latestConfirmedOperation(ops) : ops[i].snapshot # {}
        BY <1>1, <2>1, LatestFacts DEF RecordOK
    <2>4. \A i \in DOMAIN ops : ops[i].acknowledged => ops[i].status = "confirmed"
        BY <2>1, RecordFacts DEF RecordOK
    <2> QED
        BY <2>1, <2>2, <2>3, <2>4 DEF RecordOK, JournalReadable
<1> QED
    BY <1>1, ConsoleSafety, PTL

\* What the journal calls rejected never happens and what it calls confirmed
\* did, whichever tab wrote it and however the submission ended.
THEOREM JournalTellsTheTruth == Spec => []JournalTruthful
<1>1. ASSUME ConsoleInv
      PROVE  JournalTruthful
    <2>1. DOMAIN ops = 1 .. Len(ops)
        BY <1>1, RecordFacts DEF ConsoleInv
    <2> QED
        BY <1>1, <2>1 DEF ConsoleInv, TruthOK, Happened, JournalTruthful,
                          RejectedNeverHappens, ConfirmedHappened
<1> QED
    BY <1>1, ConsoleSafety, PTL

\* No transaction of an operation before the last can still change the ledger:
\* a settled operation is rejected, or its effect is there already.
THEOREM OldOperationsAreOver == Spec => []EarlierOutcomesKnown
<1>1. ASSUME ConsoleInv
      PROVE  EarlierOutcomesKnown
    <2>1. DOMAIN ops = 1 .. Len(ops)
        BY <1>1, RecordFacts DEF ConsoleInv
    <2>2. ASSUME NEW i \in 1 .. Len(ops), i < Len(ops), tx[i] = "pool"
          PROVE  ~accepts(i)
        <3>1. Settled(ops[i])
            BY <1>1, <2>2 DEF ConsoleInv, RecordOK
        <3>2. ops[i].status = "confirmed" /\ Happened(i)
            BY <1>1, <2>2, <3>1 DEF ConsoleInv, TruthOK, Settled
        <3>3. ops[i].kind = "expireNote" /\ cancelled
            BY <2>2, <3>2 DEF Happened
        <3> QED
            BY <3>3 DEF accepts
    <2> QED
        BY <2>1, <2>2 DEF EarlierOutcomesKnown
<1> QED
    BY <1>1, ConsoleSafety, PTL
=============================================================================
