SPECIFICATION CoordinatorSpec
CONSTANTS
    Processes = {w1, w2, w3, w4, w5}
    Nobody = nobody
    Operations = {op1, op2}
    NoOperation = noOp
    MaxApprovals = 2
    MaxClock = 1
SYMMETRY Symmetry
CHECK_DEADLOCK FALSE
INVARIANTS
    LeaseExclusive
    HolderIsCurrent
    ApprovalRecoverable
    PublicOpened
    JournalReopens
