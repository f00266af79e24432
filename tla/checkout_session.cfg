SPECIFICATION Spec
CONSTANTS
    Requests = {r1, r2}
    References = {p1, p2}
    None = none
    Price = 2
    Limit = 3
    Reserve = 4
SYMMETRY Symmetry
CHECK_DEADLOCK FALSE
INVARIANTS
    AnswersSurvive
    CheckpointsRecover
    ChargedAndCreditedOnce
