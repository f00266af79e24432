SPECIFICATION Spec
CONSTANTS
    Requests = {r1}
    References = {p1}
    None = none
    Price = 2
    Limit = 3
    Reserve = 4
CHECK_DEADLOCK FALSE
INVARIANT ObligationsReachable
