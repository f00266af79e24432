SPECIFICATION SpecService
CONSTANTS
    Tabs = {tab1, tab2}
    NoTab = none
    Requests = {1, 2}
    MaxOps = 2
    Limit = 2
SYMMETRY Symmetry
CHECK_DEADLOCK FALSE
INVARIANTS
    ChargedOnce
    DeliveredIsPaid
    UndecidedIsPending
    StatusFollowsReceipts
PROPERTIES
    NeverRebroadcast
