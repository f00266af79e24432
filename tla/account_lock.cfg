SPECIFICATION FairSpec
CONSTANTS
    Tabs = {tab1, tab2}
    NoTab = none
    Requests = {1}
    MaxOps = 2
    Limit = 1
CHECK_DEADLOCK FALSE
PROPERTIES
    LockReleased
