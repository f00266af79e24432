SPECIFICATION Spec
CONSTANTS
    Tabs = {tab1, tab2}
    NoTab = none
    Requests = {1, 2}
    MaxOps = 5
    Limit = 2
SYMMETRY Symmetry
CHECK_DEADLOCK FALSE
INVARIANTS
    NoOrphanTransaction
    BackupRestorable
    ArchivedNeverApplied
