SPECIFICATION Spec
CONSTANTS
    Tabs = {tab1}
    NoTab = none
    MAX_JOURNAL_OPERATIONS = 2
CHECK_DEADLOCK FALSE
INVARIANT BookRecoverable
