SPECIFICATION Spec
CONSTANTS
    Tabs = {tab1, tab2}
    NoTab = none
    MAX_JOURNAL_OPERATIONS = 2
SYMMETRY Symmetry
CHECK_DEADLOCK FALSE
INVARIANTS
    JournalReadable
    JournalTruthful
    EarlierOutcomesKnown
