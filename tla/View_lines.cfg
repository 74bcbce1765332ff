SPECIFICATION Spec
CONSTANTS
    None = None
    Entries <- MCEntries
    MaxLines = 3
    TailUnits = 3
    SplitsChar = {2}
    VISIBLE_LINES = 1
    COLLAPSE_THRESHOLD = 2
    MaxOutput = 3
    DETAIL_MAX_LEN = 3
    StatusLines = 2
    StatusUnits = 5
INVARIANT OutputWhole
INVARIANT CutIsLongest
INVARIANT HistoryIsEnd
INVARIANT ListedUnderLastId
CHECK_DEADLOCK FALSE
