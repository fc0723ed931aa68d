SPECIFICATION PartsSpec
CONSTANTS
    NScans = 1
    Scans <- Ids
    Editors = {}
    MaxRev = 1
    MaxRunning = 1
    MaxTracked = 1
    Requests = {q1}
    MaxRestarts = 1
    a1 = a1
    a2 = a2
    p1 = p1
    Assessment <- Assessments
    Choices <- Chosen
    Grants <- Scopes
    Pairs = {p1}
    PairLimit = 20
    Restarts = 1
INVARIANTS
    StagesTruthful
    CancelExplained
PROPERTIES
    LaunchedScanEnds
    CancelTakesEffect
    RestartRecovers
    NothingStartsOutside
    SlotKept
CHECK_DEADLOCK FALSE
