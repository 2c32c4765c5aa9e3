SPECIFICATION ToolsSpec
CONSTANTS
    Configs <- MCConfigs
    MaxRuns = 2
    Events = 4
    Unparsable = {3}
    Old = 0
    Prints = 2
    PipeSize = 1
INVARIANTS
    Carved
    SameDataOrder
    OnlyWholeRuns
    LoggedInOrder
    ReadIsLogged
PROPERTIES
    Returns
CHECK_DEADLOCK FALSE
