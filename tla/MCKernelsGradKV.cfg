SPECIFICATION KernelSpec
CONSTANTS
    T = 4
    W = 2
    TILE = 2
    GRID = 2
    Launches <- UnevenHead
INVARIANT KvSumsQueries
CHECK_DEADLOCK FALSE
