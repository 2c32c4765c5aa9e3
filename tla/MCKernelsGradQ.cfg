SPECIFICATION KernelSpec
CONSTANTS
    T = 4
    W = 2
    TILE = 2
    GRID = 2
    Launches <- QueryGradient
INVARIANT GradQSumsKeys
CHECK_DEADLOCK FALSE
