SPECIFICATION KernelSpec
CONSTANTS
    T = 4
    W = 2
    TILE = 2
    GRID = 2
    Launches <- ScaledGradients
INVARIANT ScalesAll
CHECK_DEADLOCK FALSE
