SPECIFICATION KernelSpec
CONSTANTS
    T = 4
    W = 2
    TILE = 2
    GRID = 2
    Launches <- MCLaunches
INVARIANTS
    NoRace
    ForwardAgrees
    BackwardAgrees
PROPERTY
    Terminates
CHECK_DEADLOCK FALSE
