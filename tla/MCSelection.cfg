SPECIFICATION SelectionSpec
CONSTANTS
    Byte <- MCByte
    EntropyModels <- MCEntropyModels
    Models <- MCModels
    Boundary <- MCBoundary
    Logits <- MCLogits
    Mass <- MCMass
    MaxLogit = 3
    Prompts <- MCPrompts
    Options <- MCOptions
    Parts = 10
    MaxNew = 4
    MaxSeqLen = 5
    MaxPatches = 3
    Recent = 3
    ByteToken = {a, b}
    Mask = mask
    Sizes = {1, 2, 3, 4}
    MaxB = 4
    Scores = {0, 1, 2, 3}
    Thresholds <- MCThresholds
INVARIANTS
    SamplingContract
    DraftContract
    EntropyBoundOptimal
PROPERTIES
    ImplementsGreedy
