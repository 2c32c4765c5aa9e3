SPECIFICATION Spec
CONSTANTS
    Byte <- MCByte
    EntropyModels <- MCEntropyModels
    Models <- MCModels
    Boundary <- MCBoundary
    Predict <- MCPredict
    Prompts <- MCPrompts
    Configs <- MCConfigs
    MaxNew = 6
    MaxSeqLen = 8
    MaxPatches = 5
    MaxB = 3
    MaxWindow = 2
    Unit = 6
    Margin = 1
INVARIANTS
    NoSpuriousAbort
    CommitAccounting
    HistoryIsRecent
PROPERTIES
    Termination
    ImplementsGreedy
