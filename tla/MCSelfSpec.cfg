SPECIFICATION Spec
CONSTANTS
    Byte <- MCByte
    EntropyModels <- MCEntropyModels
    Models <- MCModels
    Boundary <- MCBoundary
    Predict <- MCPredict
    Prompts <- MCPrompts
    Windows <- MCWindows
    MaxNew = 7
    MaxSeqLen = 9
    SplitFactor = 2
    MaxPatches = 5
INVARIANTS
    GreedyOnceFirstPatchClosed
    CacheFaithful
    NoSpuriousAbort
    CommitAccounting
PROPERTIES
    FirstDraftAccepted
    Termination
    ImplementsGreedy
