SPECIFICATION Spec
CONSTANTS
    Setups <- MCSetups
    MaxStep = 5
    MaxStarts = 3
    MaxTries = 1
    NoFile = NoFile
    Torn = Torn
INVARIANTS
    ResumedIsContinuous
    RecentCheckpoint
    BestIsBest
    EpochOnce
