CONSTANTS
    Trainings <- MCTrainings
    Inferences <- MCInferences
    Cuts = {0, 20}
    MaxRuns = 2
SPECIFICATION FilesSpec
INVARIANTS
    LoadedIsSaved
    MomentsBelong
    InferredAsTrained
