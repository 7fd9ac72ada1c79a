SPECIFICATION Spec
CONSTANTS
    w1 = w1
    w2 = w2
    Workers <- TwoWorkers
    Calendar <- AcrossMonths
    MaxReplay = 2
    MaxAttempts = 1
    Faults <- LostOrCrashed
    ErrorBound = 1
    FailureBound = 1
SYMMETRY WorkerSymmetry
INVARIANTS
    TypeOK
    PredecessorsComplete
PROPERTY ReplaysOldestFirst
