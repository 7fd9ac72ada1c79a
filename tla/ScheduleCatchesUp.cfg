SPECIFICATION LiveSpec
CONSTANTS
    w1 = w1
    w2 = w2
    Workers <- OneWorker
    Calendar <- OneWeek
    MaxReplay = 2
    MaxAttempts = 3
    Faults <- NoFaults
    ErrorBound = 1
    FailureBound = 2
PROPERTY CatchesUp
