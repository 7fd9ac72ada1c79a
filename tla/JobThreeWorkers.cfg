SPECIFICATION Spec
CONSTANTS
    w1 = w1
    w2 = w2
    w3 = w3
    k1 = k1
    k2 = k2
    i1 = i1
    i2 = i2
    Executors <- ThreeWorkers
    Keys <- OneKey
    Inputs <- OneInput
    MaxAttempts = 3
    Faults <- AllFaults
    ErrorBound = 3
SYMMETRY WorkerSymmetry
INVARIANTS
    TypeOK
    NoLostUpdate
    EffectsWithinRetryLimit
    ReportedSuccessIsDurable
PROPERTIES
    ExhaustionIsFinal
