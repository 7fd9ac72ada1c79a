SPECIFICATION Spec
CONSTANTS
    w1 = w1
    w2 = w2
    w3 = w3
    k1 = k1
    k2 = k2
    i1 = i1
    i2 = i2
    Executors <- OneWorker
    Keys <- TwoKeys
    Inputs <- TwoInputs
    MaxAttempts = 2
    Faults <- HealthyDatabase
    ErrorBound = 0
INVARIANT AtMostOneEffect
PROPERTIES
    ImplementsIdempotentJob
