SPECIFICATION LiveSpec
CONSTANTS
    w1 = w1
    w2 = w2
    b1 = b1
    b2 = b2
    r1 = r1
    Writers <- TwoWriters
    Bodies <- TwoBodies
    Reasons <- OneReason
    MaxTime = 1
    MaxVersions = 2
INVARIANTS
    TypeOK
    LinearHistory
    CommitsOnWhatItRead
PROPERTIES
    ImplementsVersionChain
    EveryWriteEnds
