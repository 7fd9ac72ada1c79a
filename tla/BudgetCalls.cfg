SPECIFICATION LiveSpec
CONSTANTS
    c1 = c1
    c2 = c2
    t1 = t1
    t2 = t2
    d1 = d1
    d2 = d2
    NoPolicy = NoPolicy
    Calls <- TwoCalls
    Tasks <- TwoTasks
    Days <- TwoDays
    Policies <- TwoPolicies
    WorstCases <- WorstCaseAmounts
    Usages <- UsageAmounts
    LatePolicy = TRUE
INVARIANTS
    TypeOK
    LedgersBalance
    CapHeld
PROPERTY EveryCallEnds
