SPECIFICATION Spec
CONSTANTS
    f1 = f1
    f2 = f2
    macro = macro
    event = event
    Devil = devil
    Fetches = {f1, f2}
    RoundOneRoles = {macro, event}
    Artifacts <- MCArtifacts
    Batch <- MCBatch
    Outputs <- MCOutputs
    Times = {0, 1}
INVARIANTS
    TypeOK
    EvidenceIsStoredOnce
    OpinionsRestOnTheContext
PROPERTY SessionEnds
CHECK_DEADLOCK FALSE
