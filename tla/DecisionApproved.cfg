SPECIFICATION Spec
CONSTANTS
    x1 = x1
    Ids = {1, 2, 3}
    Actions = {"BUY", "REDUCE", "EXIT"}
    Receipts = {x1}
    MaxTime = 2
    Whole = 4
    Amounts = {0, 1, 3}
    Lots = {1, 2}
INVARIANTS
    TypeOK
    VetoIsNotOverridden
    SizingKeepsTheLimits
    BlockedProposalsBuyNothing
    GatesAreIndispensable
    ReductionNeedsNoPermission
PROPERTY ProceedsUnderLiveApproval
