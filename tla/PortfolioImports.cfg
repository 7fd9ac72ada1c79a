SPECIFICATION Spec
CONSTANTS
    c1 = c1
    c2 = c2
    p1 = p1
    p2 = p2
    i1 = i1
    i2 = i2
    Callers = {c1, c2}
    Portfolios = {p1}
    Instruments = {i1, i2}
    Amounts <- OneAmount
    Sheets <- ThreeSheets
    Policies <- AllPolicies
    Guards <- OnlyGuarded
    Fills <- NoneOrOne
    MaxCalls = 3
SYMMETRY CallerSymmetry
CHECK_DEADLOCK FALSE
INVARIANTS
    TypeOK
PROPERTIES
    EveryWriteIsAVersion
    NeverSilentlyOverwrites
    ImplementsAtomicImport
