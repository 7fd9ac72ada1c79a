SPECIFICATION LiveSpec
CONSTANTS
    c1 = c1
    c2 = c2
    p1 = p1
    p2 = p2
    i1 = i1
    i2 = i2
    Callers = {c1, c2}
    Portfolios = {p1, p2}
    Instruments = {i1, i2}
    Amounts <- OneAmount
    Sheets <- OppositeSheets
    Policies <- OnlyUpdate
    Guards <- OnlyGuarded
    Fills <- NoneOrAll
    MaxCalls = 3
CHECK_DEADLOCK FALSE
PROPERTIES
    EveryCallEnds
