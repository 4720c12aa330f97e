SPECIFICATION Spec
CONSTANTS
    c1 = c1
    c2 = c2
    f1 = f1
    f2 = f2
    u1 = u1
    u2 = u2
    None = None
    Clients <- TwoClients
    Flats <- TwoFlats
    Utilities <- TwoUtilities
    Kinds <- AllKinds
    LastDay = 3
    Values <- OneOrFour
    Amounts <- Two
    PriceDays <- SecondDayOrOpen
    Invoiced <- FirstMonth
    Windows <- ADay
    MaxWrites = 4
    MaxOverlap = 2
SYMMETRY Symmetry
INVARIANTS BookInv CellMatchesEngine ColumnAddsUp EstimateNotLower
CHECK_DEADLOCK FALSE
