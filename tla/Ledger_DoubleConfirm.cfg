SPECIFICATION Spec
CONSTANTS
    c1 = c1
    c2 = c2
    k1 = k1
    s1 = s1
    None = None
    Clients <- TwoClients
    Contracts <- OneContract
    Months <- OneMonth
    LineSets <- MCLineSets
    Kinds <- FeeOnly
    Scripts <- NoScript
    FundStart = 1
    MaxCalcs = 1
    MaxEntries = 2
INVARIANT ConfirmedOnce
