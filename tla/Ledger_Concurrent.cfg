SPECIFICATION Spec
CONSTANTS
    c1 = c1
    c2 = c2
    k1 = k1
    s1 = s1
    None = None
    Clients <- TwoClients
    Contracts <- OneContract
    Months <- OneMonth
    LineSets <- MCLineSets
    Kinds <- BothKinds
    Scripts <- OneScript
    FundStart = 1
    MaxCalcs = 2
    MaxEntries = 2
SYMMETRY Symmetry
INVARIANTS LinksIntact PaidInFull OneFundLine DoubleUnseen
PROPERTIES SettlementsKeepMoney LinkWrittenOnce KeepsReceipts
