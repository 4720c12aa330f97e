SPECIFICATION BooksSpec
CONSTANTS
    c1 = c1
    c2 = c2
    n1 = n1
    n2 = n2
    k1 = k1
    r1 = r1
    None = None
    Parts <- Writes
    Clients <- TwoClients
    MonthLength = 2
    LastDay = 4
    Amounts <- TenOrFifteen
    Names <- TwoNames
    Starts <- OneOrTwo
    Ends <- TwoOrOpen
    RateDays <- ThreeOrFour
    BookingDays <- ThreeOrFour
    Periods <- MCPeriods
    MaxWrites = 4
    Contracts <- OneContract
    Kinds <- BothKinds
    Received <- OneToThree
    RentAmounts <- Ninety
    Threshold = 100
    LowRate = 85
    HighRate = 125
    MaxEntries = 2
    RentWrites = 2
    MaxDues = 2
    Rooms <- OneRoom
    FirstDays <- OneOrFive
    LastDays <- FourOrOpen
    Prices <- Hundred
    PayDays <- OnlyTwo
    Receipts <- TwoOrThree
    PageAmounts <- OnlyFive
    RentalStarts <- OnlyTwo
    Back = 2
    SoonDays = 1
    WarnDays = 2
    TaxDay = 1
    PageWrites = 3
    YearLength = 2
    LastMonth = 3
    Billings <- OnlyOne
SYMMETRY Symmetry
INVARIANTS RentInv ChargedIsCollected FirstMonthCollects
PROPERTIES HistoryStands FormsKeepApart
CHECK_DEADLOCK FALSE
