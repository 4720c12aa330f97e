SPECIFICATION Spec
CONSTANTS
    c1 = c1
    c2 = c2
    k1 = k1
    k2 = k2
    Clients <- TwoClients
    Contracts <- TwoContracts
    Stays <- OneStay
    Bedrooms <- NoBedsOneOrThree
    MonthDays <- TwoMonths
    LegacyDays <- ShortFebruary
    Values <- OneOrSix
    Amounts <- TwoAmounts
    ReadDays <- ThreeDays
    PriceDays <- TwoDays
    Unit = 72
    MaxPrices = 1
    MaxEdits = 1
    MaxSettling = 1
    MaxCalcs = 2
SYMMETRY ClientSymmetry
INVARIANTS TypeOK MetersCharged InvoiceCollected SharedWithinPrice
