SPECIFICATION OfficeSpec
CONSTANTS
    c1 = c1
    c2 = c2
    n1 = n1
    k1 = k1
    w1 = w1
    None = None
    Clients <- TwoClients
    Kinds <- OneKind
    Wishes <- OneWish
    Dumps <- SmallDumps
    Usernames <- TwoUsernames
    LetterWrites = 3
    MaxMails = 1
    MaxSets = 2
    MaxAdds = 2
    MaxImports = 2
    Names <- OneName
    LastTime = 1
    LinkLife = 0
    DefaultAge = 1
    MinWindow = 1
    MaxWindow = 2
    Asked <- TooLong
    MaxWrites = 5
    MaxLinks = 1
SYMMETRY Symmetry
INVARIANTS OfficeInv AccountsKept FollowUpReopens
PROPERTIES PasswordStands TemplatesStand ImportRuns
CHECK_DEADLOCK FALSE
