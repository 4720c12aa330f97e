SPECIFICATION FairSpec
CONSTANTS
    w1 = w1
    w2 = w2
    c1 = c1
    k1 = k1
    p1 = p1
    p2 = p2
    Workers <- TwoWorkers
    Clients <- OneClient
    Calcs <- OneCalc
    People <- TwoPeople
    Redirects <- Redirected
    MaxTasks = 2
    MaxMails = 2
    MaxCrashes = 1
INVARIANTS TaskMailsOnce MailsAccounted StoppedBatchShows
PROPERTIES BatchEnds
