CONSTANTS
    t1 = t1
    t2 = t2
    c1 = c1
    c2 = c2
    Tokens = {t1, t2}
    Connections = {c1, c2}
    Nothing = Nothing
    TTL = 4
    SweepPeriod = 2
SPECIFICATION FairSpec
INVARIANTS
    TypeOK
    SingleUse
    StoreForgets
    OrphansLeftEarly
PROPERTIES
    ClientFollowsUpstream
    UpstreamFollowsClient
    ImplementsConsoleTickets
