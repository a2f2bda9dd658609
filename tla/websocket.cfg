SPECIFICATION FairSpec
CONSTANTS
    c1 = c1
    c2 = c2
    Clients <- TwoClients
    Dashboards = {c1}
    Pinging = {c1}
    IDs <- SameID
    MaxBroadcasts = 2
    SendCap = 1
    RequestCap = 1
    BroadcastCap = 1
INVARIANTS NeverPanics
PROPERTIES ImplementsPubSub BroadcastGoesOn GoneIsRemoved
CHECK_DEADLOCK FALSE
