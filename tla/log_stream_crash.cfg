SPECIFICATION Spec
CONSTANTS
    c1 = c1
    c2 = c2
    Clients <- TwoClients
    ClientCap = 1
    RequestCap = 1
    BroadcastCap = 1
    MaxLines = 2
INVARIANT StreamSurvives
CHECK_DEADLOCK FALSE
