CONSTANTS
    NumThreads = 2
    MaxConns = 4
    LoopsEntered = TRUE
    LoopQuits = TRUE
    Clients = 4
    MaxFds = 3
SPECIFICATION FairServerSpec
CHECK_DEADLOCK FALSE
INVARIANTS RoundRobin JoinedBeforeGone OpenConnectionsKnown GoesWhenDestroyed 
PROPERTIES CallsReturn ClientsAccepted
