CONSTANTS
    Threads = {t1}
    MaxSockets = 3
    MaxCalls = 2
SPECIFICATION FairSpec
CHECK_DEADLOCK FALSE
INVARIANTS OneAtATime 
PROPERTIES Reconnects
