CONSTANTS
    MaxMessages = 2
    Threads = {t1}
    LoopOps = {"send", "shutdown", "forceClose"}
    ThreadOps = {"send", "shutdown", "forceClose"}
    PeerResets = TRUE
    MaxCalls = 3
SPECIFICATION FairSpec
CHECK_DEADLOCK FALSE
INVARIANTS
    StreamIntegrity ChannelConsistent UpDownOnce GracefulShutdown AssertsHold
PROPERTIES PeerCloseReleases ShutdownFinishes
