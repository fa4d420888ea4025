CONSTANTS
    Messages = {m1, m2}
    Threads = {t1, t2}
    MaxSize = 0
    MaxDate = 2
    MaxLoads = 2
    Files <- MCFiles
SPECIFICATION FairLoggingSpec
CHECK_DEADLOCK FALSE
INVARIANTS LogConserved ConfigTakesEffect
PROPERTIES MessagesWritten StopReturns
