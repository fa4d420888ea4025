CONSTANTS
    Timers = {1, 2}
    Threads = {t1}
    Intervals = {1, 2}
    Starts = {TRUE, FALSE}
    MaxTime = 3
SPECIFICATION FairSpec
CHECK_DEADLOCK FALSE
INVARIANTS ArmedInTime
PROPERTIES TimersRun
