CONSTANTS
    Functors = {f1, f2, f3}
    Threads = {t1, t2}
SPECIFICATION FairSpec
INVARIANTS NoLostWakeup NoLostQuit
PROPERTIES ImplementsExecutor FunctorsRun
