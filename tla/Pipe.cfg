SPECIFICATION FairSpec
CONSTANTS
    t1 = t1
    t2 = t2
    t3 = t3
    Threads <- ThreeThreads
    PipeSize = 3
    BufSize = 2
    MaxWakes = 7
    KeepFirst = TRUE
INVARIANTS
    TypeOK
    NoLostWake
PROPERTIES
    ImplementsWakeup
CHECK_DEADLOCK FALSE
