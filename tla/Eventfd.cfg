SPECIFICATION FairSpec
CONSTANTS
    t1 = t1
    t2 = t2
    t3 = t3
    Threads <- ThreeThreads
    MaxCount = 2
    MaxWakes = 6
INVARIANTS
    TypeOK
    NoLostWake
PROPERTIES
    ImplementsWakeup
    WakeReturns
CHECK_DEADLOCK FALSE
