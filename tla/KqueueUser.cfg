SPECIFICATION FairSpec
CONSTANTS
    None = None
    Threads = {t1, t2}
    Main = t1
    MaxWakes = 2
    Instances = {i1, i2}
    Sets <- OneSet
    MaxSent = 2
INVARIANTS
    NothingLeft
    NoSignalLost
PROPERTIES
    ImplementsWakeup
    WakesArrive
    SignalsReceived
CHECK_DEADLOCK FALSE
