SPECIFICATION FairSpec
CONSTANTS
    Threads = {t1, t2}
    Main = t1
    Instances = {s1, s2}
    Sets <- TwoSets
    MaxSent = 3
INVARIANTS
    NotInterrupted
    NoSignalLost
PROPERTIES
    SignalsReceived
CHECK_DEADLOCK FALSE
