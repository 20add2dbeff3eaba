SPECIFICATION Spec
CONSTANTS
    t1 = t1
    t2 = t2
    t3 = t3
    Threads <- ThreeThreads
    PipeSize = 3
    BufSize = 2
    MaxWakes = 5
    KeepFirst = FALSE
SYMMETRY ThreadSymmetry
INVARIANTS
    NoLostWake
CHECK_DEADLOCK FALSE
