SPECIFICATION Spec
CONSTANTS
    None = None
    Growable = Growable
    Capacity = 2
    Ids = {1, 2}
    MaxItems = 3
    EventsCap = 2
    Granularity = 1
    MaxMillis = 3
    Sources <- OsSecond
    Durations = {1}
    MaxTime = 1
    MaxErrors = 1
INVARIANTS
    TypeOK
    SinkBounded
    NothingLost
    NothingTwice
    TimersNotEarly
    TimersInOrder
    QueueInOrder
PROPERTIES
    OkPolledAll
    ImplementsDelivery
CHECK_DEADLOCK FALSE
