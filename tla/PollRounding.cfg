SPECIFICATION Spec
CONSTANTS
    None = None
    Growable = Growable
    Capacity = 2
    Ids = {1}
    MaxItems = 1
    EventsCap = 1
    Granularity = 2
    MaxMillis = 3
    Sources <- OsFirst
    Durations = {1}
    MaxTime = 2
    MaxErrors = 1
INVARIANTS
    TimeoutRoundedUp
CHECK_DEADLOCK FALSE
