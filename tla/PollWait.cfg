SPECIFICATION FairSpec
CONSTANTS
    None = None
    Growable = Growable
    Capacity = 1
    Ids = {1}
    MaxItems = 2
    EventsCap = 1
    Granularity = 2
    MaxMillis = 1
    Sources <- OsFirst
    Durations = {3}
    MaxTime = 3
    MaxErrors = 1
INVARIANTS
    NoOversleep
PROPERTIES
    TimersFire
    EventsArrive
CHECK_DEADLOCK FALSE
