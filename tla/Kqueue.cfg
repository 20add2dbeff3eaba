SPECIFICATION FairSpec
CONSTANTS
    None = None
    Handles = {h1}
    Ids = {1, 2}
    Interests <- EveryInterest
    Options <- SomeOptions
    Conditions = {"in", "eof"}
    AddsMayFail = TRUE
INVARIANTS
    NothingMissed
    EventsCurrent
    OneshotOnce
PROPERTIES
    EventsCome
