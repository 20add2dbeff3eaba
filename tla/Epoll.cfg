SPECIFICATION Spec
CONSTANTS
    None = None
    Handles = {h1}
    Ids = {1, 2}
    Interests <- EveryInterest
    Options <- EveryOption
    Conditions = {"in", "pri", "out", "rdhup", "hup", "err"}
INVARIANTS
    NothingMissed
    EventsCurrent
    OneshotOnce
