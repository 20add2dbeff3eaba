SPECIFICATION Spec
CONSTANTS
    None = None
    Handles = {h1}
    Ids = {1}
    Interests <- EveryInterest
    Options <- EveryOption
    Conditions = {"in", "out", "eof"}
    AddsMayFail = FALSE
INVARIANT OneshotSingle
