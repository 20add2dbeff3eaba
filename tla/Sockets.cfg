SPECIFICATION FairSpec
CONSTANTS
    None = None
    Fds <- ThreeFds
    Room = 2
    Programs <- SmallPrograms
    MaxTraffic = 2
INVARIANTS
    NeverStuck
    DescriptorsAccounted
    DropDeregisters
    NothingMissed
PROPERTIES
    AllTold
CHECK_DEADLOCK FALSE
