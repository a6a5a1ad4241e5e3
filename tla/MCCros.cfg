SPECIFICATION FairSpec
CONSTANTS
    max_tries = 2
    Pacs <- SomePacs
    CrosFaults <- AllFaults
    MaxPending = 2
    BusRoom = 2
CHECK_DEADLOCK FALSE
INVARIANTS
    TypeOK
    OneRequest
PROPERTIES
    FreshProxy
    ResolvingEnds
    PendingClears
