CONSTANTS
    Requests <- AllRequests
    ValidNames <- Names
    Garbage <- Indeterminate
SPECIFICATION Spec
INVARIANTS
    SentWellFormed
    ReachesItsHandler
    RelayedAsSent
    ShownAsChosen
CHECK_DEADLOCK FALSE
