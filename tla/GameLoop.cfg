SPECIFICATION Spec
CONSTANTS
    Dt = 10
    MinFps = 25
    StartUps = {0, 3, 40}
    Costs = {0, 4, 17}
    Overruns = {0, 1, 30}
    MaxArrivals = 2
INVARIANTS
    KeepsRealTime
    CatchesUpBriefly
    LatenessExplained
PROPERTIES
    QueuesDrained
CHECK_DEADLOCK FALSE
