CONSTANTS
    Producers = {p1, p2}
    Consumer = Consumer
    NoThread = NoThread
    WaitArguments = {TRUE, FALSE}
    MaxItems = 3
SPECIFICATION FairSpec
INVARIANTS
    NeverPopsEmpty
    SleepsOnlyByWindow
PROPERTIES
    FifoOrder
    HandledUnlessMissed
