CONSTANTS
    Producers = {p1, p2}
    Consumer = Consumer
    NoThread = NoThread
    WaitArguments = {TRUE}
    MaxItems = 2
SPECIFICATION FairSpec
PROPERTY EveryItemHandled
