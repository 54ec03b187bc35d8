CONSTANTS
    Sizes = {0, 1, 2, 7}
    MaxFrames = 3
    MaxSends = 3
SPECIFICATION FairSpec
INVARIANTS
    WriterIsRunning
    ReaderIsRunning
    PacketsIntact
PROPERTIES
    WrittenInOrder
    EverythingWritten
CHECK_DEADLOCK FALSE
