SPECIFICATION Spec
CONSTANTS
    Databases <- MCDatabases
    Requests <- MCRequests
    JunkPacks <- MCJunkPacks
    JunkBytes = {0, 205}
    JunkGrades <- MCJunkGrades
    MaxHeroes = 2
    BarSize = 13
    FactionsPerPacket = 1
    LastFactions = 1
    RelationsPerPacket = 2
    LastRelations = 1
INVARIANTS
    EveryItemWritable
    TemplatesAgree
    WornAsChosen
    ItemsHeldOnce
    BarStaysInBounds
    InventoryShown
    FactionsAnnounced
    RelationsUnderstood
CHECK_DEADLOCK FALSE
