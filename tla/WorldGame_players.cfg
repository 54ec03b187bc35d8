CONSTANTS
    Sessions = {s1, s2, s3}
    Handles = {e1, e2, e3}
    NullEntity = NullEntity
    Positions = {p0, p1}
    SpawnPosition = p0
    Templates = {whole}
    Fragmentable = {whole}
    Unseen = Unseen
    MaxObjects = 3
    MaxCharacters = 2
SPECIFICATION GameSpec
SYMMETRY Symmetry
INVARIANTS
    GameTypeOK
    InGameHasCharacter
    ViewsAgree
PROPERTIES
    MovementAfterState
    SharedWorldSpec
CHECK_DEADLOCK FALSE
