CONSTANTS
    Sessions = {s1, s2}
    Handles = {e1, e2, e3}
    NullEntity = NullEntity
    Positions = {p0, p1}
    SpawnPosition = p0
    Templates = {whole, ragged}
    Fragmentable = {whole}
    Unseen = Unseen
    MaxObjects = 3
    MaxCharacters = 2
SPECIFICATION GameSpec
SYMMETRY Symmetry
INVARIANT RefusalSurvived
CHECK_DEADLOCK FALSE
