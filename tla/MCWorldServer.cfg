CONSTANTS
    Sessions = {s1, s2}
    Handles = {e1, e2}
    NullEntity = NullEntity
    Positions = {p0, p1}
    SpawnPosition = p0
    Templates = {whole, ragged}
    Fragmentable = {whole}
    Unseen = Unseen
    MaxObjects = 2
SPECIFICATION Spec
SYMMETRY Symmetry
INVARIANTS
    ObjectsResolve
    SelectedIsHeld
CHECK_DEADLOCK FALSE
