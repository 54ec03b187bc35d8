CONSTANTS
    Sessions = {s1, s2}
    Handles = {e1, e2}
    NullEntity = NullEntity
    Positions = {p0}
    SpawnPosition = p0
    Templates = {whole}
    Fragmentable = {whole}
    Unseen = Unseen
    MaxObjects = 2
    MaxCharacters = 1
    MaxLogins = 3
SPECIFICATION JourneySpec
INVARIANTS
    CookieNamesAccount
PROPERTIES
    EveryoneMeets
    LoginLeadsToWorld
CHECK_DEADLOCK FALSE
