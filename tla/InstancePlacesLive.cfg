\* One zone whose population limit changes once, two local users with a move each.
SPECIFICATION FairSpec
CONSTANTS
    z1 = z1 z2 = z2 i1 = i1 i2 = i2 j1 = j1
    User = {u1, u2}
    Roaming = {}
    Zone = {z1}
    Instance = {i1}
    ZoneOf <- MCZoneOf
    Pop = {0, 1}
    MaxMoves = 2
    MaxUpdates = 1
    None = None
PROPERTIES MoveSettles
CHECK_DEADLOCK FALSE
