\* Two zones with an instance each, two users whose sessions may also come from
\* another peer, three moves between them.
SPECIFICATION Spec
CONSTANTS
    z1 = z1 z2 = z2 i1 = i1 i2 = i2 j1 = j1
    User = {u1, u2}
    Roaming = {u1, u2}
    Zone = {z1, z2}
    Instance = {i1, j1}
    ZoneOf <- MCZoneOf
    Pop = {1}
    MaxMoves = 3
    MaxUpdates = 0
    None = None
INVARIANT OpenIsFree
SYMMETRY UserSymmetry
CHECK_DEADLOCK FALSE
