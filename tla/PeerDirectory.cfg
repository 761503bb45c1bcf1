\* Three peers, two users, two sessions that start or change user, one break of a
\* link or restart of a peer.
SPECIFICATION Spec
CONSTANTS
    Peer = {a, b, c}
    Id = {s, t}
    MaxStarts = 2
    MaxBreaks = 1
    None = None
INVARIANTS TypeOK Attached NoGhost OneSession Known Hosted
SYMMETRY Symmetry
CHECK_DEADLOCK FALSE
