\* One peer, one user who comes back as the session closes.
SPECIFICATION Spec
CONSTANTS
    Peer = {a, b}
    Id = {s}
    MaxStarts = 2
    MaxBreaks = 0
    None = None
INVARIANT LocalIsHosted
SYMMETRY Symmetry
CHECK_DEADLOCK FALSE
