SPECIFICATION Spec
CONSTANTS
    Peer = {p1, p2, p3}
    None = None
    MaxCalls = 2
    MaxUpsets = 1
    MaxId = 2
SYMMETRY Alike
INVARIANTS AtMostOnce Truthful InFlight Served
PROPERTIES Implements
CHECK_DEADLOCK FALSE
