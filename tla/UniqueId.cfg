\* Two peers, of which the second to come up is the lead.
SPECIFICATION Spec
CONSTANTS
    Peer <- TwoPeers
    MaxId = 2
    MaxAsks = 2
    MaxBreaks = 0
    Asker <- TwoPeers
    Late <- First
    Frail <- Last
    Loose <- Nobody
    None = None
INVARIANT UniqueId
CHECK_DEADLOCK FALSE
