\* Three peers, two requests for an id by those who do not lead, one break of a
\* link or restart of a peer, when all are connected.
SPECIFICATION Spec
CONSTANTS
    Peer <- ThreePeers
    MaxId = 2
    MaxAsks = 2
    MaxBreaks = 1
    Asker <- LastTwo
    Late <- Nobody
    Frail <- ThreePeers
    Loose <- AnyLink
    None = None
ACTION_CONSTRAINT BreaksWhenUp
INVARIANTS OneGrant NoLeak InstancesKnown Attached
CHECK_DEADLOCK FALSE
