--------------------------- MODULE MCInstanceIds ---------------------------
(* A small world for InstanceIds.                                          *)
EXTENDS InstanceIds

Nobody == {}
TwoPeers == 1 .. 2
ThreePeers == 1 .. 3
First == {1}
Last == {3}
LastTwo == {2, 3}
AnyLink == {l \in Peer \X Peer : l[1] # l[2]}

\* Bound: a link breaks or a peer restarts when everyone has got through to everyone.
AllUp == \A l \in AnyLink : link[l[1]][l[2]] = "up"
BreaksWhenUp == breaks' > breaks => AllUp
=============================================================================
