--------------------------- MODULE MCRemoteCalls ---------------------------
(* Three peers for RemoteCalls, which differ in nothing but their names.   *)
EXTENDS RemoteCalls, TLC

Alike == Permutations(Peer)
=============================================================================
