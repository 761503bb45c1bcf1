-------------------------- MODULE MCPeerDirectory --------------------------
(* A small world for PeerDirectory.                                        *)
EXTENDS PeerDirectory, TLC

Symmetry == Permutations(Peer) \cup Permutations(Id)
=============================================================================
