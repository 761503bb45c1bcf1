------------------------- MODULE MCSessionRegistry -------------------------
(* A small world for SessionRegistry.                                      *)
EXTENDS SessionRegistry
=============================================================================
