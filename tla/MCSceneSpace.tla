---------------------------- MODULE MCSceneSpace ----------------------------
(* Two sessions in a row of four places with a column in it, and two       *)
(* pawns: one session may enter twice and leave a pawn of its behind for   *)
(* the other to meet.                                                      *)
EXTENDS SceneSpace, TLC

CONSTANTS s1, s2

MCSession == {s1, s2}
MCPawn == 1 .. 2
Symmetry == Permutations(MCSession)

=============================================================================
