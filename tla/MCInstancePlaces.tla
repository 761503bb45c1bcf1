-------------------------- MODULE MCInstancePlaces --------------------------
(* A small world for InstancePlaces: two zones, one of which may have two  *)
(* instances.                                                              *)
EXTENDS InstancePlaces, TLC

CONSTANTS z1, z2, i1, i2, j1

MCZoneOf == [i \in Instance |-> IF i = j1 THEN z2 ELSE z1]
UserSymmetry == Permutations(User)

\* What may still matter: no action looks at the user, goal and instance of a move that
\* is over, or at the instance of one that has not come to an instance yet.
UnderWay(k) == stage[k] \notin {"idle", "done"}
Matters ==
    <<places, people, queues, record, view, stage, updates,
      abroad \cap {k \in Move : UnderWay(k)}, orphan,
      [k \in Move |->
         <<IF UnderWay(k) THEN mover[k] ELSE None, IF UnderWay(k) THEN goal[k] ELSE None,
           IF stage[k] \in {"reserving", "going"} THEN inst[k] ELSE None>>]>>

\* Bound: a session starts here by itself when there is a move left that it could make.
StartsToMove == local' \subseteq local \/ abroad' # abroad \/ \E k \in Move : stage[k] = "idle"
=============================================================================
