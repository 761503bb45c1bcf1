----------------------------- MODULE ZonePlaces -----------------------------
(* What the instances of zones promise those who move there, with no word  *)
(* of threads, queues, timers or open counts: a move is granted a place    *)
(* only in the zone it is to, and only while there is one that nobody      *)
(* holds, has taken or has taken away with him; a grant is good for one    *)
(* entry, by the session it was meant for and not by the user's next one;  *)
(* and nobody is in an instance without having been granted it.            *)
EXTENDS Integers, FiniteSets

CONSTANTS User, Zone, Instance, ZoneOf, Pop, Move, None

VARIABLES
    made,       \* the instances that exist
    limit,      \* limit[i]: the places of i
    holders,    \* holders[i]: the users i keeps a place for
    at,         \* at[u]: the instance that u is in
    lost,       \* lost[i]: places of i taken and never given back
    extra,      \* extra[i]: sessions i took in beyond its places
    mover, goal,\* of move k: its user, and the zone it is to (None: any)
    phase,      \* phase[k]: none, wanted, granted or over
    given,      \* given[k]: the instance that move k has been granted
    orphan      \* the moves whose session is gone

rooms == <<made, limit, holders, at, lost, extra>>
moves == <<mover, goal, phase, given, orphan>>
vars == <<rooms, moves>>

Init ==
    /\ made = {}
    /\ limit = [i \in Instance |-> 0]
    /\ holders = [i \in Instance |-> {}]
    /\ at = [u \in User |-> None]
    /\ lost = [i \in Instance |-> 0]
    /\ extra = [i \in Instance |-> 0]
    /\ mover = [k \in Move |-> None]
    /\ goal = [k \in Move |-> None]
    /\ phase = [k \in Move |-> "none"]
    /\ given = [k \in Move |-> None]
    /\ orphan = {}

Free(i) ==
    limit[i] - Cardinality(holders[i]) - Cardinality({u \in User : at[u] = i}) - lost[i] + extra[i]

\* u wants to move to z.
Want(k, u, z) ==
    /\ phase[k] = "none"
    /\ mover' = [mover EXCEPT ![k] = u]
    /\ goal' = [goal EXCEPT ![k] = z]
    /\ phase' = [phase EXCEPT ![k] = "wanted"]
    /\ UNCHANGED <<rooms, given, orphan>>

\* Move k is granted instance i.
Granted(k, i) ==
    /\ phase[k] = "wanted" /\ goal[k] \in {None, ZoneOf[i]}
    /\ phase' = [phase EXCEPT ![k] = "granted"]
    /\ given' = [given EXCEPT ![k] = i]

\* Instance i keeps a place for the move.  That of an earlier one of the same user
\* is lost.
Grant(k, i) ==
    /\ i \in made /\ Free(i) > 0 /\ Granted(k, i)
    /\ holders' = [holders EXCEPT ![i] = @ \cup {mover[k]}]
    /\ lost' = [lost EXCEPT ![i] = @ + (IF mover[k] \in holders[i] THEN 1 ELSE 0)]
    /\ UNCHANGED <<made, limit, at, extra, mover, goal, orphan>>

\* A new instance is made for the move, which keeps no place for it.
Build(k, i, n) ==
    /\ i \notin made /\ Granted(k, i)
    /\ made' = made \cup {i}
    /\ limit' = [limit EXCEPT ![i] = n]
    /\ UNCHANGED <<holders, at, lost, extra, mover, goal, orphan>>

\* A move comes to nothing.
Fail(k) ==
    /\ phase[k] \in {"wanted", "granted"}
    /\ phase' = [phase EXCEPT ![k] = "over"]
    /\ given' = [given EXCEPT ![k] = None]
    /\ orphan' = orphan \ {k}
    /\ UNCHANGED <<rooms, mover, goal>>

\* Instance i keeps no place for u any longer.
Return(i, u) ==
    /\ u \in holders[i]
    /\ holders' = [holders EXCEPT ![i] = @ \ {u}]
    /\ UNCHANGED <<made, limit, at, lost, extra, moves>>

Resize(i, n) ==
    /\ i \in made
    /\ limit' = [limit EXCEPT ![i] = n]
    /\ UNCHANGED <<made, holders, at, lost, extra, moves>>

\* u leaves the instance it is in.
Leave(u) ==
    /\ at[u] # None
    /\ at' = [at EXCEPT ![u] = None]
    /\ UNCHANGED <<made, limit, holders, lost, extra, moves>>

\* u arrives by move k.  The place kept for it becomes the place it takes.
Enter(k) ==
    LET u == mover[k]
        i == given[k]
    IN  /\ phase[k] = "granted" /\ k \notin orphan
        /\ at' = [at EXCEPT ![u] = i]
        /\ holders' = [holders EXCEPT ![i] = @ \ {u}]
        /\ extra' = [extra EXCEPT ![i] = @ + (IF u \in holders[i] THEN 0 ELSE 1)]
        /\ lost' = [j \in Instance |-> lost[j] + (IF at[u] = j THEN 1 ELSE 0)]
        /\ phase' = [phase EXCEPT ![k] = "over"]
        /\ given' = [given EXCEPT ![k] = None]
        /\ UNCHANGED <<made, limit, mover, goal, orphan>>

\* The session of u is gone without a word to the instance it is in.  Some of its
\* granted moves come to nothing with it, the others are nobody's.
Vanish(u) ==
    /\ at' = [at EXCEPT ![u] = None]
    /\ lost' = [i \in Instance |-> lost[i] + (IF at[u] = i THEN 1 ELSE 0)]
    /\ UNCHANGED <<made, limit, holders, extra, mover, goal>>
    /\ \E gone \in SUBSET {k \in Move : mover[k] = u /\ phase[k] = "granted"} :
         /\ orphan' = orphan \cup
                        {k \in Move \ gone : mover[k] = u /\ phase[k] \in {"wanted", "granted"}}
         /\ phase' = [k \in Move |-> IF k \in gone THEN "over" ELSE phase[k]]
         /\ given' = [k \in Move |-> IF k \in gone THEN None ELSE given[k]]

Next ==
    \/ /\ phase' # phase
       /\ \E k \in Move :
            \/ Fail(k) \/ Enter(k)
            \/ \E u \in User, z \in Zone \cup {None} : Want(k, u, z)
            \/ \E i \in Instance : Grant(k, i) \/ \E n \in Pop : Build(k, i, n)
    \/ /\ rooms' # rooms
       /\ \/ \E i \in Instance, u \in User : Return(i, u)
          \/ \E i \in Instance, n \in Pop : Resize(i, n)
          \/ \E u \in User : Leave(u)
    \/ \E u \in User : Vanish(u)

Spec == Init /\ [][Next]_vars
=============================================================================
