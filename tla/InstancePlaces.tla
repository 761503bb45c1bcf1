--------------------------- MODULE InstancePlaces ---------------------------
(***************************************************************************)
(* Places in the instances of zones (scene/Zone.cpp, class Instance) and   *)
(* the sessions that ask for them, hold them, take them up and give them   *)
(* back (peer/PeerManager.cpp, scene/SceneManager.cpp, net/Session.cpp).   *)
(*                                                                         *)
(* Three kinds of thread take part.  The main thread runs the PeerManager, *)
(* the SceneManager and the ConnectionManager; every Instance runs in a    *)
(* scene thread; a Session runs in the thread of the instance it is in.    *)
(* They talk through Qt's queued calls, which are FIFO per pair of         *)
(* threads:                                                                *)
(*   calls[i]   main thread -> instance i  (reserve, cancel, updated)      *)
(*   posts[i]   instance i  -> main thread (open count, reply)             *)
(*   inbox[u]   the queued calls of the session of user u (go, enter)      *)
(*                                                                         *)
(* A move is one call of Session::moveToZone, or one request that another  *)
(* peer makes for a session of its own.  A session may have several moves  *)
(* under way: nothing in the code stops a second one.                      *)
(*                                                                         *)
(* The instances are those of this peer.  A move of its own may as well be *)
(* sent elsewhere: to an instance of another peer, or to have one created  *)
(* there.  What that peer says and when, and what this one believes of its *)
(* instances meanwhile, is up to it: the refusal and the announcement of   *)
(* its count come over different sockets.                                  *)
(*                                                                         *)
(* Regions and the order of the instances in the zone map are left out     *)
(* here (one region; any instance known to be open may be picked).         *)
(***************************************************************************)
EXTENDS Integers, Sequences, FiniteSets

CONSTANTS
    User,       \* user ids
    Zone,       \* zones
    Instance,   \* instance ids the lead peer can hand out
    ZoneOf,     \* [Instance -> Zone], scene/Zone.h getZoneId
    Roaming,    \* the users whose sessions may be on another peer
    Pop,        \* the values maxPopulation takes
    MaxMoves,   \* bound: the number of moves in a behaviour
    MaxUpdates, \* bound: the number of zone record updates in a behaviour
    None        \* "in no instance", and "nobody"

ASSUME UserAssumption == IsFiniteSet(User) /\ Roaming \subseteq User
ASSUME InstanceAssumption == None \notin Instance \cup User
ASSUME ZoneOfAssumption == ZoneOf \in [Instance -> Zone]
ASSUME PopAssumption == Pop \subseteq Nat
ASSUME BoundAssumption == MaxMoves \in Nat /\ MaxUpdates \in Nat

VARIABLES
    made,    \* the instances that exist
    record,  \* record[z]: maxPopulation in the zone's record
    maxPop,  \* maxPop[i]: maxPopulation in the instance's copy of it
    open,    \* open[i]: _info.open
    held,    \* held[i]: the keys of _placeReservationTimers
    timers,  \* timers[i][u]: the running timers of u's reservations at i
    at,      \* at[u]: _instance of the session of u
    sess,    \* sess[u]: away, live, or closing (closed but not yet deleted)
    local,   \* the users in the PeerManager's _localSessions
    view,    \* view[i]: the open count in the PeerManager's _instances
    mover, goal, inst, stage,   \* of move k: its user, the zone it is to, the
             \* instance it has come to, how far it is
    abroad,  \* the moves that another peer makes
    orphan,  \* the moves whose session, and so whose callback, is gone
    calls, posts, inbox,
    updates, \* the number of zone updates so far
    lost,    \* history: places of i that were taken and can never come back
    extra    \* history: sessions i took in without a reservation

places == <<made, maxPop, open, held, timers, lost, extra>>
people == <<at, sess, local>>
queues == <<calls, posts, inbox>>
moves == <<mover, goal, inst, stage, abroad, orphan>>
vars == <<places, people, queues, record, view, moves, updates>>

Move == 1 .. MaxMoves
Stage == {"idle", "asked", "reserving", "creating", "elsewhere", "going", "done"}

\* The moves that have a session and an instance: those a queue may speak of.
Placed == {k \in Move : mover[k] \in User /\ inst[k] \in made}
Call == [op : {"reserve"}, nr : Placed] \cup [op : {"cancel"}, user : User]
          \cup [op : {"updated"}, pop : Pop]
Post == [op : {"open"}, n : Int] \cup [op : {"reply"}, nr : Placed, ok : BOOLEAN]
Job == [op : {"go", "enter"}, nr : Placed]

QueuesOK ==
    /\ calls \in [Instance -> Seq(Call)]
    /\ posts \in [Instance -> Seq(Post)]
    /\ inbox \in [User -> Seq(Job)]

(* The shape of the state, and that no queue speaks of a move or an        *)
(* instance that is not there.                                             *)

TypeOK ==
    /\ made \subseteq Instance
    /\ record \in [Zone -> Pop]
    /\ maxPop \in [Instance -> Nat]
    /\ open \in [Instance -> Int]
    /\ held \in [Instance -> SUBSET User]
    /\ timers \in [Instance -> [User -> Int]]
    /\ at \in [User -> made \cup {None}]
    /\ sess \in [User -> {"away", "live", "closing"}]
    /\ local \subseteq User
    /\ view \in [Instance -> Int]
    /\ mover \in [Move -> User \cup {None}]
    /\ goal \in [Move -> Zone \cup {None}]
    /\ inst \in [Move -> made \cup {None}]
    /\ stage \in [Move -> Stage]
    /\ abroad \subseteq Move
    /\ orphan \subseteq Move
    /\ QueuesOK
    /\ updates \in 0 .. MaxUpdates
    /\ lost \in [Instance -> Nat]
    /\ extra \in [Instance -> Nat]

Occupants(i) == {u \in User : at[u] = i}

Init ==
    /\ made = {}
    /\ record \in [Zone -> Pop]
    /\ maxPop = [i \in Instance |-> 0]
    /\ open = [i \in Instance |-> 0]
    /\ held = [i \in Instance |-> {}]
    /\ timers = [i \in Instance |-> [u \in User |-> 0]]
    /\ at = [u \in User |-> None]
    /\ sess = [u \in User |-> "away"]
    /\ local = {}
    /\ view = [i \in Instance |-> 0]
    /\ mover = [k \in Move |-> None]
    /\ goal = [k \in Move |-> None]
    /\ inst = [k \in Move |-> None]
    /\ stage = [k \in Move |-> "idle"]
    /\ abroad = {}
    /\ orphan = {}
    /\ calls = [i \in Instance |-> <<>>]
    /\ posts = [i \in Instance |-> <<>>]
    /\ inbox = [u \in User |-> <<>>]
    /\ updates = 0
    /\ lost = [i \in Instance |-> 0]
    /\ extra = [i \in Instance |-> 0]

-----------------------------------------------------------------------------
(* Sessions come and go.                                                   *)

\* The next unused move, so that moves are numbered in the order they start.
Fresh(k) == stage[k] = "idle" /\ \A j \in 1 .. k - 1 : stage[j] # "idle"

\* A move made on another peer that has not come to an end.
AwayMove(u) == \E k \in abroad : mover[k] = u /\ stage[k] # "done"

\* ConnectionManager::tokenValidated: a connection of a user who has no
\* session anywhere gets a new one.
Login(u) ==
    /\ sess[u] = "away" /\ u \notin local /\ ~AwayMove(u)
    /\ sess' = [sess EXCEPT ![u] = "live"]
    /\ local' = local \cup {u}
    /\ UNCHANGED <<places, at, queues, record, view, moves, updates>>

\* Session::close, from the client, the close timer or a reconnect.  It leaves
\* the scene and tells the managers; it does not leave the instance.
Close(u) ==
    /\ sess[u] = "live"
    /\ sess' = [sess EXCEPT ![u] = "closing"]
    /\ UNCHANGED <<places, at, local, queues, record, view, moves, updates>>

\* PeerManager::sessionRemoved for a session of this peer.
SessionRemoved(u) ==
    /\ sess[u] # "live" /\ u \in local
    /\ local' = local \ {u}
    /\ UNCHANGED <<places, at, sess, queues, record, view, moves, updates>>

\* ConnectionManager::sessionClosed and the deferred deletion it asks for.  The
\* queued calls of the session die with it, and so do the callbacks to it.
Mine(u, k) == mover[k] = u /\ k \notin abroad

Delete(u) ==
    /\ sess[u] = "closing"
    /\ sess' = [sess EXCEPT ![u] = "away"]
    /\ at' = [at EXCEPT ![u] = None]
    /\ inbox' = [inbox EXCEPT ![u] = <<>>]
    /\ lost' = [i \in Instance |-> lost[i] + (IF at[u] = i THEN 1 ELSE 0)]
    /\ stage' = [k \in Move |-> IF Mine(u, k) /\ stage[k] = "going" THEN "done" ELSE stage[k]]
    /\ orphan' = orphan \cup {k \in Move : Mine(u, k) /\ stage[k] \notin {"going", "done"}}
    /\ UNCHANGED <<made, maxPop, open, held, timers, extra, local, calls, posts, record, view, updates,
                   mover, goal, inst, abroad>>

-----------------------------------------------------------------------------
(* The main thread: PeerManager, SceneManager, Zone.                       *)

\* Session::moveToZone of a zone the session is not in.
Ask(k, u, z) ==
    /\ Fresh(k) /\ sess[u] = "live"
    /\ \A i \in Instance : at[u] = i => ZoneOf[i] # z
    /\ mover' = [mover EXCEPT ![k] = u]
    /\ goal' = [goal EXCEPT ![k] = z]
    /\ stage' = [stage EXCEPT ![k] = "asked"]
    /\ UNCHANGED <<places, people, queues, record, view, updates, inst, abroad, orphan>>

\* Mutant: the instances of other zones are not passed over.
BelievedOfAny(z) == {i \in made : view[i] > 0}

\* PeerManager::reserveInstancePlace (by zone): an instance believed to be open
\* is asked for a place; if none is, a new instance is asked for.  Either may be a
\* matter of another peer: its instances, and its load, are its own.
Believed(z) == {i \in made : ZoneOf[i] = z /\ view[i] > 0}

Choose(k) ==
    /\ stage[k] = "asked"
    /\ \/ \E i \in Believed(goal[k]) :
            /\ stage' = [stage EXCEPT ![k] = "reserving"]
            /\ inst' = [inst EXCEPT ![k] = i]
            /\ calls' = [calls EXCEPT ![i] = Append(@, [op |-> "reserve", nr |-> k])]
       \/ /\ Believed(goal[k]) = {}
          /\ stage' = [stage EXCEPT ![k] = "creating"]
          /\ UNCHANGED <<calls, inst>>
       \/ /\ stage' = [stage EXCEPT ![k] = "elsewhere"]
          /\ UNCHANGED <<calls, inst>>
    /\ UNCHANGED <<places, people, posts, inbox, record, view, updates, mover, goal, abroad, orphan>>

\* Zone::continueCreatingInstance and the constructor of Instance: the new
\* instance starts with all of its places open, and the one who asked for it is
\* answered with its id.
Created(k, i) ==
    /\ stage[k] = "creating" /\ i \notin made /\ ZoneOf[i] = goal[k]
    /\ made' = made \cup {i}
    /\ maxPop' = [maxPop EXCEPT ![i] = record[ZoneOf[i]]]
    /\ open' = [open EXCEPT ![i] = record[ZoneOf[i]]]
    /\ view' = [view EXCEPT ![i] = record[ZoneOf[i]]]
    /\ posts' = [posts EXCEPT ![i] = Append(@, [op |-> "reply", nr |-> k, ok |-> TRUE])]
    /\ stage' = [stage EXCEPT ![k] = "reserving"]
    /\ inst' = [inst EXCEPT ![k] = i]
    /\ UNCHANGED <<held, timers, lost, extra, people, calls, inbox, record, updates,
                   mover, goal, abroad, orphan>>

\* Move k comes back without a place: if its session is no longer listed that is the end
\* of it, otherwise the whole request is reissued (instancePlaceMaybeReserved).
Refused(k) ==
    /\ stage' = [stage EXCEPT ![k] = IF mover[k] \in local THEN "asked" ELSE "done"]
    /\ orphan' = {j \in orphan : stage'[j] # "done"}
    /\ UNCHANGED <<places, people, queues, record, view, updates, mover, goal, inst, abroad>>

\* SceneManager::continueCreatingInstance, PeerManager::instanceMaybeCreated: the zone is
\* not to be had, or no id for the instance (the one that is created then, of id 0, is in
\* no zone's map that is looked into here).  Either is answered with the id 0.
CreateFails(k) == stage[k] = "creating" /\ Refused(k)

\* Another peer refuses, has no such instance or cannot create one; or there is no Peer
\* object for it, and the default comes at once (PeerManager::request).
RefusedElsewhere(k) == stage[k] = "elsewhere" /\ Refused(k)

\* Or it has a place.  The session, if it is still listed, has itself transferred, which
\* changes nothing here until it is told to reconnect and closes; else the place is
\* cancelled there (instancePlaceMaybeReserved, Session::continueMovingToZone).  Or the
\* answer, which may be that of the lead about an id, is lost with a link, and nobody
\* hears of the move again.
GoneElsewhere(k) ==
    /\ stage[k] \in {"elsewhere", "creating"}
    /\ stage' = [stage EXCEPT ![k] = "done"]
    /\ orphan' = orphan \ {k}
    /\ UNCHANGED <<places, people, queues, record, view, updates, mover, goal, inst, abroad>>

\* Another peer's PeerManager asks one of our instances for a place, for a
\* session of its own (RequestMessage::handle, SceneManager::reserveInstancePlace).
AskFromAway(k, u, i) ==
    /\ Fresh(k) /\ sess[u] = "away" /\ u \notin local /\ ~AwayMove(u) /\ i \in made
    /\ mover' = [mover EXCEPT ![k] = u]
    /\ inst' = [inst EXCEPT ![k] = i]
    /\ stage' = [stage EXCEPT ![k] = "reserving"]
    /\ abroad' = abroad \cup {k}
    /\ calls' = [calls EXCEPT ![i] = Append(@, [op |-> "reserve", nr |-> k])]
    /\ UNCHANGED <<places, people, posts, inbox, record, view, updates, goal, orphan>>

\* Zone::updated: the record changes and every instance of the zone is told.
ZoneUpdated(z, n) ==
    /\ updates < MaxUpdates /\ n # record[z]
    /\ updates' = updates + 1
    /\ record' = [record EXCEPT ![z] = n]
    /\ calls' = [i \in Instance |->
                   IF i \in made /\ ZoneOf[i] = z
                   THEN Append(calls[i], [op |-> "updated", pop |-> n]) ELSE calls[i]]
    /\ UNCHANGED <<places, people, posts, inbox, view, moves>>

\* Mutant: the entry is not found, and stays as it was.
InstanceUpdatedUnfound(i) ==
    /\ posts[i] # <<>> /\ Head(posts[i]).op = "open"
    /\ posts' = [posts EXCEPT ![i] = Tail(@)]
    /\ UNCHANGED <<places, people, calls, inbox, record, view, moves, updates>>

\* PeerManager::instanceUpdated.
InstanceUpdated(i) ==
    /\ posts[i] # <<>> /\ Head(posts[i]).op = "open"
    /\ view' = [view EXCEPT ![i] = Head(posts[i]).n]
    /\ posts' = [posts EXCEPT ![i] = Tail(@)]
    /\ UNCHANGED <<places, people, calls, inbox, record, moves, updates>>

\* PeerManager::instancePlaceMaybeReserved (by zone), for a session of ours.  If
\* the session is no longer listed, a place it was given is cancelled and nobody
\* is called; otherwise the session is called, or the whole request is reissued.
PlaceMaybeReserved(i) ==
    /\ posts[i] # <<>> /\ Head(posts[i]).op = "reply"
    /\ LET k == Head(posts[i]).nr
           ok == Head(posts[i]).ok
           u == mover[k]
       IN  /\ k \notin abroad
           /\ posts' = [posts EXCEPT ![i] = Tail(@)]
           /\ \/ /\ u \notin local
                 /\ calls' = IF ok THEN [calls EXCEPT ![i] =
                                           Append(@, [op |-> "cancel", user |-> u])]
                             ELSE calls
                 /\ stage' = [stage EXCEPT ![k] = "done"]
                 /\ UNCHANGED inbox
              \/ /\ u \in local /\ ok /\ k \notin orphan
                 /\ inbox' = [inbox EXCEPT ![u] = Append(@, [op |-> "go", nr |-> k])]
                 /\ stage' = [stage EXCEPT ![k] = "going"]
                 /\ UNCHANGED calls
              \/ /\ u \in local /\ ok /\ k \in orphan
                 /\ stage' = [stage EXCEPT ![k] = "done"]
                 /\ UNCHANGED <<calls, inbox>>
              \/ /\ u \in local /\ ~ok
                 /\ stage' = [stage EXCEPT ![k] = "asked"]
                 /\ UNCHANGED <<calls, inbox>>
           /\ orphan' = {j \in orphan : stage'[j] # "done"}
    /\ UNCHANGED <<places, people, record, view, updates, mover, goal, inst, abroad>>

\* The reply to another peer.  There the session may have gone (the place is
\* cancelled), the reply may be lost with the connection, or the peer gives up;
\* otherwise the session is transferred here (ConnectionManager::transferSession)
\* and its constructor moves it into the instance.
ReplyToAway(i) ==
    /\ posts[i] # <<>> /\ Head(posts[i]).op = "reply"
    /\ LET k == Head(posts[i]).nr
           ok == Head(posts[i]).ok
           u == mover[k]
       IN  /\ k \in abroad
           /\ posts' = [posts EXCEPT ![i] = Tail(@)]
           /\ \/ /\ ok
                 /\ calls' = [calls EXCEPT ![i] = Append(@, [op |-> "cancel", user |-> u])]
                 /\ stage' = [stage EXCEPT ![k] = "done"]
                 /\ UNCHANGED <<sess, local, inbox, abroad>>
              \/ /\ stage' = [stage EXCEPT ![k] = "done"]
                 /\ UNCHANGED <<sess, local, inbox, calls, abroad>>
              \/ /\ ok
                 /\ sess' = [sess EXCEPT ![u] = "live"]
                 /\ local' = local \cup {u}
                 /\ inbox' = [inbox EXCEPT ![u] = Append(@, [op |-> "go", nr |-> k])]
                 /\ stage' = [stage EXCEPT ![k] = "going"]
                 /\ abroad' = abroad \ {k}
                 /\ UNCHANGED calls
    /\ UNCHANGED <<places, at, record, view, updates, mover, goal, inst, orphan>>

-----------------------------------------------------------------------------
(* An instance, in its own thread.                                         *)

\* Every change of the open count is announced to the PeerManagers.
Announce(q, n) == Append(q, [op |-> "open", n |-> n])

\* Mutant: an instance with no open place accepts one more.
ReserveOneMore(i) ==
    /\ calls[i] # <<>> /\ Head(calls[i]).op = "reserve"
    /\ LET k == Head(calls[i]).nr
           u == mover[k]
       IN  /\ calls' = [calls EXCEPT ![i] = Tail(@)]
           /\ open[i] >= 0
           /\ held' = [held EXCEPT ![i] = @ \cup {u}]
           /\ timers' = [timers EXCEPT ![i][u] = @ + 1]
           /\ open' = [open EXCEPT ![i] = @ - 1]
           /\ lost' = [lost EXCEPT ![i] = @ + (IF u \in held[i] THEN 1 ELSE 0)]
           /\ posts' = [posts EXCEPT ![i] =
                          Append(Announce(@, open[i] - 1), [op |-> "reply", nr |-> k, ok |-> TRUE])]
    /\ UNCHANGED <<made, maxPop, extra, people, inbox, record, view, moves, updates>>

\* Instance::reservePlace.  The timer is inserted under the user's id and takes
\* the place of an earlier one, which runs on; the place of that one is never
\* given back.
Reserve(i) ==
    /\ calls[i] # <<>> /\ Head(calls[i]).op = "reserve"
    /\ LET k == Head(calls[i]).nr
           u == mover[k]
       IN  /\ calls' = [calls EXCEPT ![i] = Tail(@)]
           /\ \/ /\ open[i] <= 0
                 /\ posts' = [posts EXCEPT ![i] =
                                Append(@, [op |-> "reply", nr |-> k, ok |-> FALSE])]
                 /\ UNCHANGED <<open, held, timers, lost>>
              \/ /\ open[i] > 0
                 /\ held' = [held EXCEPT ![i] = @ \cup {u}]
                 /\ timers' = [timers EXCEPT ![i][u] = @ + 1]
                 /\ open' = [open EXCEPT ![i] = @ - 1]
                 /\ lost' = [lost EXCEPT ![i] = @ + (IF u \in held[i] THEN 1 ELSE 0)]
                 /\ posts' = [posts EXCEPT ![i] =
                                Append(Announce(@, open[i] - 1),
                                       [op |-> "reply", nr |-> k, ok |-> TRUE])]
    /\ UNCHANGED <<made, maxPop, extra, people, inbox, record, view, moves, updates>>

\* Mutant: a place given back is not announced.
GiveUpQuietly(i, u) ==
    IF u \in held[i]
    THEN /\ held' = [held EXCEPT ![i] = @ \ {u}]
         /\ timers' = [timers EXCEPT ![i][u] = @ - 1]
         /\ open' = [open EXCEPT ![i] = @ + 1]
         /\ UNCHANGED posts
    ELSE UNCHANGED <<held, timers, open, posts>>

\* Mutant: the timer is taken out of the hash and not deleted.
GiveUpRunning(i, u) ==
    IF u \in held[i]
    THEN /\ held' = [held EXCEPT ![i] = @ \ {u}]
         /\ open' = [open EXCEPT ![i] = @ + 1]
         /\ posts' = [posts EXCEPT ![i] = Announce(@, open[i] + 1)]
         /\ UNCHANGED timers
    ELSE UNCHANGED <<held, timers, open, posts>>

\* Instance::cancelPlaceReservation.
GiveUp(i, u) ==
    IF u \in held[i]
    THEN /\ held' = [held EXCEPT ![i] = @ \ {u}]
         /\ timers' = [timers EXCEPT ![i][u] = @ - 1]
         /\ open' = [open EXCEPT ![i] = @ + 1]
         /\ posts' = [posts EXCEPT ![i] = Announce(@, open[i] + 1)]
    ELSE UNCHANGED <<held, timers, open, posts>>

Cancel(i) ==
    /\ calls[i] # <<>> /\ Head(calls[i]).op = "cancel"
    /\ GiveUp(i, Head(calls[i]).user)
    /\ calls' = [calls EXCEPT ![i] = Tail(@)]
    /\ UNCHANGED <<made, maxPop, lost, extra, people, inbox, record, view, moves, updates>>

\* Instance::clearPlaceReservation, when a timer fires: whatever its user holds is
\* cancelled, and the timer in the hash deleted.  One that was replaced there is not;
\* it repeats, and fires again.
Expire(i, u) ==
    /\ timers[i][u] > 0
    /\ GiveUp(i, u)
    /\ UNCHANGED <<made, maxPop, lost, extra, people, calls, inbox, record, view, moves, updates>>

\* Mutant: the change is not announced.
ResizeQuietly(i) ==
    /\ calls[i] # <<>> /\ Head(calls[i]).op = "updated"
    /\ open' = [open EXCEPT ![i] = @ + (Head(calls[i]).pop - maxPop[i])]
    /\ maxPop' = [maxPop EXCEPT ![i] = Head(calls[i]).pop]
    /\ calls' = [calls EXCEPT ![i] = Tail(@)]
    /\ UNCHANGED <<made, held, timers, lost, extra, people, posts, inbox, record, view, moves, updates>>

\* Instance::updated.
Resize(i) ==
    /\ calls[i] # <<>> /\ Head(calls[i]).op = "updated"
    /\ LET n == Head(calls[i]).pop
       IN  /\ open' = [open EXCEPT ![i] = @ + (n - maxPop[i])]
           /\ maxPop' = [maxPop EXCEPT ![i] = n]
           /\ posts' = IF n = maxPop[i] THEN posts
                       ELSE [posts EXCEPT ![i] = Announce(@, open[i] + (n - maxPop[i]))]
    /\ calls' = [calls EXCEPT ![i] = Tail(@)]
    /\ UNCHANGED <<made, held, timers, lost, extra, people, inbox, record, view, moves, updates>>

-----------------------------------------------------------------------------
(* A session moves.                                                        *)

\* Mutant: the session does not leave the instance it was in.
GoStaying(u) ==
    /\ inbox[u] # <<>> /\ Head(inbox[u]).op = "go"
    /\ inbox' = [inbox EXCEPT ![u] = Append(Tail(@), [op |-> "enter", nr |-> Head(@).nr])]
    /\ at' = [at EXCEPT ![u] = None]
    /\ UNCHANGED <<made, maxPop, open, posts, held, timers, lost, extra, sess, local, calls, record, view,
                   moves, updates>>

\* Session::continueMovingToZone (peer, id): the session leaves the instance it
\* is in (Instance::removeSession) and posts itself to the thread of the next.
Go(u) ==
    /\ inbox[u] # <<>> /\ Head(inbox[u]).op = "go"
    /\ inbox' = [inbox EXCEPT ![u] = Append(Tail(@), [op |-> "enter", nr |-> Head(@).nr])]
    /\ \/ /\ at[u] = None
          /\ UNCHANGED <<open, posts>>
       \/ /\ at[u] # None
          /\ open' = [open EXCEPT ![at[u]] = @ + 1]
          /\ posts' = [posts EXCEPT ![at[u]] = Announce(@, open[at[u]] + 1)]
    /\ at' = [at EXCEPT ![u] = None]
    /\ UNCHANGED <<made, maxPop, held, timers, lost, extra, sess, local, calls, record, view, moves, updates>>

\* Session::continueMovingToZone (instance) and Instance::addSession: a
\* reservation, if there still is one, is used up; without one the session enters
\* all the same and takes no place.  An instance entered by an earlier move that
\* was still under way is forgotten, not left.
Enter(u) ==
    /\ inbox[u] # <<>> /\ Head(inbox[u]).op = "enter"
    /\ LET k == Head(inbox[u]).nr
           i == inst[k]
       IN  /\ held' = [held EXCEPT ![i] = @ \ {u}]
           /\ timers' = [timers EXCEPT ![i][u] = IF u \in held[i] THEN @ - 1 ELSE @]
           /\ extra' = [extra EXCEPT ![i] = @ + (IF u \in held[i] THEN 0 ELSE 1)]
           /\ lost' = [j \in Instance |-> lost[j] + (IF at[u] = j THEN 1 ELSE 0)]
           /\ at' = [at EXCEPT ![u] = i]
           /\ stage' = [stage EXCEPT ![k] = "done"]
    /\ inbox' = [inbox EXCEPT ![u] = Tail(@)]
    /\ UNCHANGED <<made, maxPop, open, sess, local, calls, posts, record, view, updates,
                   mover, goal, inst, abroad, orphan>>

-----------------------------------------------------------------------------
Next ==
    \/ \E u \in User : Login(u) \/ Close(u) \/ SessionRemoved(u) \/ Delete(u)
    \/ \E k \in Move, u \in User, z \in Zone : Ask(k, u, z)
    \/ \E k \in Move, u \in Roaming, i \in Instance : AskFromAway(k, u, i)
    \/ \E k \in Move : Choose(k) \/ CreateFails(k) \/ RefusedElsewhere(k) \/ GoneElsewhere(k)
    \/ \E k \in Move, i \in Instance : Created(k, i)
    \/ \E z \in Zone, n \in Pop : ZoneUpdated(z, n)
    \/ \E i \in Instance : InstanceUpdated(i) \/ PlaceMaybeReserved(i) \/ ReplyToAway(i)
    \/ \E i \in Instance : Reserve(i) \/ Cancel(i) \/ Resize(i)
    \/ \E i \in Instance, u \in User : Expire(i, u)
    \/ \E u \in User : Go(u) \/ Enter(u)

Spec == Init /\ [][Next]_vars

(* Every event loop keeps running and a started timer fires; what is asked *)
(* of another peer is answered, or the answer lost; nothing makes a user   *)
(* log in, ask or leave.                                                   *)
FairSpec ==
    /\ Spec
    /\ \A k \in Move :
         /\ WF_vars(Choose(k))
         /\ WF_vars(RefusedElsewhere(k) \/ GoneElsewhere(k)
                       \/ CreateFails(k) \/ \E i \in Instance : Created(k, i))
    /\ \A i \in Instance :
         /\ WF_vars(InstanceUpdated(i) \/ PlaceMaybeReserved(i) \/ ReplyToAway(i))
         /\ WF_vars(Reserve(i) \/ Cancel(i) \/ Resize(i))
         /\ \A u \in User : WF_vars(Expire(i, u))
    /\ \A u \in User : WF_vars(Go(u) \/ Enter(u)) /\ WF_vars(Delete(u)) /\ WF_vars(SessionRemoved(u))

-----------------------------------------------------------------------------
(* Needed for the proofs: nothing has happened yet to an instance that     *)
(* does not exist, and a move that has started has a session.              *)
Untouched == \A i \in Instance \ made :
    /\ held[i] = {} /\ timers[i] = [u \in User |-> 0] /\ calls[i] = <<>> /\ posts[i] = <<>>
    /\ lost[i] = 0 /\ extra[i] = 0

Owned == \A k \in Move : stage[k] # "idle" => mover[k] \in User

IInv == TypeOK /\ Untouched /\ Owned

\* The moves that queue q speaks of by one of the calls ops; no two of these calls are
\* of the same move.
Numbers(q, ops) == {q[n].nr : n \in {m \in DOMAIN q : q[m].op \in ops}}
Single(q, ops) == \A m, n \in DOMAIN q :
    q[m].op \in ops /\ q[n].op \in ops /\ q[m].nr = q[n].nr => m = n

Reserving(i) == Numbers(calls[i], {"reserve"})
Replying(i) == Numbers(posts[i], {"reply"})
Going(u) == Numbers(inbox[u], {"go", "enter"})

\* A move is spoken of once: by the request or the reply of the instance it has come to, or
\* by its session's own calls.
Once ==
    /\ \A i \in Instance :
         /\ Single(calls[i], {"reserve"}) /\ Single(posts[i], {"reply"})
         /\ Reserving(i) \cap Replying(i) = {}
         /\ \A k \in Reserving(i) \cup Replying(i) : stage[k] = "reserving" /\ inst[k] = i
    /\ \A u \in User :
         /\ Single(inbox[u], {"go", "enter"})
         /\ \A k \in Going(u) : stage[k] = "going" /\ mover[k] = u

\* A move that has not started is nobody's; it comes to an instance of the zone it is to.
Headed == \A k \in Move :
    /\ stage[k] = "idle" => mover[k] = None /\ goal[k] = None
    /\ stage[k] \in {"reserving", "going"} => inst[k] \in made /\ goal[k] \in {None, ZoneOf[inst[k]]}

\* A user whom another peer moves has no session here, and is moved once at a time; an
\* orphaned move is still under way, and from here.
Parted ==
    /\ \A k \in abroad : stage[k] # "done" => stage[k] = "reserving" /\ sess[mover[k]] = "away"
    /\ \A j, k \in abroad : mover[j] = mover[k] /\ stage[j] # "done" /\ stage[k] # "done" => j = k
    /\ \A k \in orphan : k \in Move \ abroad /\ stage[k] \in {"asked", "creating", "elsewhere", "reserving"}

Travels == Once /\ Headed /\ Parted

(* The books of an instance: its open count is its capacity less the       *)
(* reservations it holds and the sessions in it, short by exactly the      *)
(* places lost for good and over by exactly the sessions taken in without  *)
(* a reservation.  Zone.cpp keeps this count in five handlers run from     *)
(* three threads.                                                          *)
Ledger == \A i \in made :
    open[i] = maxPop[i] - Cardinality(held[i]) - Cardinality(Occupants(i)) - lost[i] + extra[i]

(* What the PeerManager will believe once it has read the instance's posts *)
(* is the open count: no handler of Instance changes the count without     *)
(* announcing it, and the announcements stay in order.  LastTold(i, n):    *)
(* the n-th post is the last announcement under way (0: there is none).    *)
LastTold(i, n) ==
    /\ n > 0 => posts[i][n].op = "open"
    /\ \A m \in n + 1 .. Len(posts[i]) : posts[i][m].op # "open"

ViewFollows == \A i \in made : \E n \in 0 .. Len(posts[i]) :
    /\ LastTold(i, n)
    /\ open[i] = IF n = 0 THEN view[i] ELSE posts[i][n].n

\* Behind the posts that say how many places are open comes no refusal unless the last
\* of them, or what is believed already, is that there is none.
FullFirst == \A i \in made : \A n \in DOMAIN posts[i] :
    posts[i][n].op = "reply" /\ ~posts[i][n].ok =>
        \E m \in 0 .. n - 1 :
            /\ m > 0 => posts[i][m].op = "open"
            /\ \A j \in m + 1 .. n : posts[i][j].op # "open"
            /\ IF m = 0 THEN view[i] <= 0 ELSE posts[i][m].n <= 0

(* A request that an instance of this peer refuses is not reissued to it:  *)
(* when the PeerManager reads the refusal it already believes that there   *)
(* is no place left there (instancePlaceMaybeReserved calls                *)
(* reserveInstancePlace at once, which goes by the belief).  Nothing like  *)
(* it holds of the instances of other peers: what they refuse may be asked *)
(* of them again at once.                                                  *)
LooksElsewhere == [][\A k \in Move :
    stage[k] = "reserving" /\ stage'[k] = "asked" => view[inst[k]] <= 0]_vars

(* As long as the limit does not change, an instance is overfull only by   *)
(* the sessions it took in without a reservation: reservePlace never       *)
(* promises more places than there are, however the reservations, their    *)
(* timers, arrivals and departures interleave.                             *)
NoOverbooking == updates = 0 => \A i \in made :
    Cardinality(held[i]) + Cardinality(Occupants(i)) + lost[i] <= maxPop[i] + extra[i]

(* A timer runs for every reservation, so that none is held for ever; and  *)
(* one that runs without is of a reservation that another has replaced,    *)
(* whose place is lost: reservePlace, cancelPlaceReservation and addSession*)
(* delete every other with its reservation.                                *)
TimersKept == \A i \in Instance, u \in User :
    timers[i][u] - (IF u \in held[i] THEN 1 ELSE 0) \in 0 .. lost[i]

\* Move k comes back from another peer, or from a creation, to be asked again.
SentBack(k) == stage[k] \in {"creating", "elsewhere"} /\ stage'[k] = "asked"

(* A move that has been asked for comes to an end: the session arrives     *)
(* here, has itself transferred or has gone, or the answer is lost.  The   *)
(* instances of this peer do not send it round for ever: one that refuses  *)
(* has announced that it is full before its refusal arrives.  Other peers, *)
(* and creations that fail, may.                                           *)
MoveSettles == \A k \in Move :
    \/ []<><<SentBack(k)>>_vars
    \/ stage[k] = "asked" ~> stage[k] = "done"

(* Seen from those who move, that is all that happens (ZonePlaces).        *)
(* Granted(k): a place is promised to move k, and the answer is on its way *)
(* to its session or the session on its way to the instance.               *)
Granted(k) ==
    \/ stage[k] = "going"
    \/ /\ stage[k] = "reserving"
       /\ \E n \in DOMAIN posts[inst[k]] :
            LET e == posts[inst[k]][n] IN e.op = "reply" /\ e.nr = k /\ e.ok

Phase(k) ==
    CASE stage[k] = "idle" -> "none"
      [] stage[k] = "done" -> "over"
      [] Granted(k) -> "granted"
      [] OTHER -> "wanted"

(* A move is granted a place only where there is one, by the counts of     *)
(* holders and occupants and not by what anyone believes; a grant is good  *)
(* for one entry, by the session that asked, into the zone it asked for    *)
(* (Instance::reservePlace, instancePlaceMaybeReserved, addSession).       *)
Promise == INSTANCE ZonePlaces WITH
    limit <- maxPop, holders <- held,
    phase <- [k \in Move |-> Phase(k)],
    given <- [k \in Move |-> IF Granted(k) THEN inst[k] ELSE None]
Implements == Promise!Spec

(* PeerManager.h:584 says of InstanceInfo::open "The number of spaces      *)
(* currently open in the instance": capacity less reservations and         *)
(* occupants.                                                              *)
OpenIsFree == \A i \in made :
    open[i] = maxPop[i] - Cardinality(held[i]) - Cardinality(Occupants(i))
=============================================================================
