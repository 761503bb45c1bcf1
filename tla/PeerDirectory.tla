--------------------------- MODULE PeerDirectory ---------------------------
(* Who is online, and where: the session maps of every peer                *)
(* (peer/PeerManager.cpp sessionAdded, sessionRemoved;                     *)
(* peer/PeerConnection.cpp; net/Session.cpp).                              *)
(*                                                                         *)
(* A session tells every peer when it starts and when it closes; a peer    *)
(* that gets through to another lists its own sessions, and one that is    *)
(* cut off forgets what came over the connection.  The id of a session is  *)
(* the id of its user, so the same id may start on another peer: by a      *)
(* transfer, or because the user logs on there.  Then the session on the   *)
(* first is told to reconnect and closes.  It may also start again on the  *)
(* same peer, whose map of sessions then loses the object it had: when     *)
(* that closes, it takes the new one with it.                              *)
EXTENDS PeerLinks, FiniteSets

CONSTANTS
    Id,         \* session ids
    MaxStarts,  \* bound: the number of sessions started and changes of user
    None        \* "in no map"

ASSUME NoneAssumption == None \notin Peer
ASSUME IdAssumption == IsFiniteSet(Id)
ASSUME StartsAssumption == MaxStarts \in Nat

VARIABLES
    sessions,   \* sessions[p][s]: the peer in p's _sessions entry for s
    brought,    \* brought[p][q]: _sessions of p's connection from q
    object,     \* object[p][s]: the Session object that p's ConnectionManager
                \* has for s: none, live, or told to reconnect
    older,      \* older[p]: ids of which p has a Session object that another
                \* has taken the place of
    leaving,    \* leaving[p]: ids whose end p has yet to announce
    changing,   \* changing[p]: <<s, t>> for a session that was s and is t, which
                \* p has yet to announce
    starts,     \* the number of sessions started and changes so far
    hosts,      \* history: the peers that have hosted s
    hasty,      \* history: ids that came to a peer which still had a session
                \* of them, or had yet to announce the end of one
    undone      \* history: ids whose session an older one closed before it
                \* was announced

ends == <<older, leaving, changing>>
history == <<starts, hosts, hasty, undone>>
vars == <<links, sessions, brought, object, ends, history>>

Msg == [op : {"hello", "eof"}] \cup [op : {"added", "removed"}, id : Id]

TypeOK ==
    /\ LinksOK(Msg) /\ AllFramed
    /\ sessions \in [Peer -> [Id -> Peer \cup {None}]]
    /\ brought \in [Peer -> [Peer -> SUBSET Id]]
    /\ object \in [Peer -> [Id -> {"none", "live", "told"}]]
    /\ older \in [Peer -> SUBSET Id]
    /\ leaving \in [Peer -> SUBSET Id]
    /\ changing \in [Peer -> SUBSET (Id \X Id)]
    /\ starts \in 0 .. MaxStarts
    /\ hosts \in [Id -> SUBSET Peer]
    /\ hasty \subseteq Id
    /\ undone \subseteq Id

Init ==
    /\ LinksInit
    /\ sessions = [p \in Peer |-> [s \in Id |-> None]]
    /\ brought = [p \in Peer |-> [q \in Peer |-> {}]]
    /\ object = [p \in Peer |-> [s \in Id |-> "none"]]
    /\ older = [p \in Peer |-> {}]
    /\ leaving = [p \in Peer |-> {}]
    /\ changing = [p \in Peer |-> {}]
    /\ starts = 0
    /\ hosts = [s \in Id |-> {}]
    /\ hasty = {}
    /\ undone = {}

\* _localSessions.
Local(p) == {s \in Id : sessions[p][s] = p}

(* Mutant: whose session is removed does not matter.                       *)
RemovedFromAny(p, s, q) ==
    /\ sessions' = [sessions EXCEPT ![p][s] = None]
    /\ brought' = [brought EXCEPT ![p] = [r \in Peer |-> IF r = q THEN @[r] \ {s} ELSE @[r]]]

\* PeerManager::sessionRemoved at p, of s on q.
Removed(p, s, q) ==
    IF sessions[p][s] = q
    THEN /\ sessions' = [sessions EXCEPT ![p][s] = None]
         /\ brought' = IF q = p THEN brought ELSE [brought EXCEPT ![p][q] = @ \ {s}]
    ELSE UNCHANGED <<sessions, brought>>

(* Mutant: the connection that brought the entry is not told it is gone.   *)
AddedOver(p, s, q) ==
    /\ sessions' = [sessions EXCEPT ![p][s] = q]
    /\ brought' = IF q = p THEN brought ELSE [brought EXCEPT ![p][q] = @ \cup {s}]

\* PeerManager::sessionAdded at p, of s on q: an entry for another peer gives way.
Added(p, s, q) ==
    /\ sessions' = [sessions EXCEPT ![p][s] = q]
    /\ brought' = [brought EXCEPT ![p] =
                     [r \in Peer |-> IF r = q /\ q # p THEN @[r] \cup {s} ELSE @[r] \ {s}]]

\* A session has become s at p, but p has yet to announce it.
Arriving(p, s) == \E u \in Id : <<u, s>> \in changing[p]

\* s comes to p: to an object that p has of it, or ahead of the end of one.
Comes(p, s) ==
    /\ starts < MaxStarts
    /\ starts' = starts + 1
    /\ hosts' = [hosts EXCEPT ![s] = @ \cup {p}]
    /\ hasty' = IF object[p][s] # "none" \/ s \in leaving[p] THEN hasty \cup {s} ELSE hasty
    /\ UNCHANGED undone

\* A new Session and what it announces at once, then
\* ConnectionManager::tokenValidated or transferSession, which puts it in the
\* map over what is there.
Start(p, s) ==
    /\ Comes(p, s)
    /\ object' = [object EXCEPT ![p][s] = "live"]
    /\ older' = [older EXCEPT ![p] = IF object[p][s] = "none" THEN @ ELSE @ \cup {s}]
    /\ chan' = ToOthers(p, [op |-> "added", id |-> s])
    /\ Added(p, s, p)
    /\ UNCHANGED <<link, conn, breaks, leaving, changing>>

\* Session::userChanged, which queues three calls, and the first of them:
\* ConnectionManager::sessionChanged.  (s may stay s, with a new name.)
Change(p, s, t) ==
    /\ object[p][s] # "none" /\ s \notin older[p] \cup leaving[p] /\ ~Arriving(p, s)
    /\ Comes(p, t)
    /\ object' = [object EXCEPT ![p] =
                    [u \in Id |-> IF u = t THEN @[s] ELSE IF u = s THEN "none" ELSE @[u]]]
    /\ older' = [older EXCEPT ![p] = IF t = s \/ object[p][t] = "none" THEN @ ELSE @ \cup {t}]
    /\ leaving' = [leaving EXCEPT ![p] = @ \cup {s}]
    /\ changing' = [changing EXCEPT ![p] = @ \cup {<<s, t>>}]
    /\ UNCHANGED <<links, sessions, brought>>

\* The last of them, once the end of s is announced: PeerManager::sessionAdded.
Arrive(p, s, t) ==
    /\ <<s, t>> \in changing[p] /\ s \notin leaving[p]
    /\ changing' = [changing EXCEPT ![p] = @ \ {<<s, t>>}]
    /\ chan' = ToOthers(p, [op |-> "added", id |-> t])
    /\ Added(p, t, p)
    /\ UNCHANGED <<link, conn, breaks, object, older, leaving, history>>

\* ConnectionManager::sessionClosed: whatever the map has for s is deleted.
Closed(p, s) ==
    /\ object[p][s] # "none" /\ s \notin leaving[p]
    /\ object' = [object EXCEPT ![p][s] = "none"]
    /\ leaving' = [leaving EXCEPT ![p] = @ \cup {s}]
    /\ UNCHANGED <<links, sessions, brought, older, changing, starts, hosts, hasty>>

\* Session::close, and Session::reconnect, which closes too, of the session in the
\* map.  The announcement is a second queued call of its own.
Close(p, s) ==
    /\ ~Arriving(p, s)
    /\ Closed(p, s)
    /\ UNCHANGED undone

\* Session::close of one that is not in the map, as often as its timer, which goes
\* on, runs out.  (If the map has none there, this ends the process: Crash.)
CloseOlder(p, s) ==
    /\ s \in older[p]
    /\ Closed(p, s)
    /\ undone' = IF Arriving(p, s) THEN undone \cup {s} ELSE undone

(* Mutant: only this peer takes note.                                      *)
AnnounceHere(p, s) ==
    /\ s \in leaving[p]
    /\ leaving' = [leaving EXCEPT ![p] = @ \ {s}]
    /\ Removed(p, s, p)
    /\ UNCHANGED <<links, object, older, changing, history>>

Announce(p, s) ==
    /\ s \in leaving[p]
    /\ leaving' = [leaving EXCEPT ![p] = @ \ {s}]
    /\ chan' = ToOthers(p, [op |-> "removed", id |-> s])
    /\ Removed(p, s, p)
    /\ UNCHANGED <<link, conn, breaks, object, older, changing, history>>

\* What Peer::sendHeader lists, in the order of a hash.
Listing(p) ==
    {f \in [1 .. Cardinality(Local(p)) -> [op : {"added"}, id : Local(p)]] :
       \A s \in Local(p) : \E n \in DOMAIN f : f[n].id = s}

(* Mutant: the list is not sent.                                           *)
ConnectUnlisted(p, q) ==
    /\ GetThrough(p, q, <<>>)
    /\ UNCHANGED <<sessions, brought, object, ends, history>>

Connect(p, q) ==
    /\ \E news \in Listing(p) : GetThrough(p, q, news)
    /\ UNCHANGED <<sessions, brought, object, ends, history>>

(* Mutant: the session that was here stays.                                *)
ReadAddedStaying(p, q) ==
    /\ Reading(p, q, "added")
    /\ Taken(p, q)
    /\ Added(q, Head(chan[p][q]).id, p)
    /\ UNCHANGED <<link, conn, breaks, object, ends, history>>

\* q reads that s has started on p; a session of its own with that id is told to
\* reconnect there.
ReadAdded(p, q) ==
    /\ Reading(p, q, "added")
    /\ Taken(p, q)
    /\ LET s == Head(chan[p][q]).id
       IN  /\ Added(q, s, p)
           /\ object' = [object EXCEPT ![q][s] = IF @ = "none" THEN @ ELSE "told"]
    /\ UNCHANGED <<link, conn, breaks, ends, history>>

ReadRemoved(p, q) ==
    /\ Reading(p, q, "removed")
    /\ Taken(p, q)
    /\ Removed(q, Head(chan[p][q]).id, p)
    /\ UNCHANGED <<link, conn, breaks, object, ends, history>>

ReadHello(p, q) ==
    /\ ReadHeader(p, q)
    /\ UNCHANGED <<sessions, brought, object, ends, history>>

\* PeerConnection::~PeerConnection at q: the sessions it brought are removed.
Forget(p, q) ==
    /\ ReadEnd(p, q)
    /\ sessions' = [sessions EXCEPT ![q] =
                      [s \in Id |-> IF s \in brought[q][p] /\ @[s] = p THEN None ELSE @[s]]]
    /\ brought' = [brought EXCEPT ![q][p] = {}]
    /\ UNCHANGED <<object, ends, history>>

Cut(p, q) ==
    /\ Break(p, q)
    /\ UNCHANGED <<sessions, brought, object, ends, history>>

Crash(p) ==
    /\ Restart(p)
    /\ sessions' = [sessions EXCEPT ![p] = [s \in Id |-> None]]
    /\ brought' = [brought EXCEPT ![p] = [q \in Peer |-> {}]]
    /\ object' = [object EXCEPT ![p] = [s \in Id |-> "none"]]
    /\ older' = [older EXCEPT ![p] = {}]
    /\ leaving' = [leaving EXCEPT ![p] = {}]
    /\ changing' = [changing EXCEPT ![p] = {}]
    /\ UNCHANGED history

Next ==
    \/ \E p \in Peer, s \in Id : Start(p, s) \/ Close(p, s) \/ CloseOlder(p, s) \/ Announce(p, s)
    \/ \E p \in Peer, s, t \in Id : Change(p, s, t) \/ Arrive(p, s, t)
    \/ \E p, q \in Peer : Connect(p, q) \/ Cut(p, q)
    \/ \E p, q \in Peer : ReadHello(p, q) \/ ReadAdded(p, q) \/ ReadRemoved(p, q) \/ Forget(p, q)
    \/ \E p \in Peer : Crash(p)

Spec == Init /\ [][Next]_vars

-----------------------------------------------------------------------------
(* What a connection has brought is what the session map says it has, and  *)
(* the connection of every remote entry is there: sessionAdded and         *)
(* sessionRemoved look it up and use it unchecked, and its destructor      *)
(* removes exactly these.                                                  *)
Attached == \A p, q \in Peer :
    /\ brought[p][q] = {s \in Id : q # p /\ sessions[p][s] = q}
    /\ brought[p][q] # {} => q \in conn[p]

\* Nothing is under way.
Quiet ==
    /\ Settled
    /\ \A p \in Peer : leaving[p] = {} /\ changing[p] = {} /\ \A s \in Id : object[p][s] # "told"

(* When nothing is under way, nobody believes in a session that is not     *)
(* there, whatever links broke, whoever restarted and wherever the session *)
(* has been.  (But in one that another session of the user closed, deleted *)
(* by its id, after it had changed to that id and before it had said so.)  *)
NoGhost == Quiet => \A p \in Peer, s \in Id \ undone :
    sessions[p][s] # None => object[sessions[p][s]][s] = "live"

(* When nothing is under way, a user has one session at most: of two that  *)
(* started at once on different peers at least one has closed.  (Of a user *)
(* who came back to a peer that had yet to say that he had left it, both   *)
(* may stay: what it says then takes the new session off its list, and     *)
(* whoever it gets through to later does not hear of it.  Of one who came  *)
(* to a peer where he had a session, that one stays, in no map.)           *)
OneSession == Quiet => \A s \in Id \ hasty : Cardinality({p \in Peer : object[p][s] = "live"}) <= 1

(* When nothing is under way, everyone knows of the session of a user who  *)
(* has been on no other peer, whatever links broke and whoever restarted.  *)
(* (Of one who moved not everyone may: peers that hear of both in the      *)
(* other order keep what they heard last.)                                 *)
Known == Quiet => \A p, q \in Peer, s \in Id :
    object[q][s] = "live" /\ s \notin hasty /\ hosts[s] = {q} => sessions[p][s] = q

\* p lists s among its own if it has its Session object, which has not been told to
\* reconnect, and has said so, and only if it has it or is about to say it has not.
ListedRight(p, s) ==
    /\ object[p][s] = "live" => s \in Local(p) \/ Arriving(p, s)
    /\ s \in Local(p) => object[p][s] # "none" \/ s \in leaving[p]

(* PeerManager.h: "Sessions hosted by this peer."  The local sessions are  *)
(* the Session objects that have been announced and have not closed or     *)
(* been told to, and those whose end is yet to be announced ...            *)
LocalIsHosted == \A p \in Peer, s \in Id : ListedRight(p, s)

(* ... for every user who has not come to a peer that had a session of his *)
(* or was between the two calls that the end of one makes.                 *)
Hosted == \A p \in Peer, s \in Id : s \notin hasty => ListedRight(p, s)

=============================================================================
