---------------------------- MODULE InstanceIds ----------------------------
(* The ids of instances: who leads, who gives them out, who knows which    *)
(* are taken (peer/PeerManager.cpp reserveInstanceId, requestLead,         *)
(* updatePeers, instanceAdded, instanceRemoved; scene/Zone.cpp).           *)
(*                                                                         *)
(* A peer that needs an instance asks the peer it takes for the lead for   *)
(* an id; that one passes the request on if it takes another for the lead, *)
(* and else gives out the least id it neither knows to be taken nor has    *)
(* given out.  The peer then creates the instance and tells everyone.      *)
(* When there is no Peer object for the lead the default is answered at    *)
(* once, and an instance of an id that nobody gave out is made: 0.         *)
(* Everyone starts by leading itself, knows the others once it has read    *)
(* their records, and their instances once they have got through to it.    *)
EXTENDS PeerLinks, FiniteSets

CONSTANTS
    MaxId,      \* bound: a lead gives out 1 .. MaxId (offsets in one zone)
    MaxAsks,    \* bound: the number of requests for an id
    Asker,      \* bound: the peers that come to need an instance
    Late,       \* the peers that come up when the others have
    Frail,      \* bound: the peers that restart
    Loose,      \* bound: the links that break
    None        \* "in no map"

ASSUME PeerAssumption == Peer \subseteq Nat \ {0}
ASSUME IdsAssumption == MaxId \in Nat /\ MaxAsks \in Nat
ASSUME NoneAssumption == None \notin Peer

VARIABLES
    cuts,       \* cuts[p][q]: how often the link from p to q has been cut
    stored,     \* the peers whose records are in the database and recent
    lead,       \* lead[p]: _leadName of p
    peers,      \* peers[p]: the names in _peers of p
    known,      \* known[p][i]: the peer in p's _instances entry for i
    local,      \* local[p]: _localInstances of p
    brought,    \* brought[q][p]: _instances of q's connection from p
    reserved,   \* reserved[q]: _reservedInstanceIds of q
    held,       \* held[q][p]: those of q's connection from p
    replies,    \* answers on their way back
    asks,       \* the number of requests so far
    insts,      \* insts[p]: ids of the Instance objects of p
    gave,       \* history: which peer gave which id to which
    parted      \* history: <<p, q>> if q has lost its connection from p

maps == <<known, local, brought, reserved, held>>
record == <<insts, gave>>
vars == <<links, cuts, stored, lead, peers, maps, replies, asks, record, parted>>

Id == 1 .. MaxId
\* 0 stands for any id that no lead gave out.
AnyId == 0 .. MaxId
\* The links that a request has taken, as they were: the answer comes back over
\* the same connections or not at all.
Route == SUBSET (Peer \X Peer \X (0 .. MaxBreaks))
Intact(route, c) == \A l \in route : c[l[1]][l[2]] = l[3]
Msg == [op : {"hello", "eof"}] \cup [op : {"ask"}, for : Peer, route : Route]
         \cup [op : {"instance"}, id : AnyId]

TypeOK ==
    /\ LinksOK(Msg) /\ AllFramed
    /\ cuts \in [Peer -> [Peer -> 0 .. MaxBreaks]]
    /\ stored \subseteq Peer
    /\ lead \in [Peer -> Peer]
    /\ peers \in [Peer -> SUBSET Peer]
    /\ known \in [Peer -> [AnyId -> Peer \cup {None}]]
    /\ local \in [Peer -> SUBSET AnyId]
    /\ brought \in [Peer -> [Peer -> SUBSET AnyId]]
    /\ reserved \in [Peer -> SUBSET Id]
    /\ held \in [Peer -> [Peer -> SUBSET Id]]
    /\ replies \subseteq [to : Peer, by : Peer, id : AnyId, route : Route]
    /\ asks \in 0 .. MaxAsks
    /\ insts \in [Peer -> SUBSET AnyId]
    /\ gave \subseteq [to : Peer, by : Peer, id : Id]
    /\ parted \subseteq Peer \X Peer

Init ==
    /\ LinksInit
    /\ cuts = [p \in Peer |-> [q \in Peer |-> 0]]
    /\ stored = Peer \ Late
    /\ lead = [p \in Peer |-> p]
    /\ peers = [p \in Peer |-> {}]
    /\ known = [p \in Peer |-> [i \in AnyId |-> None]]
    /\ local = [p \in Peer |-> {}]
    /\ brought = [p \in Peer |-> [q \in Peer |-> {}]]
    /\ reserved = [p \in Peer |-> {}]
    /\ held = [p \in Peer |-> [q \in Peer |-> {}]]
    /\ replies = {}
    /\ asks = 0
    /\ insts = [p \in Peer |-> {}]
    /\ gave = {}
    /\ parted = {}

\* PeerManager::refreshPeers: a peer that has come up stores its record ...
Boot(p) ==
    /\ p \notin stored
    /\ stored' = stored \cup {p}
    /\ UNCHANGED <<links, cuts, lead, peers, maps, replies, asks, record, parted>>

\* ... and reads the others' from time to time (PeerManager::updatePeers).
UpdatePeers(p) ==
    /\ p \in stored
    /\ \E l \in stored : (\A q \in stored : l <= q) /\ lead' = [lead EXCEPT ![p] = l]
    /\ peers' = [peers EXCEPT ![p] = stored \ {p}]
    /\ UNCHANGED <<links, cuts, stored, maps, replies, asks, record, parted>>

\* What the channels hold once p has written m to q; it is lost if p is dialing.
Sent(ch, p, q, m) == IF link[p][q] = "up" THEN [ch EXCEPT ![p][q] = Append(@, m)] ELSE ch

(* Mutant: an id that is given out but not yet in use is free.             *)
FreeUntilUsed(q) == {i \in Id : known[q][i] = None}

\* PeerManager::reserveInstanceId at q: it settles on the first id that is free.
Free(q) == {i \in Id : known[q][i] = None /\ i \notin reserved[q]}
IsFirstFree(i, q) == i \in Free(q) /\ \A j \in Free(q) : i <= j

\* PeerManager::instanceAdded at q, of i on p.
Added(q, i, p) ==
    /\ known' = [known EXCEPT ![q][i] = p]
    /\ reserved' = [reserved EXCEPT ![q] = @ \ {i}]
    /\ local' = IF p = q THEN [local EXCEPT ![q] = @ \cup {i}] ELSE local
    /\ brought' = IF p = q THEN brought ELSE [brought EXCEPT ![q][p] = @ \cup {i}]
    /\ held' = IF p = q THEN held ELSE [held EXCEPT ![q][p] = @ \ {i}]

\* Zone::continueCreatingInstance, the constructor of Instance.
Created(p, i) ==
    /\ Added(p, i, p)
    /\ insts' = [insts EXCEPT ![p] = @ \cup {i}]
    /\ chan' = ToOthers(p, [op |-> "instance", id |-> i])
    /\ UNCHANGED <<link, conn, breaks>>

\* Zone::createInstance at a peer that takes itself for the lead ...
AskSelf(p) ==
    /\ p \in stored \cap Asker /\ asks < MaxAsks /\ lead[p] = p
    /\ asks' = asks + 1
    /\ \E i \in Id :
         /\ IsFirstFree(i, p)
         /\ Created(p, i)
         /\ gave' = gave \cup {[to |-> p, by |-> p, id |-> i]}
    /\ UNCHANGED <<cuts, stored, lead, peers, replies, parted>>

\* ... at one that does not and has a Peer object for the lead (a request written
\* while it is dialing is lost and changes nothing) ...
AskLead(p) ==
    /\ p \in stored \cap Asker /\ asks < MaxAsks /\ lead[p] # p
    /\ lead[p] \in peers[p] /\ link[p][lead[p]] = "up"
    /\ asks' = asks + 1
    /\ chan' = Sent(chan, p, lead[p], [op |-> "ask", for |-> p, route |-> {<<p, lead[p], cuts[p][lead[p]]>>}])
    /\ UNCHANGED <<link, conn, breaks, cuts, stored, lead, peers, maps, replies, record, parted>>

\* ... and at one that has none since the lead said goodbye: PeerManager::requestLead
\* answers with the defaults, and Zone::continueCreatingInstance takes the 0 as it is.
AskNobody(p) ==
    /\ p \in stored \cap Asker /\ asks < MaxAsks /\ lead[p] # p
    /\ lead[p] \notin peers[p]
    /\ asks' = asks + 1
    /\ Created(p, 0)
    /\ UNCHANGED <<cuts, stored, lead, peers, replies, gave, parted>>

\* q reads a request and takes itself for the lead.  One on behalf of a peer that
\* is not connected to it ends the process: then only Crash(q) is left.
Give(p, q) ==
    /\ Reading(p, q, "ask") /\ lead[q] = q
    /\ Taken(p, q)
    /\ LET m == Head(chan[p][q])
       IN  \E i \in Id :
           /\ IsFirstFree(i, q)
           /\ m.for \in conn[q]
           /\ reserved' = [reserved EXCEPT ![q] = @ \cup {i}]
           /\ held' = [held EXCEPT ![q][m.for] = @ \cup {i}]
           /\ replies' = IF Intact(m.route, cuts)
                         THEN replies \cup {[to |-> m.for, by |-> q, id |-> i, route |-> m.route]}
                         ELSE replies
           /\ gave' = gave \cup {[to |-> m.for, by |-> q, id |-> i]}
    /\ UNCHANGED <<link, conn, breaks, cuts, stored, lead, peers, known, local, brought, asks, insts, parted>>

\* RequestLeadMessage::handle at q, which takes another for the lead.
PassOn(p, q) ==
    /\ Reading(p, q, "ask") /\ lead[q] # q /\ lead[q] \in peers[q]
    /\ LET m == Head(chan[p][q])
       IN  chan' = Sent([chan EXCEPT ![p][q] = Tail(@)], q, lead[q],
                        [m EXCEPT !.route = @ \cup {<<q, lead[q], cuts[q][lead[q]]>>}])
    /\ UNCHANGED <<link, conn, breaks, cuts, stored, lead, peers, maps, replies, asks, record, parted>>

\* The same without a Peer object for the lead: the answer holds a list where the
\* slot of the zone takes an id, and whether that makes an instance is undefined.
PassOnToNobody(p, q) ==
    /\ Reading(p, q, "ask") /\ lead[q] # q /\ lead[q] \notin peers[q]
    /\ Taken(p, q)
    /\ LET m == Head(chan[p][q])
       IN  \/ replies' = replies
           \/ /\ Intact(m.route, cuts)
              /\ replies' = replies \cup {[to |-> m.for, by |-> q, id |-> 0, route |-> m.route]}
    /\ UNCHANGED <<link, conn, breaks, cuts, stored, lead, peers, maps, asks, record, parted>>

ReadReply(r) ==
    /\ replies' = replies \ {r}
    /\ Created(r.to, r.id)
    /\ UNCHANGED <<cuts, stored, lead, peers, asks, gave, parted>>

ReadInstance(p, q) ==
    /\ Reading(p, q, "instance")
    /\ Taken(p, q)
    /\ Added(q, Head(chan[p][q]).id, p)
    /\ UNCHANGED <<link, conn, breaks, cuts, stored, lead, peers, replies, asks, record, parted>>

\* Peer::sendHeader lists the local instances, in the order of a hash.
Listing(p) ==
    {f \in [1 .. Cardinality(local[p]) -> [op : {"instance"}, id : local[p]]] :
       \A i \in local[p] : \E n \in DOMAIN f : f[n].id = i}

(* Mutant: the list is not sent.                                           *)
ConnectUnlisted(p, q) ==
    /\ {p, q} \subseteq stored /\ q \in peers[p]
    /\ GetThrough(p, q, <<>>)
    /\ UNCHANGED <<cuts, stored, lead, peers, maps, replies, asks, record, parted>>

\* p has a Peer object for q when it has read q's record.
Connect(p, q) ==
    /\ {p, q} \subseteq stored /\ q \in peers[p]
    /\ \E news \in Listing(p) : GetThrough(p, q, news)
    /\ UNCHANGED <<cuts, stored, lead, peers, maps, replies, asks, record, parted>>

ReadHello(p, q) ==
    /\ ReadHeader(p, q)
    /\ UNCHANGED <<cuts, stored, lead, peers, maps, replies, asks, record, parted>>

(* Mutant: the ids the connection held are not freed.                      *)
ForgetNotFreeing(p, q) ==
    /\ ReadEnd(p, q)
    /\ \A i \in brought[q][p] : known[q][i] # None
    /\ known' = [known EXCEPT ![q] = [i \in AnyId |-> IF i \in brought[q][p] THEN None ELSE @[i]]]
    /\ local' = [local EXCEPT ![q] = {i \in @ : i \notin brought[q][p] \/ known[q][i] # q}]
    /\ brought' = [brought EXCEPT ![q] = [r \in Peer |-> IF r = p THEN {}
                     ELSE {i \in @[r] : i \notin brought[q][p] \/ known[q][i] # r}]]
    /\ held' = [held EXCEPT ![q][p] = {}]
    /\ parted' = parted \cup {<<p, q>>}
    /\ UNCHANGED <<cuts, stored, lead, peers, reserved, replies, asks, record>>

\* PeerConnection::~PeerConnection at q.  The instances it brought are removed by
\* id, whoever has the entry now; an entry that is not there ends the process.
Forget(p, q) ==
    /\ ReadEnd(p, q)
    /\ \A i \in brought[q][p] : known[q][i] # None
    /\ known' = [known EXCEPT ![q] = [i \in AnyId |-> IF i \in brought[q][p] THEN None ELSE @[i]]]
    /\ local' = [local EXCEPT ![q] = {i \in @ : i \notin brought[q][p] \/ known[q][i] # q}]
    /\ brought' = [brought EXCEPT ![q] = [r \in Peer |-> IF r = p THEN {}
                     ELSE {i \in @[r] : i \notin brought[q][p] \/ known[q][i] # r}]]
    /\ reserved' = [reserved EXCEPT ![q] = @ \ held[q][p]]
    /\ held' = [held EXCEPT ![q][p] = {}]
    /\ parted' = parted \cup {<<p, q>>}
    /\ UNCHANGED <<cuts, stored, lead, peers, replies, asks, record>>

\* The answers that were to come back over the link are lost with it.
Cut(p, q) ==
    /\ <<p, q>> \in Loose /\ Break(p, q)
    /\ cuts' = [cuts EXCEPT ![p][q] = @ + 1]
    /\ replies' = {r \in replies : Intact(r.route, cuts')}
    /\ UNCHANGED <<stored, lead, peers, maps, asks, record, parted>>

\* A peer restarts, before its record is too old or after.  If it says goodbye
\* (AbstractPeer::~AbstractPeer, CloseMessage), those who get to read it delete
\* their Peer objects for it, and go on taking it for the lead if they did.
Crash(p) ==
    /\ p \in Frail /\ Restart(p)
    /\ stored' \in {stored, stored \ {p}}
    /\ lead' = [lead EXCEPT ![p] = p]
    /\ \E told \in SUBSET {q \in Peer : link[q][p] = "up"} :
         peers' = [q \in Peer |-> IF q = p THEN {} ELSE IF q \in told THEN peers[q] \ {p} ELSE peers[q]]
    /\ known' = [known EXCEPT ![p] = [i \in AnyId |-> None]]
    /\ local' = [local EXCEPT ![p] = {}]
    /\ brought' = [brought EXCEPT ![p] = [q \in Peer |-> {}]]
    /\ reserved' = [reserved EXCEPT ![p] = {}]
    /\ held' = [held EXCEPT ![p] = [q \in Peer |-> {}]]
    /\ cuts' = [q \in Peer |-> [r \in Peer |-> IF p \in {q, r} THEN cuts[q][r] + 1 ELSE cuts[q][r]]]
    /\ replies' = {r \in replies : Intact(r.route, cuts')}
    /\ insts' = [insts EXCEPT ![p] = {}]
    /\ parted' = parted \cup (Peer \X {p})
    /\ UNCHANGED <<asks, gave>>

Next ==
    \/ \E p \in Peer : Boot(p) \/ UpdatePeers(p) \/ AskSelf(p) \/ AskLead(p) \/ AskNobody(p) \/ Crash(p)
    \/ \E p, q \in Peer : Connect(p, q) \/ Cut(p, q) \/ ReadHello(p, q) \/ Forget(p, q)
    \/ \E p, q \in Peer : Give(p, q) \/ PassOn(p, q) \/ PassOnToNobody(p, q) \/ ReadInstance(p, q)
    \/ \E r \in replies : ReadReply(r)

Spec == Init /\ [][Next]_vars

-----------------------------------------------------------------------------
\* An id of those that a lead gives out, given out by one peer at most, which has
\* not lost the connection of anyone it gave it to.
Clean(i) ==
    /\ i \in Id
    /\ \E l \in Peer : \A g \in gave : g.id = i => g.by = l /\ <<g.to, l>> \notin parted

(* The lead gives an id out once, as long as it alone gives it out and     *)
(* stays connected to whom it gave it: an id on its way, in an instance    *)
(* that is yet to be announced or announced and yet to be read is not      *)
(* given out again.                                                        *)
OneGrant == \A i \in Id : Clean(i) => \A g, h \in gave : g.id = i /\ h.id = i => g = h

\* Some peer gave i to p, or nobody was there to.
Given(p, i) == i = 0 \/ \E g \in gave : g.to = p /\ g.id = i

\* The ids of the instances that the messages of c speak of.
Spoken(c) == {i \in AnyId : \E n \in DOMAIN c : c[n] = [op |-> "instance", id |-> i]}

\* Nothing speaks of an id at p, or holds it for p, that was not given to p or
\* made up for want of a lead.
Traced ==
    /\ \A r \in replies : r.id \in Id => [to |-> r.to, by |-> r.by, id |-> r.id] \in gave
    /\ \A p, q \in Peer :
         /\ \A i \in held[q][p] : [to |-> p, by |-> q, id |-> i] \in gave
         /\ \A i \in brought[q][p] : Given(p, i)
         /\ \A i \in Spoken(chan[p][q]) : Given(p, i)
    /\ \A p \in Peer : \A i \in local[p] : Given(p, i)

\* The peer that gave an id out still knows that it is taken.
Accounted == \A g \in gave : Clean(g.id) => g.id \in reserved[g.by] \/ known[g.by][g.id] # None

CutsCounted == \A p, q \in Peer : cuts[p][q] <= breaks

(* No id stays reserved for a peer whose connection is gone: it is held by *)
(* an open connection, whose end frees it.                                 *)
NoLeak == \A q \in Peer : \A i \in reserved[q] : \E p \in conn[q] : i \in held[q][p]

(* When everyone is connected and has read everything, nobody believes in *)
(* an instance that is not there, whatever its id, and everyone knows      *)
(* every instance whose id was given out cleanly.  (Of those of id 0, made *)
(* for want of a lead, a peer knows at most one.)                          *)
InstancesKnown == Settled => \A p, q \in Peer, i \in AnyId :
    /\ known[q][i] = p => i \in insts[p]
    /\ Clean(i) /\ i \in insts[p] => known[q][i] = p

(* What finding an id promises, of ids given out cleanly: no two peers     *)
(* have an instance of it.  (Two that find no lead both make an instance   *)
(* of id 0, which nobody gave out.)                                        *)
CleanIsUnique == \A i \in Id : Clean(i) =>
    \A p, q \in Peer : i \in insts[p] /\ i \in insts[q] => p = q

(* What the map says a peer has, its open connection has brought, whatever *)
(* the id; and of an id given out cleanly, what a connection has brought   *)
(* is what the map says.  The end of a connection removes the entries it   *)
(* brought by their ids alone, whoever has them by then, and one that is   *)
(* not there ends the process: what two peers made up as id 0 may do so.   *)
Attached == \A p, q \in Peer, i \in AnyId : p # q =>
    /\ known[q][i] = p => p \in conn[q] /\ i \in brought[q][p]
    /\ Clean(i) /\ i \in brought[q][p] => known[q][i] = p

\* The inductive invariant.
IInv == TypeOK /\ CutsCounted /\ NoLeak /\ Traced /\ Accounted /\ OneGrant

(* PeerManager.h: "Finds an instance id that's not yet in use".  No two    *)
(* peers have an instance of the same id.                                  *)
UniqueId == \A p, q \in Peer : p # q => insts[p] \cap insts[q] = {}
=============================================================================
