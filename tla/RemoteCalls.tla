---------------------------- MODULE RemoteCalls ----------------------------
(* Calls from peer to peer (peer/PeerManager.cpp execute*, request*,       *)
(* handleResponse, updatePeers; peer/Peer.cpp; peer/PeerProtocol.cpp;      *)
(* peer/PeerConnection.cpp sendResponse; util/Callback.cpp).               *)
(*                                                                         *)
(* A peer calls a method on one peer, on all others, on all and itself, or *)
(* on the one it takes for the lead or for the host of a session; that one *)
(* passes the call on if it knows better.  An action asks for no answer; a *)
(* request leaves a callback with the Peer object it goes out through,     *)
(* under an id that comes back with the answer, over the same connection.  *)
(* The answers of a batch are collected until all who were asked have      *)
(* answered.                                                               *)
(*                                                                         *)
(* Methods answer when they like; what they do is left to other modules.   *)
EXTENDS Integers, Sequences, FiniteSets

CONSTANTS
    Peer,
    None,       \* "nobody"
    MaxCalls,   \* bound: the number of calls
    MaxUpsets,  \* bound: how often a link breaks, a Peer object goes or a peer
                \* hears of another lead or host
    MaxId       \* bound: request ids of one Peer object, so that calls
                \* are passed on so often and no more

ASSUME NoneAssumption == None \notin Peer
ASSUME BoundsAssumption == {MaxCalls, MaxUpsets, MaxId} \subseteq Nat

Call == 1 .. MaxCalls

VARIABLES
    peers,      \* peers[p]: the keys of _peers of p
    up,         \* the pairs <<p, q>> whose link from p to q is connected
    era,        \* era[p][q]: how often that link has been cut
    lastId,     \* lastId[p][q]: _lastRequestId of p's Peer object for q
    pending,    \* pending[p][q]: _pendingRequests of it
    chan,       \* chan[p][q]: written by p and not yet read by q
    back,       \* back[p][q]: answers to p, written by q and not yet read
    where,      \* where[p]: whom p takes for the lead, or for the host
    batch,      \* batch[c]: the entry of c in _pendingRequests of the manager
    work,       \* the requests whose methods have yet to answer
    calls,      \* the calls made so far
    upsets,     \* the upsets so far
    handled,    \* history: handled[c][q]: how often q has handled c
    answers,    \* history: answers[c]: who was named in each answer to c
    lost        \* history: calls of which something went with a link

links == <<peers, up, era>>
replies == <<back, answers, batch>>
runs == <<work, handled>>
requests == <<lastId, pending, lost>>
vars == <<links, upsets, replies, runs, requests, chan, where, calls>>

\* Where an answer goes: to the caller, into the caller's batch as the answer of
\* `of`, or to the peer that the request came from.
ToCaller(c) == [to |-> "caller", call |-> c]
ToBatch(c, q) == [to |-> "batch", call |-> c, of |-> q]
ToPeer(c, p, n, i) == [to |-> "peer", call |-> c, peer |-> p, era |-> n, id |-> i]
Nowhere(c) == [to |-> "nowhere", call |-> c]

Asks(then) == then.to # "nowhere"

Init ==
    /\ peers = [p \in Peer |-> Peer \ {p}]
    /\ up = {l \in Peer \X Peer : l[1] # l[2]}
    /\ era = [p \in Peer |-> [q \in Peer |-> 0]]
    /\ lastId = [p \in Peer |-> [q \in Peer |-> 0]]
    /\ pending = [p \in Peer |-> [q \in Peer |-> {}]]
    /\ chan = [p \in Peer |-> [q \in Peer |-> <<>>]]
    /\ back = [p \in Peer |-> [q \in Peer |-> <<>>]]
    /\ \E q \in Peer \cup {None} : where = [p \in Peer |-> q]
    /\ batch = [c \in Call |-> {}]
    /\ work = {}
    /\ calls = <<>>
    /\ upsets = 0
    /\ handled = [c \in Call |-> [q \in Peer |-> 0]]
    /\ answers = [c \in Call |-> <<>>]
    /\ lost = {}

(***************************************************************************)
(* Sending and handling.                                                   *)
(***************************************************************************)

\* The id of the next request of p to q.
NextId(p, q) == lastId[p][q] + 1

\* Peer::sendRequestMessage and AbstractPeer::sendMessage from p to everyone in `to`:
\* the answer of q goes to then[q].  What is written while the link is down is lost.
\* `before` is chan but for what has just been read.
Sent(p, to, c, then, before) ==
    LET Asked == {q \in to : Asks(then[q])}
        Id(q) == IF q \in Asked THEN NextId(p, q) ELSE 0
    IN
    /\ \A q \in Asked : lastId[p][q] < MaxId
    /\ lastId' = [lastId EXCEPT ![p] = [q \in Peer |-> IF q \in Asked THEN @[q] + 1 ELSE @[q]]]
    /\ pending' = [pending EXCEPT ![p] = [q \in Peer |->
            IF q \in Asked
            THEN {e \in @[q] : e.id # Id(q)} \cup {[id |-> Id(q), era |-> era[p][q], then |-> then[q]]}
            ELSE @[q]]]
    /\ chan' = [before EXCEPT ![p] = [q \in Peer |->
            IF q \in to /\ <<p, q>> \in up
            THEN Append(@[q], [call |-> c, id |-> Id(q), era |-> era[p][q]])
            ELSE @[q]]]
    /\ lost' = IF \E q \in to : <<p, q>> \notin up THEN lost \cup {c} ELSE lost

\* PeerRequest::handle and PeerAction::execute at p: the method is called, and
\* answers when it is done.
Handled(p, c, then) ==
    /\ work' = IF Asks(then) THEN work \cup {[at |-> p, then |-> then]} ELSE work
    /\ handled' = [handled EXCEPT ![c][p] = @ + 1]

(***************************************************************************)
(* Answering.                                                              *)
(***************************************************************************)

\* PeerManager::handleResponse: the answer of q to the batch of c.
Collected(c, q) ==
    \E b \in batch[c] :
      LET remaining == b.remaining \ {q}
          results == b.results \cup {q}
      IN
      IF remaining = {}
      THEN /\ batch' = [batch EXCEPT ![c] = {}]
           /\ answers' = [answers EXCEPT ![c] = Append(@, results)]
      ELSE /\ batch' = [batch EXCEPT ![c] = {[remaining |-> remaining, results |-> results]}]
           /\ UNCHANGED answers

\* Callback::invoke at p: PeerConnection::sendResponse if the answer is for another
\* peer and the connection the request came over is still there.  `by` is who
\* answers, {} if the answer is but defaults; `before` is back but for what has
\* just been read.
Answered(p, then, by, before) ==
    \/ /\ then.to = "caller"
       /\ answers' = [answers EXCEPT ![then.call] = Append(@, by)]
       /\ back' = before
       /\ UNCHANGED batch
    \/ /\ then.to = "batch"
       /\ Collected(then.call, then.of)
       /\ back' = before
    \/ /\ then.to = "peer"
       /\ back' = IF <<then.peer, p>> \in up /\ era[then.peer][p] = then.era
                  THEN [before EXCEPT ![then.peer][p] = Append(@, [id |-> then.id, by |-> by])]
                  ELSE before
       /\ UNCHANGED <<answers, batch>>
    \/ /\ then.to = "nowhere"
       /\ back' = before
       /\ UNCHANGED <<answers, batch>>

\* A method answers its request.
Finish(w) ==
    /\ work' = work \ {w}
    /\ Answered(w.at, w.then, {w.at}, back)
    /\ UNCHANGED <<links, upsets, requests, handled, chan, where, calls>>

\* ResponseMessage::handle, Peer::handleResponse: p reads an answer of q.
ReadAnswer(p, q) ==
    /\ back[p][q] # <<>>
    /\ LET answer == Head(back[p][q])
           rest == [back EXCEPT ![p][q] = Tail(@)]
           Kept == {e \in pending[p][q] : e.id = answer.id}
       IN
       /\ pending' = [pending EXCEPT ![p][q] = @ \ Kept]
       /\ \/ \E e \in Kept : Answered(p, e.then, answer.by, rest)
          \/ Kept = {} /\ back' = rest /\ UNCHANGED <<answers, batch>>
    /\ UNCHANGED <<links, upsets, runs, lastId, lost, chan, where, calls>>

(***************************************************************************)
(* Calls to one peer.                                                      *)
(***************************************************************************)

(* Mutant: requestLead, having handled the call, goes on to look for a     *)
(* Peer object of the lead.                                                *)
ToOneOnAndOn(p, q, c, then, before) ==
    \/ /\ q = p
       /\ Handled(p, c, then)
       /\ Answered(p, then, {}, back)
       /\ chan' = before
       /\ UNCHANGED requests
    \/ /\ q \in peers[p]
       /\ Sent(p, {q}, c, [r \in Peer |-> then], before)
       /\ UNCHANGED <<runs, replies>>
    \/ /\ q # p /\ q \notin peers[p]
       /\ Answered(p, then, {}, back)
       /\ chan' = before
       /\ UNCHANGED <<runs, requests>>

\* p handles a call, or sends it to q; if p has no Peer object for q, a request is
\* answered with defaults and an action is dropped.
ToOne(p, q, c, then, before) ==
    \/ /\ q = p
       /\ Handled(p, c, then)
       /\ chan' = before
       /\ UNCHANGED <<requests, replies>>
    \/ /\ q \in peers[p]
       /\ Sent(p, {q}, c, [r \in Peer |-> then], before)
       /\ UNCHANGED <<runs, replies>>
    \/ /\ q # p /\ q \notin peers[p]
       /\ Answered(p, then, {}, back)
       /\ chan' = before
       /\ UNCHANGED <<runs, requests>>

NewCall == Len(calls) + 1

Record(p, kind, to, reply) ==
    /\ NewCall \in Call
    /\ calls' = Append(calls, [by |-> p, kind |-> kind, to |-> to, reply |-> reply])

ToNew(reply) == IF reply THEN ToCaller(NewCall) ELSE Nowhere(NewCall)

\* PeerManager::execute and request, by name.
CallOne(p, q, reply) ==
    /\ Record(p, "one", {q} \cap (peers[p] \cup {p}), reply)
    /\ ToOne(p, q, NewCall, ToNew(reply), chan)
    /\ UNCHANGED <<links, where, upsets>>

\* PeerManager::executeLead, requestLead, executeSession, requestSession.
CallChased(p, kind, reply) ==
    /\ Record(p, kind, {}, reply)
    /\ ToOne(p, where[p], NewCall, ToNew(reply), chan)
    /\ UNCHANGED <<links, where, upsets>>

(***************************************************************************)
(* Calls to many.                                                          *)
(***************************************************************************)

(* Mutant: the caller does not wait for itself.                            *)
AwaitedOthers(p, here) == peers[p]

(* Mutant: the caller waits for itself even if it asks only the others.    *)
AwaitedAll(p, here) == peers[p] \cup {p}

\* Whose answers a batch waits for.
Awaited(p, here) == peers[p] \cup (IF here THEN {p} ELSE {})

\* PeerManager::executeOthers and requestOthers, execute and request: the call goes
\* to everyone else, and then to p itself if it is for all.  With nobody to ask,
\* requestOthers leaves its entry for good.
CallMany(p, here, reply) ==
    LET c == NewCall
        then == [q \in Peer |-> IF reply THEN ToBatch(c, q) ELSE Nowhere(c)]
        to == peers[p] \cup (IF here THEN {p} ELSE {})
    IN
    /\ Record(p, IF here THEN "all" ELSE "others", to, reply)
    /\ Sent(p, peers[p], c, then, chan)
    /\ batch' = IF reply
                THEN [batch EXCEPT ![c] = {[remaining |-> Awaited(p, here), results |-> {}]}]
                ELSE batch
    /\ IF here THEN Handled(p, c, then[p]) ELSE UNCHANGED runs
    /\ UNCHANGED <<links, where, upsets, back, answers>>

(***************************************************************************)
(* Reading.                                                                *)
(***************************************************************************)

(* Mutant: the request is made again without its callback.                 *)
BackToNobody(m, p) == Nowhere(m.call)

\* Where the answer to a message of p goes.
BackTo(m, p) == IF m.id = 0 THEN Nowhere(m.call) ELSE ToPeer(m.call, p, m.era, m.id)

(* Mutant: a message by name is passed on to the lead like the others.     *)
ReadAndPass(p, q) ==
    /\ chan[p][q] # <<>>
    /\ LET m == Head(chan[p][q])
       IN ToOne(q, where[q], m.call, BackTo(m, p), [chan EXCEPT ![p][q] = Tail(@)])
    /\ UNCHANGED <<links, upsets, where, calls>>

\* ExecuteMessage::handle, RequestMessage::handle and those for the lead and for the
\* host of a session, which pass the call on if that is another peer.  The name of
\* the session is not streamed with an action, so that one finds nobody.
ReadCall(p, q) ==
    /\ chan[p][q] # <<>>
    /\ LET m == Head(chan[p][q])
           kind == calls[m.call].kind
           to == CASE kind \in {"one", "others", "all"} -> q
                   [] kind = "host" /\ m.id = 0 -> None
                   [] OTHER -> where[q]
       IN ToOne(q, to, m.call, BackTo(m, p), [chan EXCEPT ![p][q] = Tail(@)])
    /\ UNCHANGED <<links, upsets, where, calls>>

(***************************************************************************)
(* Links and peers.                                                        *)
(***************************************************************************)

\* The link from p to q is cut: some of what was written is still read.  The calls
\* whose answers were to come over it will not have them.
Cut(p, q) ==
    /\ up' = up \ {<<p, q>>}
    /\ era' = [era EXCEPT ![p][q] = @ + 1]
    /\ \E n \in 0 .. Len(chan[p][q]) : chan' = [chan EXCEPT ![p][q] = SubSeq(@, 1, n)]
    /\ back' = [back EXCEPT ![p][q] = <<>>]
    /\ lost' = lost \cup {e.then.call : e \in pending[p][q]}
                    \cup {chan[p][q][n].call : n \in DOMAIN chan[p][q]}
    /\ upsets < MaxUpsets /\ upsets' = upsets + 1

\* Peer::reconnectLater: the Peer object keeps what it waits for.
Break(p, q) ==
    /\ <<p, q>> \in up
    /\ Cut(p, q)
    /\ UNCHANGED <<peers, answers, batch, runs, lastId, pending, where, calls>>

\* Peer::connectToPeer, sendHeader; the old connection is read to its end by then.
GetThrough(p, q) ==
    /\ q \in peers[p] /\ <<p, q>> \notin up /\ chan[p][q] = <<>>
    /\ up' = up \cup {<<p, q>>}
    /\ UNCHANGED <<peers, era, upsets, replies, runs, requests, chan, where, calls>>

\* PeerManager::updatePeers, or a CloseMessage: p deletes its Peer object for q, and
\* forgets whom it was waiting for.
Forget(p, q) ==
    /\ q \in peers[p]
    /\ Cut(p, q)
    /\ peers' = [peers EXCEPT ![p] = @ \ {q}]
    /\ pending' = [pending EXCEPT ![p][q] = {}]
    /\ lastId' = [lastId EXCEPT ![p][q] = 0]
    /\ UNCHANGED <<answers, batch, runs, where, calls>>

\* PeerManager::updatePeers: p hears of q.
Hear(p, q) ==
    /\ q # p /\ q \notin peers[p]
    /\ peers' = [peers EXCEPT ![p] = @ \cup {q}]
    /\ UNCHANGED <<up, era, upsets, replies, runs, requests, chan, where, calls>>

\* p takes another peer for the lead (updatePeers) or the host (sessionAdded,
\* sessionUpdated, sessionRemoved).
Move(p, q) ==
    /\ q # where[p] /\ upsets < MaxUpsets
    /\ upsets' = upsets + 1
    /\ where' = [where EXCEPT ![p] = q]
    /\ UNCHANGED <<links, replies, runs, requests, chan, calls>>

Next ==
    \/ \E p, q \in Peer, reply \in BOOLEAN : CallOne(p, q, reply)
    \/ \E p \in Peer, kind \in {"lead", "host"}, reply \in BOOLEAN : CallChased(p, kind, reply)
    \/ \E p \in Peer, here, reply \in BOOLEAN : CallMany(p, here, reply)
    \/ \E w \in work : Finish(w)
    \/ \E p, q \in Peer : ReadAnswer(p, q)
    \/ \E p, q \in Peer : ReadCall(p, q)
    \/ \E p, q \in Peer : Break(p, q)
    \/ \E p, q \in Peer : GetThrough(p, q)
    \/ \E p, q \in Peer : Forget(p, q)
    \/ \E p, q \in Peer : Hear(p, q)
    \/ \E p \in Peer, q \in Peer \cup {None} : Move(p, q)

Spec == Init /\ [][Next]_vars

(***************************************************************************)
(* What holds.                                                             *)
(***************************************************************************)

Then ==
    LET Id == 1 .. MaxId IN
    {ToCaller(c) : c \in Call} \cup {ToBatch(c, q) : c \in Call, q \in Peer}
    \cup {ToPeer(c, p, n, i) : c \in Call, p \in Peer, n \in 0 .. MaxUpsets, i \in Id}

\* Variables hold what their names say: ids start from one, a link has been cut as
\* often as it broke, and only a Peer object that is there is connected or waited for.
TypeOK ==
    /\ peers \in [Peer -> SUBSET Peer]
    /\ \A l \in up : l[2] \in peers[l[1]] /\ l[1] # l[2]
    /\ era \in [Peer -> [Peer -> 0 .. MaxUpsets]]
    /\ lastId \in [Peer -> [Peer -> 0 .. MaxId]]
    /\ \A p, q \in Peer :
         /\ \A e \in pending[p][q] : e.id \in 1 .. lastId[p][q] /\ e.then \in Then
         /\ pending[p][q] # {} => q \in peers[p]
         /\ \A n \in DOMAIN chan[p][q] : chan[p][q][n].call \in DOMAIN calls
         /\ back[p][q] # <<>> => <<p, q>> \in up
    /\ where \in [Peer -> Peer \cup {None}]
    /\ \A c \in Call : Cardinality(batch[c]) <= 1
    /\ \A w \in work : w.at \in Peer /\ w.then \in Then
    /\ Len(calls) <= MaxCalls /\ upsets <= MaxUpsets
    /\ lost \subseteq DOMAIN calls

\* A caller is answered at most once, and a peer handles a call at most once, however
\* the call is passed on and whatever happens to the links (the callback invoked
\* from PeerManager::handleResponse, Peer::handleResponse and the branches of
\* requestLead and requestSession).
AtMostOnce ==
    \A c \in Call :
      /\ Len(answers[c]) <= 1
      /\ \A q \in Peer : handled[c][q] <= 1

\* An answer names exactly those who handled the call: one answered with defaults has
\* been handled by nobody, one passed on from peer to peer by him who answers, and a
\* batch by everyone who was asked (PeerManager::handleResponse).
Truthful ==
    \A c \in DOMAIN calls : \A n \in DOMAIN answers[c] :
      /\ answers[c][n] = {q \in Peer : handled[c][q] > 0}
      /\ calls[c].kind \in {"others", "all"} => answers[c][n] = calls[c].to

\* How many things stand between a callback at p and its invocation: a method at work,
\* or a request to another peer.
Holders(p, then) ==
    Cardinality({w \in work : w.at = p /\ w.then = then})
    + Cardinality({q \in Peer : \E e \in pending[p][q] : e.then = then})

\* How many stand between an entry of p's requests to q and its answer: the request on
\* its way, the callback made at q, or the answer on its way back.
Ways(p, q, e) ==
    Cardinality({n \in DOMAIN chan[p][q] : chan[p][q][n].id = e.id /\ chan[p][q][n].era = e.era})
    + Holders(q, ToPeer(e.then.call, p, e.era, e.id))
    + Cardinality({n \in DOMAIN back[p][q] : back[p][q][n].id = e.id})

\* No request is forgotten or doubled on its way: of a call that has lost nothing with
\* a link, every entry of _pendingRequests has exactly one answer to come, and so
\* has a caller, and everyone a batch still waits for (Peer::sendRequestMessage,
\* RequestMessage::handle, PeerConnection::sendResponse).
InFlight ==
    \A c \in DOMAIN calls \ lost :
      /\ \A p, q \in Peer : \A e \in pending[p][q] : e.then.call = c => Ways(p, q, e) = 1
      /\ calls[c].reply /\ answers[c] = <<>> =>
           IF calls[c].kind \in {"others", "all"}
           THEN \E b \in batch[c] : \A q \in b.remaining : Holders(calls[c].by, ToBatch(c, q)) = 1
           ELSE Holders(calls[c].by, ToCaller(c)) = 1

AtRest ==
    /\ work = {}
    /\ \A p, q \in Peer : chan[p][q] = <<>> /\ back[p][q] = <<>>

\* When nothing is left to read or to do, every request that lost nothing with a link
\* has been answered, but for one to "the others" when there were none; and a
\* call to one, to others or to all has been handled by everyone it was for
\* (requestOthers, request, handleResponse).
Served ==
    AtRest =>
      \A c \in DOMAIN calls \ lost :
        /\ calls[c].reply => answers[c] # <<>> \/ (calls[c].kind = "others" /\ calls[c].to = {})
        /\ \A q \in calls[c].to : handled[c][q] = 1

\* Seen from the callers, that is all that happens (PeerCalls): an answer is given once,
\* only to a request, with all who have run the call, and stands; a call to one peer
\* is run by one, a call by name by nobody else, however it is passed on
\* (requestLead, requestSession, handleResponse).
Promise == INSTANCE PeerCalls WITH handlers <- [c \in Call |-> {q \in Peer : handled[c][q] > 0}]
Implements == Promise!Spec
=============================================================================
