----------------------------- MODULE PeerLinks -----------------------------
(* The links between peers (peer/Peer.cpp, peer/PeerConnection.cpp,        *)
(* peer/AbstractPeer.cpp): what the directories of the peers are built on. *)
(*                                                                         *)
(* Peer p sends to q through a Peer object of its own, which dials until   *)
(* it gets through and dials again when it is cut off; before p has read   *)
(* of q in the database it cannot reach it either, and that is dialing     *)
(* too.  At q the link is a PeerConnection: it has a name once the header  *)
(* is read, and it is destroyed when the socket closes.  chan[p][q] is     *)
(* what p has written and q has not yet read, the close of the socket      *)
(* ("eof") included.                                                       *)
(*                                                                         *)
(* A message written while p is dialing goes out ahead of the header, is   *)
(* taken for a bad header and has the connection refused and dialled       *)
(* again: nothing but the end of the dialing is put off by it, so such     *)
(* messages do not appear.  A cut is noticed by the reader before the      *)
(* sender, who waits five seconds, is let in again: ReadEnd comes before   *)
(* GetThrough.                                                             *)
EXTENDS Integers, Sequences

CONSTANTS
    Peer,       \* the names of the peers
    MaxBreaks   \* bound: how often a link breaks or a peer restarts

ASSUME BreaksAssumption == MaxBreaks \in Nat

VARIABLES
    link,       \* link[p][q]: the Peer object of p for q: dialing or up
    chan,       \* chan[p][q]: written by p for q and not yet read
    conn,       \* conn[q]: the names in _connections of q
    breaks      \* the number of breaks so far

links == <<link, chan, conn, breaks>>

Hello == [op |-> "hello"]
Eof == [op |-> "eof"]

\* A connection opens with a header, which gives it its name at the reader, and
\* ends with the close of the socket; c is what is yet to be read, up that the
\* writer is connected, named that the reader has read the header.
FramedAs(c, up, named) ==
    /\ \A n \in DOMAIN c :
         /\ c[n] = Hello => n = 1 /\ ~named
         /\ c[n] = Eof => n = Len(c) /\ ~up
         /\ c[n] \notin {Hello, Eof} => named \/ c[1] = Hello
    /\ up => named \/ (c # <<>> /\ c[1] = Hello)

Framed(p, q) ==
    /\ FramedAs(chan[p][q], link[p][q] = "up", p \in conn[q])
    /\ chan[p][q] # <<>> \/ link[p][q] = "up" => p # q

AllFramed == \A p, q \in Peer : Framed(p, q)

LinksOK(Msg) ==
    /\ link \in [Peer -> [Peer -> {"dialing", "up"}]]
    /\ chan \in [Peer -> [Peer -> Seq(Msg)]]
    /\ conn \in [Peer -> SUBSET Peer]
    /\ breaks \in 0 .. MaxBreaks

LinksInit ==
    /\ link = [p \in Peer |-> [q \in Peer |-> "dialing"]]
    /\ chan = [p \in Peer |-> [q \in Peer |-> <<>>]]
    /\ conn = [p \in Peer |-> {}]
    /\ breaks = 0

\* What the channels hold once p has written m to everyone it is connected to
\* (PeerManager::executeOthers).
ToOthers(p, m) ==
    [chan EXCEPT ![p] = [q \in Peer |-> IF link[p][q] = "up" THEN Append(@[q], m) ELSE @[q]]]

(* Mutant: the header goes out last.                                       *)
GetThroughHeaderLast(p, q, news) ==
    /\ p # q /\ link[p][q] = "dialing" /\ chan[p][q] = <<>> /\ p \notin conn[q]
    /\ link' = [link EXCEPT ![p][q] = "up"]
    /\ chan' = [chan EXCEPT ![p][q] = Append(news, Hello)]
    /\ UNCHANGED <<conn, breaks>>

\* Peer::sendHeader: the header, and after it what q must know of p.
GetThrough(p, q, news) ==
    /\ p # q /\ link[p][q] = "dialing" /\ chan[p][q] = <<>> /\ p \notin conn[q]
    /\ link' = [link EXCEPT ![p][q] = "up"]
    /\ chan' = [chan EXCEPT ![p][q] = <<Hello>> \o news]
    /\ UNCHANGED <<conn, breaks>>

\* A link breaks: what was written is read up to some point, then the socket is
\* closed; Peer::reconnectLater dials again.
Break(p, q) ==
    /\ link[p][q] = "up" /\ breaks < MaxBreaks
    /\ breaks' = breaks + 1
    /\ link' = [link EXCEPT ![p][q] = "dialing"]
    /\ \E n \in 0 .. Len(chan[p][q]) :
         chan' = [chan EXCEPT ![p][q] = Append(SubSeq(@, 1, n), Eof)]
    /\ UNCHANGED conn

\* A peer stops and starts again: its own links are cut, those of the others to
\* it dial again, and it has heard of nobody.
Restart(p) ==
    /\ breaks < MaxBreaks
    /\ breaks' = breaks + 1
    /\ link' = [r \in Peer |-> [q \in Peer |->
                 IF p \in {q, r} THEN "dialing" ELSE link[r][q]]]
    /\ chan' = [r \in Peer |-> [q \in Peer |->
                 IF r = p /\ link[r][q] = "up" THEN Append(chan[r][q], Eof)
                 ELSE IF q = p THEN <<>> ELSE chan[r][q]]]
    /\ conn' = [conn EXCEPT ![p] = {}]

\* The message q reads next from p, if there is one.
Reading(p, q, op) == chan[p][q] # <<>> /\ Head(chan[p][q]).op = op

Taken(p, q) == chan' = [chan EXCEPT ![p][q] = Tail(@)]

\* PeerConnection::readHeader, PeerManager::connectionEstablished.
ReadHeader(p, q) ==
    /\ Reading(p, q, "hello")
    /\ Taken(p, q)
    /\ conn' = [conn EXCEPT ![q] = @ \cup {p}]
    /\ UNCHANGED <<link, breaks>>

\* PeerConnection::~PeerConnection, PeerManager::connectionClosed.
ReadEnd(p, q) ==
    /\ Reading(p, q, "eof")
    /\ Taken(p, q)
    /\ conn' = [conn EXCEPT ![q] = @ \ {p}]
    /\ UNCHANGED <<link, breaks>>

\* Everyone is connected to everyone and has read everything.
Settled == \A p, q \in Peer : p # q => link[p][q] = "up" /\ chan[p][q] = <<>>
=============================================================================
