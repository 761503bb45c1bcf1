------------------------- MODULE RemoteCallsProofs -------------------------
(* Theorems about RemoteCalls, for every set of peers, however many calls  *)
(* are made and however often links break: variables keep their types, a   *)
(* caller is answered and a peer runs a call at most once, and an answer   *)
(* names exactly those who ran the call.                                   *)
(*                                                                         *)
(* The argument: a call to one peer is at one place at a time, in a        *)
(* channel, run, or answered; and the id of an answer, together with how   *)
(* often the link has been cut, belongs to one call, so that an answer     *)
(* never finds the callback of another.                                    *)
EXTENDS RemoteCalls, FiniteSetTheorems, SequenceTheorems, TLAPS

-----------------------------------------------------------------------------
(* The inductive invariant.                                                *)

Message == [call : Call, id : 0 .. MaxId, era : 0 .. MaxUpsets]
Answer == [id : 1 .. MaxId, by : SUBSET Peer]
Entry == [id : 1 .. MaxId, era : 0 .. MaxUpsets, then : Then]
Request == [at : Peer, then : Then]
Made == [by : Peer, kind : {"one", "lead", "host", "others", "all"},
         to : SUBSET Peer, reply : BOOLEAN]
Awaiting == [remaining : SUBSET Peer, results : SUBSET Peer]

TypedLinks ==
    /\ peers \in [Peer -> SUBSET Peer] /\ \A p \in Peer : p \notin peers[p]
    /\ up \subseteq Peer \X Peer /\ \A p, q \in Peer : <<p, q>> \in up => q \in peers[p]
    /\ era \in [Peer -> [Peer -> Nat]] /\ upsets \in 0 .. MaxUpsets
    /\ \A p, q \in Peer : era[p][q] <= upsets
    /\ where \in [Peer -> Peer \cup {None}]

TypedRequests ==
    /\ lastId \in [Peer -> [Peer -> 0 .. MaxId]]
    /\ pending \in [Peer -> [Peer -> SUBSET Entry]]
    /\ work \subseteq Request
    /\ batch \in [Call -> SUBSET Awaiting]
    /\ \A c \in Call : \A b1, b2 \in batch[c] : b1 = b2

TypedCalls ==
    /\ calls \in Seq(Made) /\ Len(calls) <= MaxCalls
    /\ chan \in [Peer -> [Peer -> Seq(Message)]]
    /\ back \in [Peer -> [Peer -> Seq(Answer)]]
    /\ handled \in [Call -> [Peer -> Nat]]
    /\ answers \in [Call -> Seq(SUBSET Peer)]
    /\ lost \subseteq DOMAIN calls

Typed == TypedLinks /\ TypedRequests /\ TypedCalls

\* Calls to many peers.
Many(c) == calls[c].kind \in {"others", "all"}

\* Who has handled a call.
By(c) == {q \in Peer : handled[c][q] > 0}

\* No channel holds a call any more.
Gone(c) == \A p, q \in Peer : \A n \in DOMAIN chan[p][q] : chan[p][q][n].call # c

\* An id of p's requests to q that was given out, with the link cut n times by then.
Numbered(p, q, n, id) == n <= era[p][q] /\ (n = era[p][q] => id <= lastId[p][q])

\* An answer under that id goes to the call c, if anywhere.
Linked(p, q, n, id, c) ==
    n = era[p][q] => \A e \in pending[p][q] : e.id = id => e.then.call = c

\* Nothing is there of a call that has not been made.
Unmade ==
    \A c \in Call \ DOMAIN calls :
        answers[c] = <<>> /\ batch[c] = {} /\ \A q \in Peer : handled[c][q] = 0

Messages(p, q) == {chan[p][q][n] : n \in DOMAIN chan[p][q]}

\* A call in a channel has not been handled where it goes, nor, if it goes to one
\* peer, anywhere.
Carried ==
    \A p, q \in Peer : \A m \in Messages(p, q) :
      /\ m.call \in DOMAIN calls
      /\ Numbered(p, q, m.era, m.id) /\ Linked(p, q, m.era, m.id, m.call)
      /\ handled[m.call][q] = 0
      /\ IF Many(m.call) THEN q \in calls[m.call].to ELSE By(m.call) = {}

\* A call to one peer is in one channel at most, once; one to many, once for each.
Lone ==
    \A c \in Call : \A p, q, x, y \in Peer : \A n \in DOMAIN chan[p][q], k \in DOMAIN chan[x][y] :
      /\ chan[p][q][n].call = c /\ chan[x][y][k].call = c
      /\ q = y \/ ~Many(c)
      => p = x /\ q = y /\ n = k

\* A callback that waits at x.
Callback(x, then) ==
    /\ then.call \in DOMAIN calls
    /\ then.to = "caller" => ~Many(then.call) /\ calls[then.call].by = x /\ answers[then.call] = <<>>
    /\ then.to = "batch" => Many(then.call)
    /\ then.to = "peer" => /\ Numbered(then.peer, x, then.era, then.id)
                           /\ Linked(then.peer, x, then.era, then.id, then.call)

\* The callbacks at work belong to those who have handled the call.
Working ==
    \A w \in work :
      /\ Callback(w.at, w.then)
      /\ IF Many(w.then.call) THEN handled[w.then.call][w.at] > 0 ELSE By(w.then.call) = {w.at}
      /\ w.then.to = "batch" => w.then.of = w.at

\* Those of requests went to the peer they name.
Waiting ==
    \A p, q \in Peer :
      /\ pending[p][q] # {} => q \in peers[p]
      /\ \A e \in pending[p][q] :
           /\ e.id <= lastId[p][q] /\ Callback(p, e.then)
           /\ Many(e.then.call) => e.then.to = "batch" /\ e.then.of = q

\* There is but one callback to a caller.
Sole ==
    \A p, q \in Peer : \A e \in pending[p][q] :
      e.then.to = "caller" =>
        /\ \A w \in work : w.then.to = "caller" => w.then.call # e.then.call
        /\ \A x, y \in Peer : \A f \in pending[x][y] :
             f.then.to = "caller" /\ f.then.call = e.then.call => p = x /\ q = y /\ e = f

Replies(p, q) == {back[p][q][n] : n \in DOMAIN back[p][q]}

\* An answer on its way back names who handled the call.
Returned ==
    \A p, q \in Peer :
      /\ back[p][q] # <<>> => <<p, q>> \in up
      /\ \A a \in Replies(p, q) :
           /\ a.id <= lastId[p][q]
           /\ \A e \in pending[p][q] : e.id = a.id =>
                IF Many(e.then.call) THEN handled[e.then.call][q] > 0
                ELSE Gone(e.then.call) /\ a.by = By(e.then.call)

\* So does one that was given, and it is the only one.
Told ==
    \A c \in DOMAIN calls :
      /\ Len(answers[c]) <= 1
      /\ \A n \in DOMAIN answers[c] :
           /\ answers[c][n] = By(c)
           /\ IF Many(c) THEN By(c) = calls[c].to ELSE Gone(c)

\* A batch has the answers of those who handled the call and waits for the others.
Batched ==
    \A c \in DOMAIN calls :
      /\ Many(c) => By(c) \subseteq calls[c].to
      /\ \A b \in batch[c] : /\ Many(c) /\ answers[c] = <<>>
                             /\ b.remaining \cup b.results = calls[c].to
                             /\ b.results \subseteq By(c)

Once == \A c \in Call, q \in Peer : handled[c][q] <= 1

Inv ==
    /\ Typed
    /\ Unmade
    /\ Carried
    /\ Lone
    /\ Working
    /\ Waiting
    /\ Sole
    /\ Returned
    /\ Told
    /\ Batched
    /\ Once

-----------------------------------------------------------------------------
(* Callbacks, and what is sent.                                            *)

\* A callback is what its fields say.
LEMMA ThenShape ==
    ASSUME NEW t \in Then
    PROVE  /\ t.call \in Call /\ Asks(t)
           /\ t.to \in {"caller", "batch", "peer"}
           /\ t.to = "caller" => t = ToCaller(t.call)
           /\ t.to = "batch" => t.of \in Peer
           /\ t.to = "peer" => t.peer \in Peer /\ t.era \in 0 .. MaxUpsets /\ t.id \in 1 .. MaxId
<1>1. CASE \E c \in Call : t = ToCaller(c)
  BY <1>1 DEF ToCaller, Asks
<1>2. CASE \E c \in Call, q \in Peer : t = ToBatch(c, q)
  BY <1>2 DEF ToBatch, Asks
<1>3. CASE \E c \in Call, p \in Peer, n \in 0 .. MaxUpsets, i \in 1 .. MaxId : t = ToPeer(c, p, n, i)
  BY <1>3 DEF ToPeer, Asks
<1> QED
  BY <1>1, <1>2, <1>3 DEF Then

\* The callbacks of a caller, of a batch and of a peer are callbacks.
LEMMA ThenMade ==
    ASSUME NEW c \in Call
    PROVE  /\ ToCaller(c) \in Then /\ ToCaller(c).to = "caller" /\ ToCaller(c).call = c
           /\ Nowhere(c).to = "nowhere" /\ Nowhere(c).call = c
           /\ \A q \in Peer : /\ ToBatch(c, q) \in Then /\ ToBatch(c, q).to = "batch"
                               /\ ToBatch(c, q).call = c /\ ToBatch(c, q).of = q
           /\ \A p \in Peer, n \in 0 .. MaxUpsets, i \in 1 .. MaxId :
                /\ ToPeer(c, p, n, i) \in Then /\ ToPeer(c, p, n, i).to = "peer"
                /\ ToPeer(c, p, n, i).call = c /\ ToPeer(c, p, n, i).peer = p
                /\ ToPeer(c, p, n, i).era = n /\ ToPeer(c, p, n, i).id = i
  BY DEF ToCaller, Nowhere, ToBatch, ToPeer, Then

\* The channels but for what has been read from their heads or never arrives.
Within(b) ==
    /\ b \in [Peer -> [Peer -> Seq(Message)]]
    /\ \A x, y \in Peer : \E k \in {0, 1} : \A n \in DOMAIN b[x][y] :
         n + k \in DOMAIN chan[x][y] /\ b[x][y][n] = chan[x][y][n + k]

LEMMA WithinSelf ==
    ASSUME Typed
    PROVE  Within(chan)
<1>1. chan \in [Peer -> [Peer -> Seq(Message)]]
  BY DEF Typed, TypedCalls
<1>2. ASSUME NEW x \in Peer, NEW y \in Peer, NEW n \in DOMAIN chan[x][y]
      PROVE  n + 0 \in DOMAIN chan[x][y] /\ chan[x][y][n] = chan[x][y][n + 0]
  <2>1. chan[x][y] \in Seq(Message)
    BY <1>1
  <2>2. n \in Nat
    BY <2>1, LenProperties
  <2> QED
    BY <2>2
<1>3. 0 \in {0, 1}
  OBVIOUS
<1> QED
  BY <1>1, <1>2, <1>3 DEF Within

\* What is left of the channel from p to q once its head was read.
Headless(b, p, q) ==
    \A n \in DOMAIN b[p][q] : n + 1 \in DOMAIN chan[p][q] /\ b[p][q][n] = chan[p][q][n + 1]

LEMMA WithinTail ==
    ASSUME Typed, NEW p \in Peer, NEW q \in Peer, chan[p][q] # <<>>,
           NEW b, b = [chan EXCEPT ![p][q] = Tail(@)]
    PROVE  /\ Within(b) /\ Headless(b, p, q)
           /\ \A x, y \in Peer : ~(x = p /\ y = q) => b[x][y] = chan[x][y]
<1>1. chan \in [Peer -> [Peer -> Seq(Message)]]
  BY DEF Typed, TypedCalls
<1>2. chan[p][q] \in Seq(Message) /\ Len(chan[p][q]) \in Nat /\ Len(chan[p][q]) # 0
  BY <1>1, LenProperties, EmptySeq
<1>3. Tail(chan[p][q]) \in Seq(Message) /\ Len(Tail(chan[p][q])) = Len(chan[p][q]) - 1
      /\ \A n \in 1 .. Len(chan[p][q]) - 1 : Tail(chan[p][q])[n] = chan[p][q][n + 1]
  BY <1>1, <1>2, HeadTailProperties
<1>4. b[p][q] = Tail(chan[p][q])
  BY <1>1
<1>5. \A x, y \in Peer : ~(x = p /\ y = q) => b[x][y] = chan[x][y]
  BY <1>1
<1>6. b \in [Peer -> [Peer -> Seq(Message)]]
  BY <1>1, <1>3
<1>7. \A n \in DOMAIN b[p][q] : n + 1 \in DOMAIN chan[p][q] /\ b[p][q][n] = chan[p][q][n + 1]
  BY <1>1, <1>2, <1>3, <1>4, LenProperties
<1>8. ASSUME NEW x \in Peer, NEW y \in Peer
      PROVE  \E k \in {0, 1} : \A n \in DOMAIN b[x][y] :
               n + k \in DOMAIN chan[x][y] /\ b[x][y][n] = chan[x][y][n + k]
  <2>1. CASE x = p /\ y = q
    BY <2>1, <1>7
  <2>2. CASE ~(x = p /\ y = q)
    BY <2>2, <1>5, WithinSelf DEF Within
  <2> QED
    BY <2>1, <2>2
<1> QED
  BY <1>5, <1>6, <1>7, <1>8 DEF Within, Headless

\* Peer::sendRequestMessage: what it leaves, peer by peer.
Asking(p, to, then, x, y) == x = p /\ y \in to /\ Asks(then[y])

IdAfter(p, to, then, x, y) == IF Asking(p, to, then, x, y) THEN lastId[x][y] + 1 ELSE lastId[x][y]

\* The entry that a request of x to y leaves, and the message it writes.
NewEntry(then, x, y) == [id |-> lastId[x][y] + 1, era |-> era[x][y], then |-> then[y]]
NewMessage(c, then, x, y) ==
    [call |-> c, era |-> era[x][y], id |-> IF Asks(then[y]) THEN lastId[x][y] + 1 ELSE 0]

PendingAfter(p, to, then, x, y) ==
    IF Asking(p, to, then, x, y)
    THEN {e \in pending[x][y] : e.id # lastId[x][y] + 1} \cup {NewEntry(then, x, y)}
    ELSE pending[x][y]

ChanAfter(p, to, c, then, b, x, y) ==
    IF x = p /\ y \in to /\ <<x, y>> \in up
    THEN Append(b[x][y], NewMessage(c, then, x, y))
    ELSE b[x][y]

LEMMA SentIds ==
    ASSUME Typed, NEW p \in Peer, NEW to, to \subseteq Peer, NEW c \in Call, NEW then, NEW b, Within(b),
           Sent(p, to, c, then, b)
    PROVE  /\ lastId' = [x \in Peer |-> lastId'[x]]
           /\ \A x \in Peer : lastId'[x] = [y \in Peer |-> lastId'[x][y]]
           /\ \A x, y \in Peer : lastId'[x][y] = IdAfter(p, to, then, x, y)
<1> DEFINE L == [q \in Peer |-> IF q \in {r \in to : Asks(then[r])} THEN lastId[p][q] + 1 ELSE lastId[p][q]]
<1>1. DOMAIN lastId = Peer /\ \A x \in Peer : lastId[x] = [y \in Peer |-> lastId[x][y]]
  BY DEF Typed, TypedRequests
<1>2. lastId' = [lastId EXCEPT ![p] = L]
  BY DEF Sent
<1>3. L = [y \in Peer |-> L[y]] /\ \A y \in Peer : L[y] = IdAfter(p, to, then, p, y)
  BY DEF Asking, IdAfter
<1>4. \A x, y \in Peer : x # p => lastId[x][y] = IdAfter(p, to, then, x, y)
  BY DEF Asking, IdAfter
<1> HIDE DEF L
<1>5. /\ lastId' = [x \in Peer |-> lastId'[x]]
      /\ \A x \in Peer : lastId'[x] = IF x = p THEN L ELSE lastId[x]
  BY <1>1, <1>2
<1>6. \A x \in Peer : lastId'[x] = [y \in Peer |-> lastId'[x][y]]
  BY <1>5, <1>3, <1>1
<1>7. \A x, y \in Peer : lastId'[x][y] = IdAfter(p, to, then, x, y)
  BY <1>5, <1>3, <1>4
<1> QED
  BY <1>5, <1>6, <1>7

LEMMA SentPending ==
    ASSUME Typed, NEW p \in Peer, NEW to, to \subseteq Peer, NEW c \in Call, NEW then, NEW b, Within(b),
           Sent(p, to, c, then, b)
    PROVE  /\ pending' = [x \in Peer |-> pending'[x]]
           /\ \A x \in Peer : pending'[x] = [y \in Peer |-> pending'[x][y]]
           /\ \A x, y \in Peer : pending'[x][y] = PendingAfter(p, to, then, x, y)
<1> DEFINE E == [q \in Peer |->
                 IF q \in {r \in to : Asks(then[r])}
                 THEN {e \in pending[p][q] : e.id # lastId[p][q] + 1}
                      \cup {[id |-> lastId[p][q] + 1, era |-> era[p][q], then |-> then[q]]}
                 ELSE pending[p][q]]
<1>1. DOMAIN pending = Peer /\ \A x \in Peer : pending[x] = [y \in Peer |-> pending[x][y]]
  BY DEF Typed, TypedRequests
<1>2. pending' = [pending EXCEPT ![p] = E]
  BY DEF Sent, NextId
<1>3. E = [y \in Peer |-> E[y]] /\ \A y \in Peer : E[y] = PendingAfter(p, to, then, p, y)
  BY DEF Asking, PendingAfter, NewEntry
<1>4. \A x, y \in Peer : x # p => pending[x][y] = PendingAfter(p, to, then, x, y)
  BY DEF Asking, PendingAfter
<1> HIDE DEF E
<1>5. /\ pending' = [x \in Peer |-> pending'[x]]
      /\ \A x \in Peer : pending'[x] = IF x = p THEN E ELSE pending[x]
  BY <1>1, <1>2
<1>6. \A x \in Peer : pending'[x] = [y \in Peer |-> pending'[x][y]]
  BY <1>5, <1>3, <1>1
<1>7. \A x, y \in Peer : pending'[x][y] = PendingAfter(p, to, then, x, y)
  BY <1>5, <1>3, <1>4
<1> QED
  BY <1>5, <1>6, <1>7

LEMMA SentChan ==
    ASSUME Typed, NEW p \in Peer, NEW to, to \subseteq Peer, NEW c \in Call, NEW then, NEW b, Within(b),
           Sent(p, to, c, then, b)
    PROVE  /\ chan' = [x \in Peer |-> chan'[x]]
           /\ \A x \in Peer : chan'[x] = [y \in Peer |-> chan'[x][y]]
           /\ \A x, y \in Peer : chan'[x][y] = ChanAfter(p, to, c, then, b, x, y)
<1> DEFINE C == [q \in Peer |->
                 IF q \in to /\ <<p, q>> \in up
                 THEN Append(b[p][q], [call |-> c, era |-> era[p][q],
                                       id |-> IF q \in {r \in to : Asks(then[r])} THEN lastId[p][q] + 1 ELSE 0])
                 ELSE b[p][q]]
<1>1. DOMAIN b = Peer /\ \A x \in Peer : b[x] = [y \in Peer |-> b[x][y]]
  BY DEF Within
<1>2. chan' = [b EXCEPT ![p] = C]
  BY DEF Sent, NextId
<1>3. C = [y \in Peer |-> C[y]] /\ \A y \in Peer : C[y] = ChanAfter(p, to, c, then, b, p, y)
  BY DEF ChanAfter, NewMessage
<1>4. \A x, y \in Peer : x # p => b[x][y] = ChanAfter(p, to, c, then, b, x, y)
  BY DEF ChanAfter
<1> HIDE DEF C
<1>5. /\ chan' = [x \in Peer |-> chan'[x]]
      /\ \A x \in Peer : chan'[x] = IF x = p THEN C ELSE b[x]
  BY <1>1, <1>2
<1>6. \A x \in Peer : chan'[x] = [y \in Peer |-> chan'[x][y]]
  BY <1>5, <1>3, <1>1
<1>7. \A x, y \in Peer : chan'[x][y] = ChanAfter(p, to, c, then, b, x, y)
  BY <1>5, <1>3, <1>4
<1> QED
  BY <1>5, <1>6, <1>7

\* The same, as what can be found there afterwards.
Sending(p, to, c, then, b) ==
    /\ lastId' \in [Peer -> [Peer -> 0 .. MaxId]]
    /\ \A x, y \in Peer : lastId'[x][y] = IdAfter(p, to, then, x, y)
    /\ pending' \in [Peer -> [Peer -> SUBSET Entry]]
    /\ \A x, y \in Peer : \A e \in pending'[x][y] :
         \/ e \in pending[x][y]
         \/ Asking(p, to, then, x, y) /\ e = NewEntry(then, x, y)
    /\ chan' \in [Peer -> [Peer -> Seq(Message)]]
    /\ \A x, y \in Peer : \A n \in DOMAIN chan'[x][y] :
         \/ n \in DOMAIN b[x][y] /\ chan'[x][y][n] = b[x][y][n]
         \/ /\ x = p /\ y \in to /\ n = Len(b[x][y]) + 1
            /\ chan'[x][y][n] = NewMessage(c, then, x, y)
    /\ lost' \subseteq lost \cup {c}

LEMMA SentNews ==
    ASSUME Typed, BoundsAssumption, NEW p \in Peer, NEW to, to \subseteq Peer, NEW c \in Call, NEW then,
           \A y \in to : Asks(then[y]) => then[y] \in Then,
           NEW b, Within(b), Sent(p, to, c, then, b)
    PROVE  Sending(p, to, c, then, b)
<1>1. /\ lastId \in [Peer -> [Peer -> 0 .. MaxId]] /\ MaxId \in Nat /\ MaxUpsets \in Nat
      /\ pending \in [Peer -> [Peer -> SUBSET Entry]]
      /\ \A x, y \in Peer : era[x][y] \in 0 .. MaxUpsets
      /\ b \in [Peer -> [Peer -> Seq(Message)]]
  <2>1. \A x, y \in Peer : era[x][y] \in Nat /\ era[x][y] <= upsets
    BY DEF Typed, TypedLinks
  <2>2. upsets \in 0 .. MaxUpsets /\ MaxUpsets \in Nat /\ MaxId \in Nat
    BY DEF Typed, TypedLinks, BoundsAssumption
  <2>3. \A x, y \in Peer : era[x][y] \in 0 .. MaxUpsets
    BY <2>1, <2>2
  <2> QED
    BY <2>2, <2>3 DEF Typed, TypedRequests, Within
<1>2. /\ \A y \in to : Asks(then[y]) => lastId[p][y] < MaxId
      /\ lost' \subseteq lost \cup {c}
  BY DEF Sent
<1>3. /\ lastId' = [x \in Peer |-> lastId'[x]] /\ \A x \in Peer : lastId'[x] = [y \in Peer |-> lastId'[x][y]]
      /\ \A x, y \in Peer : lastId'[x][y] = IdAfter(p, to, then, x, y)
  BY SentIds
<1>10. /\ pending' = [x \in Peer |-> pending'[x]] /\ \A x \in Peer : pending'[x] = [y \in Peer |-> pending'[x][y]]
       /\ \A x, y \in Peer : pending'[x][y] = PendingAfter(p, to, then, x, y)
  BY SentPending
<1>11. /\ chan' = [x \in Peer |-> chan'[x]] /\ \A x \in Peer : chan'[x] = [y \in Peer |-> chan'[x][y]]
       /\ \A x, y \in Peer : chan'[x][y] = ChanAfter(p, to, c, then, b, x, y)
  <2>1. chan' = [x \in Peer |-> chan'[x]] /\ \A x \in Peer : chan'[x] = [y \in Peer |-> chan'[x][y]]
    BY SentChan
  <2>2. \A x, y \in Peer : chan'[x][y] = ChanAfter(p, to, c, then, b, x, y)
    BY SentChan
  <2> QED
    BY <2>1, <2>2
<1>4. ASSUME NEW x \in Peer, NEW y \in Peer
      PROVE  lastId'[x][y] \in 0 .. MaxId
  <2>1. lastId[x][y] \in 0 .. MaxId
    BY <1>1
  <2>2. CASE Asking(p, to, then, x, y)
    <3>1. lastId[x][y] < MaxId /\ lastId'[x][y] = lastId[x][y] + 1
      BY <2>2, <1>2, <1>3 DEF Asking, IdAfter
    <3> QED
      BY <2>1, <3>1, <1>1
  <2>3. CASE ~Asking(p, to, then, x, y)
    BY <2>1, <2>3, <1>3 DEF IdAfter
  <2> QED
    BY <2>2, <2>3
<1>5. lastId' \in [Peer -> [Peer -> 0 .. MaxId]]
  BY <1>3, <1>4
<1>6. ASSUME NEW x \in Peer, NEW y \in Peer, NEW e \in pending'[x][y]
      PROVE  /\ e \in Entry
             /\ \/ e \in pending[x][y]
                \/ Asking(p, to, then, x, y) /\ e = NewEntry(then, x, y)
  <2>1. CASE e \in pending[x][y]
    BY <2>1, <1>1
  <2>2. CASE Asking(p, to, then, x, y) /\ e = NewEntry(then, x, y)
    <3>1. then[y] \in Then /\ lastId[x][y] + 1 \in 1 .. MaxId /\ era[x][y] \in 0 .. MaxUpsets
      BY <2>2, <1>1, <1>2 DEF Asking
    <3> QED
      BY <2>2, <3>1 DEF Entry, NewEntry
  <2> QED
    <3>1. e \in PendingAfter(p, to, then, x, y)
      BY <1>10
    <3> QED
      BY <2>1, <2>2, <3>1 DEF PendingAfter
<1>7. pending' \in [Peer -> [Peer -> SUBSET Entry]]
  <2>1. \A x, y \in Peer : pending'[x][y] \in SUBSET Entry
    BY <1>6
  <2> QED
    BY <2>1, <1>10
<1>8. ASSUME NEW x \in Peer, NEW y \in Peer
      PROVE  /\ chan'[x][y] \in Seq(Message)
             /\ \A n \in DOMAIN chan'[x][y] :
                \/ n \in DOMAIN b[x][y] /\ chan'[x][y][n] = b[x][y][n]
                \/ /\ x = p /\ y \in to /\ n = Len(b[x][y]) + 1
                   /\ chan'[x][y][n] = NewMessage(c, then, x, y)
  <2>1. PICK m : m = NewMessage(c, then, x, y)
    OBVIOUS
  <2>2. b[x][y] \in Seq(Message)
    BY <1>1
  <2>3. CASE x = p /\ y \in to /\ <<x, y>> \in up
    <3>1. m \in Message
      <4>1. (IF Asks(then[y]) THEN lastId[x][y] + 1 ELSE 0) \in 0 .. MaxId
        BY <1>1, <1>2, <2>3
      <4> QED
        BY <4>1, <2>1, <1>1 DEF Message, NewMessage
    <3>2. chan'[x][y] = Append(b[x][y], m)
      BY <1>11, <2>1, <2>3 DEF ChanAfter
    <3>3. /\ Append(b[x][y], m) \in Seq(Message)
          /\ Len(Append(b[x][y], m)) = Len(b[x][y]) + 1
          /\ \A i \in 1 .. Len(b[x][y]) : Append(b[x][y], m)[i] = b[x][y][i]
          /\ Append(b[x][y], m)[Len(b[x][y]) + 1] = m
      BY <2>2, <3>1, AppendProperties
    <3>4. DOMAIN b[x][y] = 1 .. Len(b[x][y]) /\ Len(b[x][y]) \in Nat
          /\ DOMAIN chan'[x][y] = 1 .. Len(b[x][y]) + 1
      BY <2>2, <3>2, <3>3, LenProperties
    <3> QED
      BY <2>1, <2>3, <3>2, <3>3, <3>4
  <2>4. CASE ~(x = p /\ y \in to /\ <<x, y>> \in up)
    BY <1>11, <2>2, <2>4 DEF ChanAfter
  <2> QED
    BY <2>3, <2>4
<1>9. chan' \in [Peer -> [Peer -> Seq(Message)]]
  BY <1>8, <1>11
<1> QED
  BY <1>2, <1>3, <1>5, <1>6, <1>7, <1>8, <1>9 DEF Sending

\* Nothing is sent.
LEMMA UnsentNews ==
    ASSUME Typed, NEW p \in Peer, NEW c \in Call, NEW then, NEW b, Within(b),
           chan' = b, UNCHANGED requests
    PROVE  Sending(p, {}, c, then, b)
  BY DEF Sending, requests, Typed, TypedRequests, Within, IdAfter, Asking

-----------------------------------------------------------------------------
(* A call goes on: p handles it, or sends it, or both.                     *)

Grown ==
    /\ calls' \in Seq(Made) /\ Len(calls') <= MaxCalls
    /\ \A d \in DOMAIN calls : d \in DOMAIN calls' /\ calls'[d] = calls[d]

\* p handles c, if ran.
Running(p, c, t, ran) ==
    /\ work' \subseteq work \cup (IF ran /\ Asks(t) THEN {[at |-> p, then |-> t]} ELSE {})
    /\ handled' \in [Call -> [Peer -> Nat]]
    /\ \A d \in Call, y \in Peer :
         handled'[d][y] = IF ran /\ d = c /\ y = p THEN handled[d][y] + 1 ELSE handled[d][y]

\* No channel of b to y holds c.
Clear(b, c, y) == \A x \in Peer : \A n \in DOMAIN b[x][y] : b[x][y][n].call # c

\* Who has the call next.
Having(p, to, ran) == to \cup (IF ran THEN {p} ELSE {})

\* None of them has had it, and where it goes to one peer, none of all.
Ready(p, to, c, b, ran) ==
    /\ c \in DOMAIN calls' /\ answers[c] = <<>>
    /\ Many(c)' =>
         /\ p \notin to
         /\ \A y \in Having(p, to, ran) : y \in calls'[c].to /\ handled[c][y] = 0 /\ Clear(b, c, y)
    /\ ~Many(c)' =>
         /\ By(c) = {} /\ \A y \in Peer : Clear(b, c, y)
         /\ \A y1, y2 \in Having(p, to, ran) : y1 = y2
         /\ ran => to = {}
         /\ \A x, y \in Peer : \A a \in Replies(x, y), e \in pending[x][y] :
              e.id = a.id => e.then.call # c

\* The callback t that p leaves for c.
Offered(p, c, t) ==
    /\ t.call = c /\ (Asks(t) => t \in Then)
    /\ t.to = "caller" => ~Many(c)' /\ calls'[c].by = p /\ c \notin DOMAIN calls
    /\ t.to = "batch" => Many(c)'
    /\ t.to = "peer" => Numbered(t.peer, p, t.era, t.id) /\ Linked(t.peer, p, t.era, t.id, c)

Offering(p, to, c, then, ran) ==
    \A y \in Having(p, to, ran) :
        /\ Offered(p, c, then[y])
        /\ then[y].to = "batch" => then[y].of = y
        /\ Many(c)' /\ y \in to => then[y].to # "peer"

Batching(c) ==
    /\ batch' \in [Call -> SUBSET Awaiting]
    /\ \A d \in Call : batch'[d] # batch[d] =>
         /\ d = c /\ c \notin DOMAIN calls /\ Many(c)'
         /\ batch'[d] = {[remaining |-> calls'[c].to, results |-> {}]}

Going(p, to, c, then, b, ran) ==
    /\ Grown /\ UNCHANGED <<links, upsets, where, back, answers>>
    /\ to \subseteq peers[p] /\ Within(b)
    /\ Sending(p, to, c, then, b)
    /\ Running(p, c, then[p], ran)
    /\ Ready(p, to, c, b, ran)
    /\ Offering(p, to, c, then, ran)
    /\ Batching(c)

LEMMA GoesOn ==
    ASSUME Inv, BoundsAssumption, NEW p \in Peer, NEW to, NEW c \in Call, NEW then, NEW b,
           NEW ran \in BOOLEAN, Going(p, to, c, then, b, ran)
    PROVE  Inv'
<1>20. Typed /\ Unmade /\ Carried /\ Lone /\ Working /\ Waiting /\ Sole /\ Returned /\ Told /\ Batched /\ Once
  BY DEF Inv
<1>21. /\ Grown /\ UNCHANGED <<links, upsets, where, back, answers>> /\ to \subseteq peers[p] /\ Within(b)
       /\ Sending(p, to, c, then, b) /\ Running(p, c, then[p], ran) /\ Ready(p, to, c, b, ran)
       /\ Offering(p, to, c, then, ran) /\ Batching(c)
  BY DEF Going
<1>22. ASSUME NEW x \in Peer, NEW y \in Peer
       PROVE  /\ era[x][y] \in Nat /\ era'[x][y] = era[x][y] /\ lastId[x][y] \in Nat /\ lastId'[x][y] \in Nat
              /\ lastId'[x][y] = IdAfter(p, to, then, x, y) /\ lastId'[x][y] >= lastId[x][y]
              /\ chan[x][y] \in Seq(Message) /\ b[x][y] \in Seq(Message)
  <2>1. era[x][y] \in Nat /\ era'[x][y] = era[x][y]
    BY <1>20, <1>21 DEF Typed, TypedLinks, links
  <2>2. lastId[x][y] \in Nat /\ chan[x][y] \in Seq(Message) /\ b[x][y] \in Seq(Message)
    BY <1>20, <1>21 DEF Typed, TypedRequests, TypedCalls, Within
  <2>3. lastId'[x][y] \in Nat /\ lastId'[x][y] = IdAfter(p, to, then, x, y)
    BY <1>21 DEF Sending
  <2>4. lastId'[x][y] >= lastId[x][y]
    BY <2>2, <2>3 DEF IdAfter
  <2> QED
    BY <2>1, <2>2, <2>3, <2>4
<1>1. Typed'
  <2> USE DEF Going
  <2>1. TypedLinks'
    BY DEF Inv, Typed, TypedLinks, links
  <2>2. lastId' \in [Peer -> [Peer -> 0 .. MaxId]] /\ pending' \in [Peer -> [Peer -> SUBSET Entry]]
        /\ chan' \in [Peer -> [Peer -> Seq(Message)]]
    BY DEF Sending
  <2>3. ASSUME NEW w \in work'
        PROVE  w \in Request
    <3>1. CASE w \in work
      BY <3>1 DEF Inv, Typed, TypedRequests
    <3>2. CASE ran /\ Asks(then[p]) /\ w = [at |-> p, then |-> then[p]]
      <4>1. then[p] \in Then
        BY <3>2 DEF Offering, Offered, Having
      <4> QED
        BY <3>2, <4>1 DEF Request
    <3> QED
      BY <3>1, <3>2 DEF Running
  <2>4. batch' \in [Call -> SUBSET Awaiting] /\ \A d \in Call : \A b1, b2 \in batch'[d] : b1 = b2
    <3>1. \A d \in Call : \A b1, b2 \in batch[d] : b1 = b2
      BY DEF Inv, Typed, TypedRequests
    <3>2. ASSUME NEW d \in Call, NEW b1 \in batch'[d], NEW b2 \in batch'[d]
          PROVE  b1 = b2
      <4>1. CASE batch'[d] = batch[d]
        BY <4>1, <3>1
      <4>2. CASE batch'[d] # batch[d]
        <5>1. Batching(c)
          OBVIOUS
        <5>2. batch'[d] = {[remaining |-> calls'[c].to, results |-> {}]}
          BY <4>2, <5>1 DEF Batching
        <5> QED
          BY <5>2
      <4> QED
        BY <4>1, <4>2
    <3> QED
      BY <3>2 DEF Batching
  <2>5. TypedRequests'
    BY <2>2, <2>3, <2>4 DEF TypedRequests
  <2>6. back' \in [Peer -> [Peer -> Seq(Answer)]] /\ answers' \in [Call -> Seq(SUBSET Peer)]
    BY DEF Inv, Typed, TypedCalls
  <2>7. lost' \subseteq DOMAIN calls'
    <3>1. lost' \subseteq lost \cup {c} /\ c \in DOMAIN calls'
      BY DEF Sending, Ready
    <3> QED
      BY <3>1 DEF Inv, Typed, TypedCalls, Grown
  <2>8. TypedCalls'
    BY <2>2, <2>6, <2>7 DEF TypedCalls, Grown, Running
  <2> QED
    BY <2>1, <2>5, <2>8 DEF Typed
\* Ids that were given out, and the calls they belong to, stay.
<1>2. ASSUME NEW x \in Peer, NEW y \in Peer, NEW n \in Nat, NEW id \in Nat, NEW d
      PROVE  /\ Numbered(x, y, n, id) => Numbered(x, y, n, id)'
             /\ Numbered(x, y, n, id) /\ Linked(x, y, n, id, d) => Linked(x, y, n, id, d)'
  <2>1. era' = era /\ era[x][y] \in Nat /\ lastId[x][y] \in Nat /\ lastId'[x][y] \in Nat
    BY DEF Going, links, Inv, Typed, TypedLinks, TypedRequests, Sending
  <2>2. lastId'[x][y] >= lastId[x][y]
    <3>1. lastId'[x][y] = IdAfter(p, to, then, x, y)
      BY DEF Going, Sending
    <3> QED
      BY <2>1, <3>1 DEF IdAfter
  <2>3. Numbered(x, y, n, id) => Numbered(x, y, n, id)'
    BY <2>1, <2>2 DEF Numbered
  <2>4. ASSUME Numbered(x, y, n, id), Linked(x, y, n, id, d), n = era[x][y], NEW e \in pending'[x][y], e.id = id
        PROVE  e.then.call = d
    <3>1. id <= lastId[x][y]
      BY <2>4 DEF Numbered
    <3>2. CASE e \in pending[x][y]
      BY <3>2, <2>4 DEF Linked
    <3>3. CASE e = NewEntry(then, x, y)
      BY <3>1, <3>3, <2>1, <2>4 DEF NewEntry
    <3> QED
      BY <3>2, <3>3 DEF Going, Sending
  <2> QED
    BY <2>1, <2>3, <2>4 DEF Linked
\* What entries there are afterwards.
<1>3. ASSUME NEW x \in Peer, NEW y \in Peer, NEW e \in pending'[x][y], e \notin pending[x][y]
      PROVE  /\ x = p /\ y \in to /\ y \in Having(p, to, ran) /\ y \in peers[p]
             /\ e.id = lastId[x][y] + 1 /\ lastId'[x][y] = lastId[x][y] + 1 /\ e.era = era[x][y]
             /\ e.then = then[y] /\ e.then.call = c /\ Offered(p, c, e.then)
             /\ e.then.to = "batch" => e.then.of = y
             /\ Many(c)' => e.then.to # "peer"
             /\ e = NewEntry(then, x, y)
  <2>1. Asking(p, to, then, x, y) /\ e = NewEntry(then, x, y)
    BY <1>3, <1>21 DEF Sending
  <2>2. x = p /\ y \in to /\ y \in Having(p, to, ran) /\ y \in peers[p]
    BY <2>1 DEF Asking, Having, Going
  <2>3. e.id = lastId[x][y] + 1 /\ e.then = then[y] /\ e.era = era[x][y]
    BY <2>1 DEF NewEntry
  <2>4. lastId'[x][y] = lastId[x][y] + 1
    BY <2>1 DEF Going, Sending, IdAfter
  <2>5. /\ Offered(p, c, then[y])
        /\ then[y].to = "batch" => then[y].of = y
        /\ Many(c)' => then[y].to # "peer"
    BY <2>2 DEF Going, Offering
  <2> QED
    BY <2>1, <2>2, <2>3, <2>4, <2>5 DEF Offered
\* What messages there are.
<1>4. ASSUME NEW x \in Peer, NEW y \in Peer, NEW n \in DOMAIN chan'[x][y]
      PROVE  \/ n \in DOMAIN b[x][y] /\ chan'[x][y][n] = b[x][y][n]
             \/ /\ x = p /\ y \in to /\ y \in Having(p, to, ran) /\ n = Len(b[x][y]) + 1
                /\ chan'[x][y][n].call = c /\ chan'[x][y][n].era = era[x][y]
                /\ chan'[x][y][n].id <= lastId'[x][y]
                /\ chan'[x][y][n].id = 0 \/ chan'[x][y][n].id = lastId[x][y] + 1
  <2>1. CASE n \in DOMAIN b[x][y] /\ chan'[x][y][n] = b[x][y][n]
    BY <2>1
  <2>2. CASE /\ x = p /\ y \in to /\ n = Len(b[x][y]) + 1
             /\ chan'[x][y][n] = NewMessage(c, then, x, y)
    <3>1. lastId[x][y] \in Nat /\ lastId'[x][y] = IdAfter(p, to, then, x, y)
      BY DEF Inv, Typed, TypedRequests, Going, Sending
    <3> QED
      BY <2>2, <3>1 DEF NewMessage, IdAfter, Asking, Having
  <2> QED
    BY <2>1, <2>2 DEF Going, Sending
\* Calls that were made stay what they are.
<1>5. ASSUME NEW d \in DOMAIN calls
      PROVE  d \in DOMAIN calls' /\ calls'[d] = calls[d] /\ (Many(d)' <=> Many(d))
    BY DEF Grown, Many, Going
\* A message that is left is one there was.
<1>6. ASSUME NEW x \in Peer, NEW y \in Peer, NEW n \in DOMAIN b[x][y]
      PROVE  \E k \in DOMAIN chan[x][y] : b[x][y][n] = chan[x][y][k]
    BY DEF Within, Going
\* Who has handled a call, afterwards.
<1>7. ASSUME NEW d \in Call, NEW y \in Peer
      PROVE  /\ handled[d][y] \in Nat
             /\ handled'[d][y] = IF ran /\ d = c /\ y = p THEN handled[d][y] + 1 ELSE handled[d][y]
             /\ d # c \/ ~ran => By(d)' = By(d)
             /\ ran /\ d = c => By(d)' = By(d) \cup {p}
  <2>1. \A z \in Peer : handled[d][z] \in Nat
    BY DEF Inv, Typed, TypedCalls
  <2>2. \A z \in Peer : handled'[d][z] = IF ran /\ d = c /\ z = p THEN handled[d][z] + 1 ELSE handled[d][z]
    BY DEF Going, Running
  <2>3. d # c \/ ~ran => By(d)' = By(d)
    BY <2>2 DEF By
  <2>4. ran /\ d = c => By(d)' = By(d) \cup {p}
    BY <2>1, <2>2 DEF By
  <2> QED
    BY <2>1, <2>2, <2>3, <2>4
<1>8. Carried'
  <2> SUFFICES ASSUME NEW x \in Peer, NEW y \in Peer, NEW m \in Messages(x, y)'
               PROVE  /\ m.call \in DOMAIN calls'
                      /\ Numbered(x, y, m.era, m.id)' /\ Linked(x, y, m.era, m.id, m.call)'
                      /\ handled'[m.call][y] = 0
                      /\ IF Many(m.call)' THEN y \in calls'[m.call].to ELSE By(m.call)' = {}
    BY DEF Carried
  <2>1. Grown /\ Within(b) /\ Ready(p, to, c, b, ran) /\ era' = era
    BY <1>21 DEF links
  <2>2. /\ chan[x][y] \in Seq(Message)
        /\ era[x][y] \in Nat /\ lastId[x][y] \in Nat /\ lastId'[x][y] \in Nat
    BY <1>22
  <2>6. PICK n \in DOMAIN chan'[x][y] : m = chan'[x][y][n]
    BY DEF Messages
  <2>3. CASE n \in DOMAIN b[x][y] /\ m = b[x][y][n]
    <3>1. PICK k \in DOMAIN chan[x][y] : m = chan[x][y][k]
      BY <2>1, <2>3, <1>6
    <3>2. chan[x][y] \in Seq(Message)
      BY <1>22
    <3>3. m \in Message
      BY <3>1, <3>2, ElementOfSeq, LenProperties
    <3>4. m.era \in Nat /\ m.id \in Nat /\ m.call \in Call
      BY <3>3 DEF Message
    <3>5. /\ m.call \in DOMAIN calls
          /\ Numbered(x, y, m.era, m.id) /\ Linked(x, y, m.era, m.id, m.call)
          /\ handled[m.call][y] = 0
          /\ IF Many(m.call) THEN y \in calls[m.call].to ELSE By(m.call) = {}
      <4>1. m \in Messages(x, y)
        BY <3>1 DEF Messages
      <4> QED
        BY <4>1, <1>20 DEF Carried
    <3>6. m.call \in DOMAIN calls' /\ calls'[m.call] = calls[m.call] /\ (Many(m.call)' <=> Many(m.call))
      BY <2>1, <3>5, <1>5
    <3>7. Numbered(x, y, m.era, m.id)' /\ Linked(x, y, m.era, m.id, m.call)'
      BY <3>4, <3>5, <1>2
    <3>8. ran /\ m.call = c => Many(c)' /\ y # p
      <4>1. \A z \in Peer : Clear(b, c, z) => z # y \/ m.call # c
        BY <2>3 DEF Clear
      <4>2. ran => p \in Having(p, to, ran)
        BY DEF Having
      <4> QED
        BY <2>1, <4>1, <4>2 DEF Ready
    <3>9. handled'[m.call][y] = 0
      BY <3>4, <3>5, <3>8, <1>7
    <3>10. ~Many(m.call)' => By(m.call)' = {}
      BY <3>4, <3>5, <3>6, <3>8, <1>7
    <3> QED
      BY <3>5, <3>6, <3>7, <3>9, <3>10
  <2>4. CASE /\ x = p /\ y \in to /\ y \in Having(p, to, ran)
             /\ m.call = c /\ m.era = era[x][y] /\ m.id <= lastId'[x][y]
             /\ m.id = 0 \/ m.id = lastId[x][y] + 1
    <3>1. Numbered(x, y, m.era, m.id)'
      BY <2>1, <2>2, <2>4 DEF Numbered
    <3>2. ASSUME NEW e \in pending'[x][y], e.id = m.id
          PROVE  e.then.call = c
      <4>1. CASE e \in pending[x][y]
        <5>1. e \in Entry /\ e.id <= lastId[x][y]
          BY <4>1, <1>20 DEF Waiting, Typed, TypedRequests
        <5>2. e.id \in 1 .. MaxId /\ MaxId \in Nat
          BY <5>1 DEF Entry, BoundsAssumption
        <5> QED
          BY <5>1, <5>2, <3>2, <2>4, <2>2
      <4>2. CASE e \notin pending[x][y]
        BY <4>2, <1>3
      <4> QED
        BY <4>1, <4>2
    <3>3. Linked(x, y, m.era, m.id, m.call)'
      BY <2>4, <3>2 DEF Linked
    <3>4. handled'[c][y] = 0 /\ (Many(c)' => y \in calls'[c].to) /\ (~Many(c)' => By(c)' = {})
      <4>1. CASE Many(c)'
        <5>1. p \notin to /\ y \in calls'[c].to /\ handled[c][y] = 0
          BY <2>1, <2>4, <4>1 DEF Ready
        <5> QED
          BY <4>1, <5>1, <2>4, <1>7
      <4>2. CASE ~Many(c)'
        <5>1. By(c) = {} /\ ~ran
          BY <2>1, <2>4, <4>2 DEF Ready
        <5>2. By(c)' = {}
          BY <5>1, <1>7
        <5>3. handled[c][y] = 0 /\ handled'[c][y] = handled[c][y]
          BY <5>1, <1>7 DEF By
        <5> QED
          BY <4>2, <5>2, <5>3
      <4> QED
        BY <4>1, <4>2
    <3> QED
      BY <2>1, <2>4, <3>1, <3>3, <3>4 DEF Ready
  <2> QED
    BY <2>3, <2>4, <2>6, <1>4
<1>9. Lone'
  <2> SUFFICES ASSUME NEW x1 \in Peer, NEW y1 \in Peer, NEW n1 \in DOMAIN chan'[x1][y1],
                      NEW x2 \in Peer, NEW y2 \in Peer, NEW n2 \in DOMAIN chan'[x2][y2],
                      NEW d \in Call, d = chan'[x1][y1][n1].call, d = chan'[x2][y2][n2].call,
                      y1 = y2 \/ ~Many(d)'
               PROVE  x1 = x2 /\ y1 = y2 /\ n1 = n2
    BY DEF Lone
  <2>1. Grown /\ Within(b) /\ Ready(p, to, c, b, ran)
    BY DEF Going
  <2> DEFINE Old(x, y, n) == n \in DOMAIN b[x][y] /\ chan'[x][y][n] = b[x][y][n]
             New(x, y, n) == x = p /\ y \in to /\ y \in Having(p, to, ran) /\ n = Len(b[x][y]) + 1
                             /\ chan'[x][y][n].call = c
  <2>2. /\ Old(x1, y1, n1) \/ New(x1, y1, n1)
        /\ Old(x2, y2, n2) \/ New(x2, y2, n2)
    BY <1>4
  <2>3. CASE Old(x1, y1, n1) /\ Old(x2, y2, n2)
    <3>1. PICK k1 \in {0, 1} : \A n \in DOMAIN b[x1][y1] :
             n + k1 \in DOMAIN chan[x1][y1] /\ b[x1][y1][n] = chan[x1][y1][n + k1]
      BY <2>1 DEF Within
    <3>2. PICK k2 \in {0, 1} : \A n \in DOMAIN b[x2][y2] :
             n + k2 \in DOMAIN chan[x2][y2] /\ b[x2][y2][n] = chan[x2][y2][n + k2]
      BY <2>1 DEF Within
    <3>3. d = chan[x1][y1][n1 + k1].call /\ n1 + k1 \in DOMAIN chan[x1][y1]
          /\ d = chan[x2][y2][n2 + k2].call /\ n2 + k2 \in DOMAIN chan[x2][y2]
      BY <2>3, <3>1, <3>2
    <3>4. d \in DOMAIN calls
      <4>1. PICK m : m = chan[x1][y1][n1 + k1]
        OBVIOUS
      <4>2. m \in Messages(x1, y1) /\ m.call = d
        BY <3>3, <4>1 DEF Messages
      <4> QED
        BY <4>2, <1>20 DEF Carried
    <3>5. y1 = y2 \/ ~Many(d)
      BY <2>1, <3>4, <1>5
    <3>6. x1 = x2 /\ y1 = y2 /\ n1 + k1 = n2 + k2
      <4>1. PICK j1 : j1 = n1 + k1
        OBVIOUS
      <4>2. PICK j2 : j2 = n2 + k2
        OBVIOUS
      <4>3. j1 \in DOMAIN chan[x1][y1] /\ j2 \in DOMAIN chan[x2][y2]
            /\ chan[x1][y1][j1].call = d /\ chan[x2][y2][j2].call = d
        BY <3>3, <4>1, <4>2
      <4>4. x1 = x2 /\ y1 = y2 /\ j1 = j2
        <5>1. Lone
          BY <1>20
        <5> QED
          BY <4>3, <3>5, <5>1 DEF Lone
      <4> QED
        BY <4>1, <4>2, <4>4
    <3>7. b[x1][y1] \in Seq(Message)
      BY <2>1 DEF Within
    <3>8. n1 \in Nat /\ n2 \in Nat /\ n1 \in 1 .. Len(b[x1][y1]) /\ n2 \in 1 .. Len(b[x1][y1])
      BY <2>3, <3>6, <3>7, LenProperties
    <3>9. k1 \in Nat /\ k2 \in Nat /\ k1 <= 1 /\ k2 <= 1
      OBVIOUS
    <3>10. CASE k1 = k2
      BY <3>6, <3>8, <3>9, <3>10
    <3>11. CASE k1 # k2
      \* The longer shift would make two places of one.
      <4>1. \A n \in DOMAIN b[x1][y1] : chan[x1][y1][n + k1] = chan[x1][y1][n + k2]
                                       /\ n + k1 \in DOMAIN chan[x1][y1] /\ n + k2 \in DOMAIN chan[x1][y1]
        BY <3>1, <3>2, <3>6
      <4>2. n1 + k1 \in DOMAIN chan[x1][y1] /\ n1 + k2 \in DOMAIN chan[x1][y1]
            /\ chan[x1][y1][n1 + k1].call = chan[x1][y1][n1 + k2].call
        BY <4>1, <2>3
      <4>4. \A i, j \in DOMAIN chan[x1][y1] :
              chan[x1][y1][i].call = d /\ chan[x1][y1][j].call = d => i = j
        BY <1>20 DEF Lone
      <4>5. chan[x1][y1][n1 + k1].call = d /\ chan[x1][y1][n1 + k2].call = d
        BY <4>2, <3>3
      <4>3. n1 + k1 = n1 + k2
        BY <4>2, <4>4, <4>5
      <4> QED
        BY <4>3, <3>8, <3>9, <3>11
    <3> QED
      BY <3>6, <3>10, <3>11
  <2>4. ASSUME NEW u \in Peer, NEW v \in Peer, NEW i, Old(u, v, i), chan'[u][v][i].call = c, NEW z \in to,
               z \in Having(p, to, ran), v = z \/ ~Many(c)'
        PROVE  FALSE
    <3>1. ~Clear(b, c, v)
      BY <2>4 DEF Clear
    <3> QED
      BY <3>1, <2>4, <2>1 DEF Ready
  <2>5. CASE New(x1, y1, n1) /\ New(x2, y2, n2)
    <3>1. y1 = y2
      BY <2>5, <2>1 DEF Ready
    <3> QED
      BY <2>5, <3>1
  <2> QED
    BY <2>2, <2>3, <2>4, <2>5
\* A callback that is still there.
<1>10. ASSUME NEW x \in Peer, NEW t \in Then, Callback(x, t)
       PROVE  Callback(x, t)'
  <2>1. t.call \in DOMAIN calls' /\ calls'[t.call] = calls[t.call] /\ (Many(t.call)' <=> Many(t.call))
    BY <1>5, <1>10 DEF Callback
  <2>2. answers' = answers
    BY <1>21
  <2>3. t.to = "peer" => /\ Numbered(t.peer, x, t.era, t.id)'
                         /\ Linked(t.peer, x, t.era, t.id, t.call)'
    <3>1. t.to = "peer" => t.peer \in Peer /\ t.era \in Nat /\ t.id \in Nat
      BY ThenShape
    <3> QED
      BY <3>1, <1>2, <1>10 DEF Callback
  <2> QED
    BY <2>1, <2>2, <2>3, <1>10 DEF Callback
\* One that is new.
<1>11. ASSUME NEW t \in Then, Offered(p, c, t)
       PROVE  Callback(p, t)'
  <2>1. c \in DOMAIN calls' /\ answers' = answers /\ answers[c] = <<>>
    BY <1>21 DEF Ready
  <2>2. t.to = "peer" => /\ Numbered(t.peer, p, t.era, t.id)'
                         /\ Linked(t.peer, p, t.era, t.id, t.call)'
    <3>1. t.to = "peer" => t.peer \in Peer /\ t.era \in Nat /\ t.id \in Nat
      BY ThenShape
    <3> QED
      BY <3>1, <1>2, <1>11 DEF Offered
  <2> QED
    BY <2>1, <2>2, <1>11 DEF Offered, Callback
<1>12. ASSUME NEW w \in work', w \notin work
       PROVE  /\ ran /\ Asks(then[p]) /\ w.at = p /\ w.then = then[p] /\ p \in Having(p, to, ran)
              /\ w.then \in Then /\ Offered(p, c, w.then) /\ w.then.call = c
              /\ w.then.to = "batch" => w.then.of = p
  <2>1. ran /\ Asks(then[p]) /\ w = [at |-> p, then |-> then[p]]
    BY <1>12, <1>21 DEF Running
  <2>2. p \in Having(p, to, ran)
    BY <2>1 DEF Having
  <2>3. Offered(p, c, then[p]) /\ (then[p].to = "batch" => then[p].of = p)
    BY <2>2, <1>21 DEF Offering
  <2> QED
    BY <2>1, <2>2, <2>3 DEF Offered
<1>13. Working'
  <2> SUFFICES ASSUME NEW w \in work'
               PROVE  /\ Callback(w.at, w.then)'
                      /\ IF Many(w.then.call)' THEN handled'[w.then.call][w.at] > 0
                         ELSE By(w.then.call)' = {w.at}
                      /\ w.then.to = "batch" => w.then.of = w.at
    BY DEF Working
  <2>1. CASE w \in work
    <3>1. w.at \in Peer /\ w.then \in Then /\ w.then.call \in Call
      BY <2>1, <1>20, ThenShape DEF Typed, TypedRequests, Request
    <3>2. /\ Callback(w.at, w.then)
          /\ IF Many(w.then.call) THEN handled[w.then.call][w.at] > 0 ELSE By(w.then.call) = {w.at}
          /\ w.then.to = "batch" => w.then.of = w.at
      BY <2>1, <1>20 DEF Working
    <3>3. w.then.call \in DOMAIN calls /\ (Many(w.then.call)' <=> Many(w.then.call))
      BY <3>2, <1>5 DEF Callback
    <3>4. Many(w.then.call) => handled'[w.then.call][w.at] > 0
      BY <3>1, <3>2, <1>7
    <3>5. ~Many(w.then.call) => By(w.then.call)' = By(w.then.call)
      <4>1. ~Many(c)' => By(c) = {}
        BY <1>21 DEF Ready
      <4>2. ~Many(w.then.call) => w.then.call # c
        BY <4>1, <3>2, <3>3
      <4> QED
        BY <4>2, <3>1, <1>7
    <3> QED
      BY <3>1, <3>2, <3>3, <3>4, <3>5, <1>10
  <2>2. CASE w \notin work
    <3>1. /\ ran /\ w.at = p /\ w.then \in Then /\ Offered(p, c, w.then) /\ w.then.call = c
          /\ w.then.to = "batch" => w.then.of = p
      BY <2>2, <1>12
    <3>2. handled'[c][p] > 0 /\ By(c)' = By(c) \cup {p}
      BY <3>1, <1>7
    <3>3. ~Many(c)' => By(c) = {}
      BY <1>21 DEF Ready
    <3> QED
      BY <3>1, <3>2, <3>3, <1>11
  <2> QED
    BY <2>1, <2>2
<1>14. Waiting'
  <2> SUFFICES ASSUME NEW x \in Peer, NEW y \in Peer
               PROVE  /\ pending'[x][y] # {} => y \in peers'[x]
                      /\ \A e \in pending'[x][y] :
                           /\ e.id <= lastId'[x][y] /\ Callback(x, e.then)'
                           /\ Many(e.then.call)' => e.then.to = "batch" /\ e.then.of = y
    BY DEF Waiting
  <2>1. peers' = peers
    BY <1>21 DEF links
  <2>2. ASSUME NEW e \in pending'[x][y]
        PROVE  /\ y \in peers[x] /\ e.id <= lastId'[x][y] /\ Callback(x, e.then)'
               /\ Many(e.then.call)' => e.then.to = "batch" /\ e.then.of = y
    <3>1. e \in Entry
      BY <1>1 DEF Typed, TypedRequests
    <3>2. e.then \in Then /\ e.id \in Nat
      BY <3>1 DEF Entry
    <3>3. CASE e \in pending[x][y]
      <4>1. /\ y \in peers[x] /\ e.id <= lastId[x][y] /\ Callback(x, e.then)
            /\ Many(e.then.call) => e.then.to = "batch" /\ e.then.of = y
        BY <3>3, <1>20 DEF Waiting
      <4>2. e.then.call \in DOMAIN calls /\ (Many(e.then.call)' <=> Many(e.then.call))
        BY <4>1, <1>5 DEF Callback
      <4>3. lastId[x][y] <= lastId'[x][y]
        BY <1>22
      <4> QED
        BY <4>1, <4>2, <4>3, <3>2, <1>10, <1>22
    <3>4. CASE e \notin pending[x][y]
      <4>1. /\ x = p /\ y \in peers[p]
            /\ e.id = lastId[x][y] + 1 /\ lastId'[x][y] = lastId[x][y] + 1
            /\ e.then.call = c /\ Offered(p, c, e.then)
            /\ e.then.to = "batch" => e.then.of = y
            /\ Many(c)' => e.then.to # "peer"
        BY <3>4, <1>3
      <4>2. Many(c)' => e.then.to = "batch"
        BY <4>1, <3>2, ThenShape DEF Offered
      <4> QED
        BY <4>1, <4>2, <3>2, <1>11, <1>22
    <3> QED
      BY <3>3, <3>4
  <2> QED
    BY <2>1, <2>2
<1>15. Sole'
  <2> SUFFICES ASSUME NEW x \in Peer, NEW y \in Peer, NEW e \in pending'[x][y], e.then.to = "caller"
               PROVE  /\ \A w \in work' : w.then.to = "caller" => w.then.call # e.then.call
                      /\ \A u, v \in Peer : \A f \in pending'[u][v] :
                           f.then.to = "caller" /\ f.then.call = e.then.call => x = u /\ y = v /\ e = f
    BY DEF Sole
  <2>1. ASSUME NEW u \in Peer, NEW v \in Peer, NEW f \in pending'[u][v], f.then.to = "caller"
        PROVE  \/ f \in pending[u][v] /\ f.then.call \in DOMAIN calls
               \/ /\ u = p /\ v \in to /\ v \in Having(p, to, ran) /\ f = NewEntry(then, u, v) /\ f.then.call = c
                  /\ c \notin DOMAIN calls /\ ~Many(c)'
    <3>1. CASE f \in pending[u][v]
      BY <3>1, <1>20 DEF Waiting, Callback
    <3>2. CASE f \notin pending[u][v]
      <4>1. u = p /\ v \in to /\ v \in Having(p, to, ran) /\ f = NewEntry(then, u, v) /\ f.then.call = c
            /\ Offered(p, c, f.then)
        BY <3>2, <1>3
      <4> QED
        BY <4>1, <2>1 DEF Offered
    <3> QED
      BY <3>1, <3>2
  <2>2. ASSUME NEW w \in work', w.then.to = "caller"
        PROVE  w.then.call # e.then.call
    <3>1. CASE w \in work
      <4>1. w.then.call \in DOMAIN calls
        BY <3>1, <1>20 DEF Working, Callback
      <4>2. CASE e \in pending[x][y]
        BY <4>2, <3>1, <2>2, <1>20 DEF Sole
      <4> QED
        BY <4>1, <4>2, <2>1
    <3>2. CASE w \notin work
      <4>1. ran /\ Offered(p, c, w.then) /\ w.then.call = c
        BY <3>2, <1>12
      <4>2. c \notin DOMAIN calls /\ ~Many(c)'
        BY <4>1, <2>2 DEF Offered
      <4>3. to = {}
        BY <4>1, <4>2, <1>21 DEF Ready
      <4> QED
        BY <4>1, <4>2, <4>3, <2>1
    <3> QED
      BY <3>1, <3>2
  <2>3. ASSUME NEW u \in Peer, NEW v \in Peer, NEW f \in pending'[u][v],
               f.then.to = "caller", f.then.call = e.then.call
        PROVE  x = u /\ y = v /\ e = f
    <3>1. CASE e \in pending[x][y] /\ f \in pending[u][v]
      BY <3>1, <2>3, <1>20 DEF Sole
    <3>2. CASE y \in Having(p, to, ran) /\ v \in Having(p, to, ran) /\ ~Many(c)'
               /\ x = p /\ u = p /\ e = NewEntry(then, x, y) /\ f = NewEntry(then, u, v)
      <4>1. y = v
        BY <3>2, <1>21 DEF Ready
      <4> QED
        BY <3>2, <4>1
    <3> QED
      BY <3>1, <3>2, <2>1, <2>3
  <2> QED
    BY <2>2, <2>3
<1>16. ASSUME NEW d, d # c, Gone(d)
       PROVE  Gone(d)'
  <2> SUFFICES ASSUME NEW x \in Peer, NEW y \in Peer, NEW n \in DOMAIN chan'[x][y]
               PROVE  chan'[x][y][n].call # d
    BY DEF Gone
  <2>1. CASE n \in DOMAIN b[x][y] /\ chan'[x][y][n] = b[x][y][n]
    <3>1. PICK k \in DOMAIN chan[x][y] : chan'[x][y][n] = chan[x][y][k]
      BY <2>1, <1>6
    <3> QED
      BY <3>1, <1>16 DEF Gone
  <2>2. CASE chan'[x][y][n].call = c
    BY <2>2, <1>16
  <2> QED
    BY <2>1, <2>2, <1>4
<1>17. Returned'
  <2> SUFFICES ASSUME NEW x \in Peer, NEW y \in Peer
               PROVE  /\ back'[x][y] # <<>> => <<x, y>> \in up'
                      /\ \A a \in Replies(x, y)' :
                           /\ a.id <= lastId'[x][y]
                           /\ \A e \in pending'[x][y] : e.id = a.id =>
                                IF Many(e.then.call)' THEN handled'[e.then.call][y] > 0
                                ELSE Gone(e.then.call)' /\ a.by = By(e.then.call)'
    BY DEF Returned
  <2>1. back' = back /\ up' = up
    BY <1>21 DEF links
  <2>5. Replies(x, y)' = Replies(x, y)
    BY <2>1 DEF Replies
  <2>2. back[x][y] # <<>> => <<x, y>> \in up
    BY <1>20 DEF Returned
  <2>3. ASSUME NEW a \in Replies(x, y)
        PROVE  a.id <= lastId'[x][y] /\ a.id <= lastId[x][y] /\ a.id \in Nat
    <3>1. back[x][y] \in Seq(Answer)
      BY <1>20 DEF Typed, TypedCalls
    <3>2. a \in Answer
      BY <3>1, ElementOfSeq, LenProperties DEF Replies
    <3>3. a.id \in Nat
      BY <3>2 DEF Answer
    <3>4. a.id <= lastId[x][y]
      BY <1>20 DEF Returned
    <3> QED
      BY <3>3, <3>4, <1>22
  <2>4. ASSUME NEW a \in Replies(x, y), NEW e \in pending'[x][y], e.id = a.id
        PROVE  IF Many(e.then.call)' THEN handled'[e.then.call][y] > 0
               ELSE Gone(e.then.call)' /\ a.by = By(e.then.call)'
    <3>1. e \in pending[x][y]
      BY <2>3, <2>4, <1>3, <1>22
    <3>2. IF Many(e.then.call) THEN handled[e.then.call][y] > 0
          ELSE Gone(e.then.call) /\ a.by = By(e.then.call)
      <4>1. Returned
        BY <1>20
      <4>2. \A f \in pending[x][y] : f.id = a.id =>
              IF Many(f.then.call) THEN handled[f.then.call][y] > 0
              ELSE Gone(f.then.call) /\ a.by = By(f.then.call)
        BY <4>1, Zenon DEF Returned
      <4> QED
        BY <3>1, <2>4, <4>2, Zenon
    <3>3. e.then.call \in DOMAIN calls /\ e.then.call \in Call
      <4>1. e.then \in Then
        BY <3>1, <1>20 DEF Typed, TypedRequests, Entry
      <4> QED
        BY <3>1, <4>1, <1>20, ThenShape DEF Waiting, Callback
    <3>4. Many(e.then.call)' <=> Many(e.then.call)
      BY <3>3, <1>5
    <3>5. CASE Many(e.then.call)
      BY <3>2, <3>3, <3>4, <3>5, <1>7
    <3>6. CASE ~Many(e.then.call)
      <4>1. e.then.call # c
        BY <3>1, <3>4, <3>6, <2>4, <1>21 DEF Ready
      <4>2. By(e.then.call)' = By(e.then.call)
        BY <4>1, <3>3, <1>7
      <4> QED
        BY <3>2, <3>4, <3>6, <4>1, <4>2, <1>16
    <3> QED
      BY <3>5, <3>6
  <2> QED
    BY <2>1, <2>2, <2>3, <2>4, <2>5
<1>18. ASSUME NEW d \in DOMAIN calls'
       PROVE  d \in Call
  <2>1. calls' \in Seq(Made) /\ Len(calls') <= MaxCalls /\ MaxCalls \in Nat
    BY <1>21 DEF Grown, BoundsAssumption
  <2>2. DOMAIN calls' = 1 .. Len(calls') /\ Len(calls') \in Nat
    BY <2>1, LenProperties
  <2> QED
    BY <2>1, <2>2 DEF Call
<1>19. Told'
  <2> SUFFICES ASSUME NEW d \in DOMAIN calls', answers[d] # <<>>
               PROVE  /\ Len(answers[d]) <= 1
                      /\ \A n \in DOMAIN answers[d] :
                           /\ answers[d][n] = By(d)'
                           /\ IF Many(d)' THEN By(d)' = calls'[d].to ELSE Gone(d)'
    <3>1. answers' = answers
      BY <1>21
    <3>2. ASSUME NEW d, answers[d] = <<>>
          PROVE  Len(answers[d]) <= 1 /\ DOMAIN answers[d] = {}
      BY <3>2
    <3> QED
      BY <3>1, <3>2 DEF Told
  <2>1. d # c /\ d \in Call
    BY <1>18, <1>21 DEF Ready
  <2>2. d \in DOMAIN calls
    BY <2>1, <1>20 DEF Unmade
  <2>3. /\ Len(answers[d]) <= 1
        /\ \A n \in DOMAIN answers[d] :
             /\ answers[d][n] = By(d)
             /\ IF Many(d) THEN By(d) = calls[d].to ELSE Gone(d)
    BY <2>2, <1>20 DEF Told
  <2>4. By(d)' = By(d)
    BY <2>1, <1>7
  <2>5. calls'[d] = calls[d] /\ (Many(d)' <=> Many(d))
    BY <2>2, <1>5
  <2> QED
    BY <2>1, <2>3, <2>4, <2>5, <1>16
<1>23. ASSUME NEW d \in Call \ DOMAIN calls
       PROVE  /\ answers[d] = <<>> /\ batch[d] = {} /\ \A y \in Peer : handled[d][y] = 0
              /\ By(d) = {}
  BY <1>20 DEF Unmade, By
<1>24. Batched'
  <2> SUFFICES ASSUME NEW d \in DOMAIN calls'
               PROVE  /\ Many(d)' => By(d)' \subseteq calls'[d].to
                      /\ \A r \in batch'[d] : /\ Many(d)' /\ answers'[d] = <<>>
                                              /\ r.remaining \cup r.results = calls'[d].to
                                              /\ r.results \subseteq By(d)'
    BY DEF Batched
  <2>1. d \in Call /\ answers' = answers /\ By(d) \subseteq By(d)'
    BY <1>18, <1>21, <1>7
  <2>2. Many(d) /\ d \in DOMAIN calls => By(d) \subseteq calls[d].to
    BY <1>20 DEF Batched
  <2>3. Many(d)' => By(d) \subseteq calls'[d].to
    BY <2>1, <2>2, <1>5, <1>23
  <2>4. Many(d)' => By(d)' \subseteq calls'[d].to
    <3>1. CASE ran /\ d = c
      <4>1. By(d)' = By(d) \cup {p}
        BY <3>1, <1>7
      <4>2. Many(c)' => p \in calls'[c].to
        BY <3>1, <1>21 DEF Ready, Having
      <4> QED
        BY <3>1, <4>1, <4>2, <2>3
    <3>2. CASE ~(ran /\ d = c)
      BY <3>2, <2>1, <2>3, <1>7
    <3> QED
      BY <3>1, <3>2
  <2>5. ASSUME NEW r \in batch'[d]
        PROVE  /\ Many(d)' /\ answers[d] = <<>>
               /\ r.remaining \cup r.results = calls'[d].to
               /\ r.results \subseteq By(d)'
    <3>1. CASE batch'[d] = batch[d]
      <4>1. d \in DOMAIN calls
        BY <3>1, <2>1, <2>5, <1>23
      <4>2. /\ Many(d) /\ answers[d] = <<>>
            /\ r.remaining \cup r.results = calls[d].to
            /\ r.results \subseteq By(d)
        BY <3>1, <2>5, <4>1, <1>20 DEF Batched
      <4> QED
        BY <4>1, <4>2, <2>1, <1>5
    <3>2. CASE batch'[d] # batch[d]
      <4>1. /\ d = c /\ c \notin DOMAIN calls /\ Many(c)'
            /\ r = [remaining |-> calls'[c].to, results |-> {}]
        BY <3>2, <2>1, <2>5, <1>21 DEF Batching
      <4> QED
        BY <4>1, <1>21 DEF Ready
    <3> QED
      BY <3>1, <3>2
  <2> QED
    BY <2>1, <2>4, <2>5
<1>25. Once'
  <2> SUFFICES ASSUME NEW d \in Call, NEW y \in Peer
               PROVE  handled'[d][y] <= 1
    BY DEF Once
  <2>1. handled[d][y] \in Nat /\ handled[d][y] <= 1
    BY <1>7, <1>20 DEF Once
  <2>2. CASE ran /\ d = c /\ y = p
    <3>1. Many(c)' => handled[c][p] = 0
      BY <2>2, <1>21 DEF Ready, Having
    <3>2. ~Many(c)' => handled[c][p] = 0
      <4>1. ~Many(c)' => By(c) = {}
        BY <1>21 DEF Ready
      <4> QED
        BY <4>1, <2>1, <2>2 DEF By
    <3> QED
      BY <3>1, <3>2, <2>2, <1>7
  <2> QED
    BY <2>1, <2>2, <1>7
<1>26. Unmade'
  <2> SUFFICES ASSUME NEW d \in Call \ DOMAIN calls'
               PROVE  answers'[d] = <<>> /\ batch'[d] = {} /\ \A y \in Peer : handled'[d][y] = 0
    BY DEF Unmade
  <2>1. d \notin DOMAIN calls /\ d # c
    BY <1>5, <1>21 DEF Ready
  <2>2. answers' = answers /\ batch'[d] = batch[d]
    BY <2>1, <1>21 DEF Batching
  <2> QED
    BY <2>1, <2>2, <1>7, <1>23
<1> QED
  BY <1>1, <1>8, <1>9, <1>13, <1>14, <1>15, <1>17, <1>19, <1>24, <1>25, <1>26 DEF Inv

-----------------------------------------------------------------------------
(* Nothing new is under way: something is read, answered or lost.          *)

\* What was given out for a link is done with when it is cut.
Lasting ==
    /\ era' \in [Peer -> [Peer -> Nat]]
    /\ lastId' \in [Peer -> [Peer -> 0 .. MaxId]]
    /\ pending' \in [Peer -> [Peer -> SUBSET Entry]]
    /\ \A x, y \in Peer :
         /\ \/ era'[x][y] = era[x][y] /\ lastId'[x][y] = lastId[x][y]
            \/ era'[x][y] > era[x][y] /\ (lastId'[x][y] = lastId[x][y] \/ pending'[x][y] = {})
         /\ pending'[x][y] \subseteq pending[x][y]

\* Callers that still wait have no answer.
Unanswered ==
    /\ \A w \in work' : w.then.to = "caller" => answers'[w.then.call] = <<>>
    /\ \A x, y \in Peer : \A e \in pending'[x][y] :
         e.then.to = "caller" => answers'[e.then.call] = <<>>

Fading(b) ==
    /\ Grown /\ handled' = handled
    /\ Within(b) /\ chan' = b
    /\ Lasting /\ Unanswered
    /\ work' \subseteq work
    /\ \A x, y \in Peer : pending'[x][y] # {} => y \in peers'[x]

LEMMA Fades ==
    ASSUME Inv, BoundsAssumption, NEW b, Fading(b)
    PROVE  /\ Carried' /\ Lone' /\ Working' /\ Waiting' /\ Sole' /\ Once'
           /\ \A d : Gone(d) => Gone(d)'
<1>1. Typed /\ Unmade /\ Carried /\ Lone /\ Working /\ Waiting /\ Sole /\ Returned /\ Told /\ Batched /\ Once
  BY DEF Inv
<1>2. /\ Grown /\ handled' = handled /\ Within(b) /\ chan' = b /\ Lasting /\ Unanswered
      /\ work' \subseteq work
      /\ \A x, y \in Peer : pending'[x][y] # {} => y \in peers'[x]
  BY DEF Fading
<1>3. ASSUME NEW d \in DOMAIN calls
      PROVE  d \in DOMAIN calls' /\ calls'[d] = calls[d] /\ (Many(d)' <=> Many(d))
  BY <1>2 DEF Grown, Many
<1>4. ASSUME NEW d
      PROVE  By(d)' = By(d)
  BY <1>2 DEF By
<1>5. ASSUME NEW x \in Peer, NEW y \in Peer
      PROVE  Messages(x, y)' \subseteq Messages(x, y)
  <2>1. ASSUME NEW n \in DOMAIN b[x][y]
        PROVE  \E k \in DOMAIN chan[x][y] : b[x][y][n] = chan[x][y][k]
    BY <1>2 DEF Within
  <2> QED
    BY <2>1, <1>2 DEF Messages
<1>6. ASSUME NEW x \in Peer, NEW y \in Peer, NEW n \in Nat, NEW id \in Nat, NEW d, Numbered(x, y, n, id)
      PROVE  Numbered(x, y, n, id)' /\ (Linked(x, y, n, id, d) => Linked(x, y, n, id, d)')
  <2>1. /\ era[x][y] \in Nat /\ era'[x][y] \in Nat /\ lastId[x][y] \in Nat /\ lastId'[x][y] \in Nat
    BY <1>1, <1>2 DEF Typed, TypedLinks, TypedRequests, Lasting
  <2>2. /\ (era'[x][y] = era[x][y] /\ lastId'[x][y] = lastId[x][y]) \/ era'[x][y] > era[x][y]
        /\ pending'[x][y] \subseteq pending[x][y]
    BY <1>2 DEF Lasting
  <2>3. n <= era[x][y] /\ (n = era[x][y] => id <= lastId[x][y])
    BY <1>6 DEF Numbered
  <2>4. Numbered(x, y, n, id)'
    BY <2>1, <2>2, <2>3 DEF Numbered
  <2>5. n = era'[x][y] => n = era[x][y]
    BY <2>1, <2>2, <2>3
  <2> QED
    BY <2>2, <2>4, <2>5 DEF Linked
<1>7. ASSUME NEW x \in Peer, NEW y \in Peer, NEW m \in Messages(x, y)
      PROVE  m \in Message
  <2>1. chan[x][y] \in Seq(Message)
    BY <1>1 DEF Typed, TypedCalls
  <2> QED
    BY <2>1, ElementOfSeq, LenProperties DEF Messages
<1>8. Carried'
  <2> SUFFICES ASSUME NEW x \in Peer, NEW y \in Peer, NEW m \in Messages(x, y)'
               PROVE  /\ m.call \in DOMAIN calls'
                      /\ Numbered(x, y, m.era, m.id)' /\ Linked(x, y, m.era, m.id, m.call)'
                      /\ handled'[m.call][y] = 0
                      /\ IF Many(m.call)' THEN y \in calls'[m.call].to ELSE By(m.call)' = {}
    BY DEF Carried
  <2>1. m \in Messages(x, y)
    BY <1>5
  <2>2. /\ m.call \in DOMAIN calls
        /\ Numbered(x, y, m.era, m.id) /\ Linked(x, y, m.era, m.id, m.call)
        /\ handled[m.call][y] = 0
        /\ IF Many(m.call) THEN y \in calls[m.call].to ELSE By(m.call) = {}
    BY <2>1, <1>1 DEF Carried
  <2>3. m.era \in Nat /\ m.id \in Nat
    BY <2>1, <1>7 DEF Message
  <2>4. Numbered(x, y, m.era, m.id)' /\ Linked(x, y, m.era, m.id, m.call)'
    BY <2>2, <2>3, <1>6
  <2> QED
    BY <2>2, <2>4, <1>2, <1>3, <1>4
<1>9. ASSUME NEW d, Gone(d)
      PROVE  Gone(d)'
  <2>1. ASSUME NEW x \in Peer, NEW y \in Peer, NEW n \in DOMAIN b[x][y]
        PROVE  \E k \in DOMAIN chan[x][y] : b[x][y][n] = chan[x][y][k]
    BY <1>2 DEF Within
  <2> QED
    BY <2>1, <1>9, <1>2 DEF Gone
<1>10. Lone'
  <2> SUFFICES ASSUME NEW d \in Call,
                      NEW x1 \in Peer, NEW y1 \in Peer, NEW n1 \in DOMAIN b[x1][y1],
                      NEW x2 \in Peer, NEW y2 \in Peer, NEW n2 \in DOMAIN b[x2][y2],
                      b[x1][y1][n1].call = d, b[x2][y2][n2].call = d,
                      y1 = y2 \/ ~Many(d)'
               PROVE  x1 = x2 /\ y1 = y2 /\ n1 = n2
    BY <1>2 DEF Lone
  <2>1. PICK k1 \in {0, 1} : \A n \in DOMAIN b[x1][y1] :
           n + k1 \in DOMAIN chan[x1][y1] /\ b[x1][y1][n] = chan[x1][y1][n + k1]
    BY <1>2 DEF Within
  <2>2. PICK k2 \in {0, 1} : \A n \in DOMAIN b[x2][y2] :
           n + k2 \in DOMAIN chan[x2][y2] /\ b[x2][y2][n] = chan[x2][y2][n + k2]
    BY <1>2 DEF Within
  <2>3. PICK j1 : j1 = n1 + k1
    OBVIOUS
  <2>4. PICK j2 : j2 = n2 + k2
    OBVIOUS
  <2>5. j1 \in DOMAIN chan[x1][y1] /\ j2 \in DOMAIN chan[x2][y2]
        /\ chan[x1][y1][j1].call = d /\ chan[x2][y2][j2].call = d
    BY <2>1, <2>2, <2>3, <2>4
  <2>6. d \in DOMAIN calls
    <3>1. PICK m : m = chan[x1][y1][j1]
      OBVIOUS
    <3>2. m \in Messages(x1, y1) /\ m.call = d
      BY <2>5, <3>1 DEF Messages
    <3> QED
      BY <3>2, <1>1 DEF Carried
  <2>7. y1 = y2 \/ ~Many(d)
    BY <2>6, <1>3
  <2>8. x1 = x2 /\ y1 = y2 /\ j1 = j2
    <3>1. Lone
      BY <1>1
    <3> QED
      BY <2>5, <2>7, <3>1 DEF Lone
  <2>9. b[x1][y1] \in Seq(Message)
    BY <1>2 DEF Within
  <2>10. n1 \in Nat /\ n2 \in Nat
    BY <2>8, <2>9, LenProperties
  <2>11. CASE k1 = k2
    BY <2>3, <2>4, <2>8, <2>10, <2>11
  <2>12. CASE k1 # k2
    \* Shifted in two ways, a place of b would be two places of chan.
    <3>1. n1 + k1 \in DOMAIN chan[x1][y1] /\ n1 + k2 \in DOMAIN chan[x1][y1]
          /\ chan[x1][y1][n1 + k1].call = d /\ chan[x1][y1][n1 + k2].call = d
      BY <2>1, <2>2, <2>8
    <3>2. \A i, j \in DOMAIN chan[x1][y1] :
            chan[x1][y1][i].call = d /\ chan[x1][y1][j].call = d => i = j
      BY <1>1 DEF Lone
    <3>3. n1 + k1 = n1 + k2
      BY <3>1, <3>2
    <3> QED
      BY <3>3, <2>10, <2>12
  <2> QED
    BY <2>8, <2>11, <2>12
<1>11. ASSUME NEW x \in Peer, NEW t \in Then, Callback(x, t), t.to = "caller" => answers'[t.call] = <<>>
       PROVE  Callback(x, t)'
  <2>1. t.call \in DOMAIN calls' /\ calls'[t.call] = calls[t.call] /\ (Many(t.call)' <=> Many(t.call))
    BY <1>3, <1>11 DEF Callback
  <2>2. t.to = "peer" => /\ Numbered(t.peer, x, t.era, t.id)'
                         /\ Linked(t.peer, x, t.era, t.id, t.call)'
    <3>1. t.to = "peer" => t.peer \in Peer /\ t.era \in Nat /\ t.id \in Nat
      BY ThenShape
    <3> QED
      BY <3>1, <1>6, <1>11 DEF Callback
  <2> QED
    BY <2>1, <2>2, <1>11 DEF Callback
<1>12. Working'
  <2> SUFFICES ASSUME NEW w \in work'
               PROVE  /\ Callback(w.at, w.then)'
                      /\ IF Many(w.then.call)' THEN handled'[w.then.call][w.at] > 0
                         ELSE By(w.then.call)' = {w.at}
                      /\ w.then.to = "batch" => w.then.of = w.at
    BY DEF Working
  <2>1. w \in work /\ w.at \in Peer /\ w.then \in Then
    BY <1>1, <1>2 DEF Typed, TypedRequests, Request
  <2>2. /\ Callback(w.at, w.then)
        /\ IF Many(w.then.call) THEN handled[w.then.call][w.at] > 0 ELSE By(w.then.call) = {w.at}
        /\ w.then.to = "batch" => w.then.of = w.at
    BY <2>1, <1>1 DEF Working
  <2>3. Callback(w.at, w.then)'
    BY <2>1, <2>2, <1>2, <1>11 DEF Unanswered
  <2>4. Many(w.then.call)' <=> Many(w.then.call)
    BY <2>2, <1>3 DEF Callback
  <2> QED
    BY <2>2, <2>3, <2>4, <1>2, <1>4
<1>13. Waiting'
  <2> SUFFICES ASSUME NEW x \in Peer, NEW y \in Peer, NEW e \in pending'[x][y]
               PROVE  /\ e.id <= lastId'[x][y] /\ Callback(x, e.then)'
                      /\ Many(e.then.call)' => e.then.to = "batch" /\ e.then.of = y
    BY <1>2 DEF Waiting
  <2>1. e \in pending[x][y] /\ lastId'[x][y] = lastId[x][y]
    BY <1>2 DEF Lasting
  <2>2. e.then \in Then
    BY <2>1, <1>1 DEF Typed, TypedRequests, Entry
  <2>3. /\ e.id <= lastId[x][y] /\ Callback(x, e.then)
        /\ Many(e.then.call) => e.then.to = "batch" /\ e.then.of = y
    BY <2>1, <1>1 DEF Waiting
  <2>4. Callback(x, e.then)'
    BY <2>2, <2>3, <1>2, <1>11 DEF Unanswered
  <2>5. Many(e.then.call)' <=> Many(e.then.call)
    BY <2>3, <1>3 DEF Callback
  <2> QED
    BY <2>1, <2>3, <2>4, <2>5
<1>14. Sole'
  <2>1. \A x, y \in Peer : pending'[x][y] \subseteq pending[x][y]
    BY <1>2 DEF Lasting
  <2> QED
    BY <2>1, <1>1, <1>2 DEF Sole
<1>15. Once'
  BY <1>1, <1>2 DEF Once
<1> QED
  BY <1>8, <1>9, <1>10, <1>12, <1>13, <1>14, <1>15


-----------------------------------------------------------------------------
(* Answering.                                                              *)

\* Answers that have not been read are among those there were.
Left(before) ==
    /\ before \in [Peer -> [Peer -> Seq(Answer)]]
    /\ \A x, y \in Peer : \A n \in DOMAIN before[x][y] :
         \E k \in DOMAIN back[x][y] : before[x][y][n] = back[x][y][k]

\* p may answer through t in the name of `by`.
Due(p, t, by, b) ==
    /\ t.call \in DOMAIN calls' /\ (t \in Then \/ t.to = "nowhere")
    /\ t.to = "caller" =>
         /\ ~Many(t.call)' /\ by = By(t.call) /\ answers[t.call] = <<>>
         /\ \A y \in Peer : Clear(b, t.call, y)
         /\ \A w \in work' : w.then.to = "caller" => w.then.call # t.call
         /\ \A x, y \in Peer : \A e \in pending'[x][y] : e.then.to = "caller" => e.then.call # t.call
    /\ t.to = "batch" => t.call \in DOMAIN calls /\ handled[t.call][t.of] > 0
    /\ t.to = "peer" =>
         /\ Numbered(t.peer, p, t.era, t.id) /\ Linked(t.peer, p, t.era, t.id, t.call)
         /\ Many(t.call)' => handled[t.call][p] > 0
         /\ ~Many(t.call)' => by = By(t.call) /\ \A y \in Peer : Clear(b, t.call, y)

Settling(p, t, by, before, b) ==
    /\ Grown /\ UNCHANGED <<links, upsets, where, handled, lastId>>
    /\ lost' \subseteq DOMAIN calls'
    /\ Within(b) /\ chan' = b
    /\ work' \subseteq work
    /\ pending' \in [Peer -> [Peer -> SUBSET Entry]]
    /\ \A x, y \in Peer : pending'[x][y] \subseteq pending[x][y]
    /\ Left(before)
    /\ Answered(p, t, by, before)
    /\ Due(p, t, by, b)

\* What that does to a batch: it waits on, or is complete.
Batch(d, answer) ==
    /\ d \in DOMAIN calls /\ Many(d)
    /\ \/ answer = <<>> /\ \A r \in batch'[d] : r.remaining \cup r.results = calls[d].to /\ r.results \subseteq By(d)
       \/ answer = <<By(d)>> /\ By(d) = calls[d].to /\ batch'[d] = {}

LEMMA Collects ==
    ASSUME Inv, BoundsAssumption, NEW d \in DOMAIN calls, NEW q \in Peer, handled[d][q] > 0, Collected(d, q)
    PROVE  /\ batch' \in [Call -> SUBSET Awaiting]
           /\ \A x \in Call : x # d => batch'[x] = batch[x] /\ answers'[x] = answers[x]
           /\ \A b1, b2 \in batch'[d] : b1 = b2
           /\ answers' \in [Call -> Seq(SUBSET Peer)]
           /\ answers[d] = <<>> /\ Batch(d, answers'[d])
<1>1. Typed /\ Batched
  BY DEF Inv
<1>2. PICK r \in batch[d] :
        IF r.remaining \ {q} = {}
        THEN /\ batch' = [batch EXCEPT ![d] = {}]
             /\ answers' = [answers EXCEPT ![d] = Append(@, r.results \cup {q})]
        ELSE /\ batch' = [batch EXCEPT ![d] = {[remaining |-> r.remaining \ {q}, results |-> r.results \cup {q}]}]
             /\ UNCHANGED answers
  BY DEF Collected
<1>3. d \in Call
  <2>1. calls \in Seq(Made) /\ Len(calls) <= MaxCalls /\ MaxCalls \in Nat
    BY <1>1 DEF Typed, TypedCalls, BoundsAssumption
  <2> QED
    BY <2>1, LenProperties DEF Call
<1>4. /\ batch \in [Call -> SUBSET Awaiting] /\ answers \in [Call -> Seq(SUBSET Peer)]
      /\ \A y \in Peer : handled[d][y] \in Nat
  BY <1>1, <1>3 DEF Typed, TypedRequests, TypedCalls
<1>5. r.remaining \subseteq Peer /\ r.results \subseteq Peer
  BY <1>3, <1>4 DEF Awaiting
<1>6. /\ Many(d) /\ answers[d] = <<>> /\ By(d) \subseteq calls[d].to
      /\ r.remaining \cup r.results = calls[d].to /\ r.results \subseteq By(d)
  BY <1>1, <1>2 DEF Batched
<1>7. q \in By(d)
  BY DEF By
<1>8. CASE r.remaining \ {q} = {}
  <2>1. r.results \cup {q} = By(d) /\ By(d) = calls[d].to
    BY <1>6, <1>7, <1>8
  <2>2. /\ batch' = [batch EXCEPT ![d] = {}]
        /\ answers' = [answers EXCEPT ![d] = Append(@, r.results \cup {q})]
    BY <1>2, <1>8
  <2>3. answers'[d] = Append(<<>>, By(d))
    BY <2>1, <2>2, <1>3, <1>4, <1>6
  <2>4. answers'[d] = <<By(d)>>
    BY <2>3
  <2>5. By(d) \in SUBSET Peer
    BY DEF By
  <2>6. <<By(d)>> \in Seq(SUBSET Peer)
    BY <2>5
  <2>7. answers' \in [Call -> Seq(SUBSET Peer)] /\ \A x \in Call : x # d => answers'[x] = answers[x]
    BY <2>2, <2>4, <2>6, <1>3, <1>4
  <2>8. /\ batch' \in [Call -> SUBSET Awaiting] /\ batch'[d] = {}
        /\ \A x \in Call : x # d => batch'[x] = batch[x]
    BY <2>2, <1>3, <1>4
  <2> QED
    BY <2>1, <2>4, <2>7, <2>8, <1>6 DEF Batch
<1>9. CASE r.remaining \ {q} # {}
  <2>1. PICK s : s = [remaining |-> r.remaining \ {q}, results |-> r.results \cup {q}]
    OBVIOUS
  <2>2. s.remaining = r.remaining \ {q} /\ s.results = r.results \cup {q} /\ s \in Awaiting
    BY <2>1, <1>5 DEF Awaiting
  <2>3. batch' = [batch EXCEPT ![d] = {s}] /\ answers' = answers
    BY <1>2, <1>9, <2>1
  <2>4. /\ batch' \in [Call -> SUBSET Awaiting] /\ batch'[d] = {s}
        /\ \A x \in Call : x # d => batch'[x] = batch[x]
    BY <2>2, <2>3, <1>3, <1>4
  <2>5. s.remaining \cup s.results = calls[d].to /\ s.results \subseteq By(d)
    BY <2>2, <1>6, <1>7
  <2> QED
    BY <2>3, <2>4, <2>5, <1>4, <1>6 DEF Batch
<1> QED
  BY <1>8, <1>9


\* What an answer leaves.
AnswersAfter(t, b) ==
    /\ answers' \in [Call -> Seq(SUBSET Peer)]
    /\ \A x \in Call : answers'[x] # answers[x] =>
         /\ x = t.call /\ x \in DOMAIN calls' /\ answers[x] = <<>> /\ answers'[x] = <<By(x)>>
         /\ Many(x)' => By(x) = calls'[x].to
         /\ ~Many(x)' => t.to = "caller" /\ \A y \in Peer : Clear(b, x, y)

BatchAfter(t) ==
    /\ batch' \in [Call -> SUBSET Awaiting]
    /\ \A x \in Call : /\ \A b1, b2 \in batch'[x] : b1 = b2
                       /\ batch'[x] # batch[x] => x \in DOMAIN calls
                       /\ x = t.call /\ t.to = "batch" => Batch(x, answers'[x])
                       /\ ~(x = t.call /\ t.to = "batch") => batch'[x] = batch[x]
                       /\ answers'[x] # answers[x] =>
                            x = t.call /\ (t.to = "batch" \/ (t.to = "caller" /\ ~Many(x)'))

BackAfter(p, t, by) ==
    /\ back' \in [Peer -> [Peer -> Seq(Answer)]]
    /\ \A x, y \in Peer : \A n \in DOMAIN back'[x][y] :
         \/ \E k \in DOMAIN back[x][y] : back'[x][y][n] = back[x][y][k]
         \/ /\ t.to = "peer" /\ x = t.peer /\ y = p /\ <<x, y>> \in up /\ era[x][y] = t.era
            /\ back'[x][y][n] = [id |-> t.id, by |-> by]

LEMMA Gives ==
    ASSUME Inv, BoundsAssumption, NEW p \in Peer, NEW t, NEW by, by \subseteq Peer, NEW before, NEW b,
           Settling(p, t, by, before, b)
    PROVE  AnswersAfter(t, b) /\ BatchAfter(t)
<1>1. Typed /\ Batched /\ Grown /\ Answered(p, t, by, before) /\ Due(p, t, by, b)
  BY DEF Inv, Settling
<1>2. t.call \in DOMAIN calls' /\ t.call \in Call /\ (t \in Then \/ t.to = "nowhere")
  <2>1. calls' \in Seq(Made) /\ Len(calls') <= MaxCalls /\ MaxCalls \in Nat
    BY <1>1 DEF Grown, BoundsAssumption
  <2>2. DOMAIN calls' \subseteq Call
    BY <2>1, LenProperties DEF Call
  <2> QED
    BY <2>2, <1>1 DEF Due
<1>3. /\ batch \in [Call -> SUBSET Awaiting] /\ \A x \in Call : \A b1, b2 \in batch[x] : b1 = b2
      /\ answers \in [Call -> Seq(SUBSET Peer)]
  BY <1>1 DEF Typed, TypedRequests, TypedCalls
<1>4. CASE t.to = "caller"
  <2>1. answers' = [answers EXCEPT ![t.call] = Append(@, by)] /\ batch' = batch
    BY <1>1, <1>4 DEF Answered
  <2>2. /\ ~Many(t.call)' /\ by = By(t.call) /\ answers[t.call] = <<>>
        /\ \A y \in Peer : Clear(b, t.call, y)
    BY <1>1, <1>4 DEF Due
  <2>3. answers'[t.call] = <<by>>
    BY <2>1, <2>2, <1>2, <1>3
  <2>4. <<by>> \in Seq(SUBSET Peer)
    OBVIOUS
  <2>5. answers' \in [Call -> Seq(SUBSET Peer)] /\ \A x \in Call : x # t.call => answers'[x] = answers[x]
    BY <2>1, <2>3, <2>4, <1>2, <1>3
  <2>6. AnswersAfter(t, b)
    BY <2>2, <2>3, <2>5, <1>2, <1>4 DEF AnswersAfter
  <2>7. BatchAfter(t)
    BY <2>1, <2>2, <2>5, <1>3, <1>4 DEF BatchAfter
  <2> QED
    BY <2>6, <2>7
<1>5. CASE t.to = "batch"
  <2>1. t.of \in Peer /\ t.call \in DOMAIN calls /\ handled[t.call][t.of] > 0 /\ Collected(t.call, t.of)
    BY <1>1, <1>2, <1>5, ThenShape DEF Due, Answered
  <2>2. PICK d \in DOMAIN calls : d = t.call
    BY <2>1
  <2>3. PICK q \in Peer : q = t.of
    BY <2>1
  <2>4. /\ batch' \in [Call -> SUBSET Awaiting]
        /\ \A x \in Call : x # d => batch'[x] = batch[x] /\ answers'[x] = answers[x]
        /\ \A b1, b2 \in batch'[d] : b1 = b2
        /\ answers' \in [Call -> Seq(SUBSET Peer)]
        /\ answers[d] = <<>> /\ Batch(d, answers'[d])
    BY <2>1, <2>2, <2>3, Collects
  <2>5. calls'[d] = calls[d] /\ (Many(d)' <=> Many(d))
    BY <1>1, <2>2 DEF Grown, Many
  <2>6. AnswersAfter(t, b)
    BY <2>2, <2>4, <2>5, <1>2 DEF AnswersAfter, Batch
  <2>7. ASSUME NEW x \in Call
        PROVE  /\ \A b1, b2 \in batch'[x] : b1 = b2
               /\ batch'[x] # batch[x] => x \in DOMAIN calls
               /\ x = t.call /\ t.to = "batch" => Batch(x, answers'[x])
               /\ ~(x = t.call /\ t.to = "batch") => batch'[x] = batch[x]
               /\ answers'[x] # answers[x] => x = t.call /\ (t.to = "batch" \/ (t.to = "caller" /\ ~Many(x)'))
    <3>1. CASE x = d
      <4>1. Batch(x, answers'[x])
        BY <3>1, <2>4 DEF Batch
      <4> QED
        BY <3>1, <4>1, <2>2, <2>4, <1>5
    <3>2. CASE x # d
      BY <3>2, <2>2, <2>4, <1>3
    <3> QED
      BY <3>1, <3>2
  <2>8. BatchAfter(t)
    BY <2>4, <2>7 DEF BatchAfter
  <2> QED
    BY <2>6, <2>8
<1>6. CASE t.to = "peer" \/ t.to = "nowhere"
  <2>1. answers' = answers /\ batch' = batch
    BY <1>1, <1>6 DEF Answered
  <2> QED
    BY <2>1, <1>3, <1>6 DEF AnswersAfter, BatchAfter
<1> QED
  BY <1>2, <1>4, <1>5, <1>6, ThenShape

LEMMA GivesBack ==
    ASSUME Inv, BoundsAssumption, NEW p \in Peer, NEW t, NEW by, by \subseteq Peer, NEW before, NEW b,
           Settling(p, t, by, before, b)
    PROVE  BackAfter(p, t, by)
<1>1. Left(before) /\ Answered(p, t, by, before) /\ Due(p, t, by, b)
  BY DEF Settling
<1>2. before \in [Peer -> [Peer -> Seq(Answer)]]
  BY <1>1 DEF Left
<1>3. CASE back' = before
  BY <1>1, <1>3 DEF Left, BackAfter
<1>4. CASE back' # before
  <2>1. /\ t.to = "peer" /\ <<t.peer, p>> \in up /\ era[t.peer][p] = t.era
        /\ back' = [before EXCEPT ![t.peer][p] = Append(@, [id |-> t.id, by |-> by])]
    BY <1>1, <1>4 DEF Answered
  <2>2. t \in Then
    BY <1>1, <2>1 DEF Due
  <2>3. t.peer \in Peer /\ t.id \in 1 .. MaxId
    BY <2>1, <2>2, ThenShape
  <2>4. PICK a : a = [id |-> t.id, by |-> by]
    OBVIOUS
  <2>5. a \in Answer
    BY <2>3, <2>4 DEF Answer
  <2>6. PICK u \in Peer : u = t.peer
    BY <2>3
  <2>7. before[u][p] \in Seq(Answer)
    BY <1>2
  <2>8. /\ Append(before[u][p], a) \in Seq(Answer)
        /\ Len(Append(before[u][p], a)) = Len(before[u][p]) + 1
        /\ \A i \in 1 .. Len(before[u][p]) : Append(before[u][p], a)[i] = before[u][p][i]
        /\ Append(before[u][p], a)[Len(before[u][p]) + 1] = a
    BY <2>5, <2>7, AppendProperties
  <2>9. back'[u][p] = Append(before[u][p], a) /\ \A x, y \in Peer : ~(x = u /\ y = p) => back'[x][y] = before[x][y]
    BY <2>1, <2>4, <2>6, <1>2
  <2>10. back' \in [Peer -> [Peer -> Seq(Answer)]]
    BY <2>1, <2>4, <2>6, <2>8, <1>2
  <2>11. ASSUME NEW n \in DOMAIN back'[u][p]
         PROVE  \/ n \in DOMAIN before[u][p] /\ back'[u][p][n] = before[u][p][n]
                \/ back'[u][p][n] = a
    BY <2>5, <2>7, <2>8, <2>9, LenProperties
  <2>12. ASSUME NEW x \in Peer, NEW y \in Peer, NEW n \in DOMAIN back'[x][y]
         PROVE  \/ n \in DOMAIN before[x][y] /\ back'[x][y][n] = before[x][y][n]
                \/ x = u /\ y = p /\ back'[x][y][n] = a
    <3>1. CASE x = u /\ y = p
      BY <3>1, <2>11
    <3>2. CASE ~(x = u /\ y = p)
      BY <3>2, <2>9
    <3> QED
      BY <3>1, <3>2
  <2>13. ASSUME NEW x \in Peer, NEW y \in Peer, NEW n \in DOMAIN back'[x][y]
         PROVE  \/ \E k \in DOMAIN back[x][y] : back'[x][y][n] = back[x][y][k]
                \/ /\ t.to = "peer" /\ x = t.peer /\ y = p /\ <<x, y>> \in up /\ era[x][y] = t.era
                   /\ back'[x][y][n] = [id |-> t.id, by |-> by]
    <3>1. CASE n \in DOMAIN before[x][y] /\ back'[x][y][n] = before[x][y][n]
      <4>1. \E k \in DOMAIN back[x][y] : before[x][y][n] = back[x][y][k]
        BY <3>1, <1>1 DEF Left
      <4> QED
        BY <3>1, <4>1
    <3>2. CASE x = u /\ y = p /\ back'[x][y][n] = a
      BY <3>2, <2>1, <2>4, <2>6
    <3> QED
      BY <3>1, <3>2, <2>12
  <2> QED
    BY <2>10, <2>13 DEF BackAfter
<1> QED
  BY <1>3, <1>4


LEMMA Settles ==
    ASSUME Inv, BoundsAssumption, NEW p \in Peer, NEW t, NEW by, by \subseteq Peer, NEW before, NEW b,
           Settling(p, t, by, before, b)
    PROVE  Inv'
<1>1. Typed /\ Unmade /\ Carried /\ Lone /\ Working /\ Waiting /\ Sole /\ Returned /\ Told /\ Batched /\ Once
  BY DEF Inv
<1>2. /\ Grown /\ UNCHANGED <<links, upsets, where, handled, lastId>>
      /\ lost' \subseteq DOMAIN calls' /\ Within(b) /\ chan' = b /\ work' \subseteq work
      /\ pending' \in [Peer -> [Peer -> SUBSET Entry]]
      /\ \A x, y \in Peer : pending'[x][y] \subseteq pending[x][y]
      /\ Due(p, t, by, b)
  BY DEF Settling
<1>3. AnswersAfter(t, b) /\ BatchAfter(t)
  BY Gives
<1>4. BackAfter(p, t, by)
  BY GivesBack
<1>5. ASSUME NEW d \in DOMAIN calls
      PROVE  d \in DOMAIN calls' /\ calls'[d] = calls[d] /\ (Many(d)' <=> Many(d))
  BY <1>2 DEF Grown, Many
<1>6. ASSUME NEW d
      PROVE  By(d)' = By(d)
  BY <1>2 DEF By
<1>7. ASSUME NEW d \in DOMAIN calls'
      PROVE  d \in Call
  <2>1. calls' \in Seq(Made) /\ Len(calls') <= MaxCalls /\ MaxCalls \in Nat
    BY <1>2 DEF Grown, BoundsAssumption
  <2> QED
    BY <2>1, LenProperties DEF Call
<1>8. Lasting
  <2>1. era' = era /\ lastId' = lastId
    BY <1>2 DEF links
  <2>2. era \in [Peer -> [Peer -> Nat]] /\ lastId \in [Peer -> [Peer -> 0 .. MaxId]]
    BY <1>1 DEF Typed, TypedLinks, TypedRequests
  <2> QED
    BY <2>1, <2>2, <1>2 DEF Lasting
<1>9. ASSUME NEW d \in DOMAIN calls, ~Many(d), answers[d] = <<>>, ~(t.to = "caller" /\ t.call = d)
      PROVE  answers'[d] = <<>>
  <2>1. d \in Call /\ ~Many(d)'
    BY <1>5, <1>7, <1>9
  <2> QED
    BY <2>1, <1>3, <1>9 DEF AnswersAfter
<1>10. Unanswered
  <2>1. ASSUME NEW w \in work', w.then.to = "caller"
        PROVE  answers'[w.then.call] = <<>>
    <3>1. w.then.call \in DOMAIN calls /\ ~Many(w.then.call) /\ answers[w.then.call] = <<>>
      BY <2>1, <1>1, <1>2 DEF Working, Callback
    <3>2. ~(t.to = "caller" /\ t.call = w.then.call)
      BY <2>1, <1>2 DEF Due
    <3> QED
      BY <3>1, <3>2, <1>9
  <2>2. ASSUME NEW x \in Peer, NEW y \in Peer, NEW e \in pending'[x][y], e.then.to = "caller"
        PROVE  answers'[e.then.call] = <<>>
    <3>1. e \in pending[x][y]
      BY <1>2
    <3>2. e.then.call \in DOMAIN calls /\ ~Many(e.then.call) /\ answers[e.then.call] = <<>>
      BY <2>2, <3>1, <1>1 DEF Waiting, Callback
    <3>3. ~(t.to = "caller" /\ t.call = e.then.call)
      BY <2>2, <1>2 DEF Due
    <3> QED
      BY <3>2, <3>3, <1>9
  <2> QED
    BY <2>1, <2>2 DEF Unanswered
<1>11. Fading(b)
  <2>1. ASSUME NEW x \in Peer, NEW y \in Peer, pending'[x][y] # {}
        PROVE  y \in peers'[x]
    <3>1. pending[x][y] # {} /\ peers' = peers
      BY <2>1, <1>2 DEF links
    <3> QED
      BY <3>1, <1>1 DEF Waiting
  <2> QED
    BY <2>1, <1>2, <1>8, <1>10 DEF Fading
<1>12. /\ Carried' /\ Lone' /\ Working' /\ Waiting' /\ Sole' /\ Once'
       /\ \A d : Gone(d) => Gone(d)'
  BY <1>11, Fades
<1>13. Typed'
  <2>1. TypedLinks'
    BY <1>1, <1>2 DEF Typed, TypedLinks, links
  <2>2. lastId' \in [Peer -> [Peer -> 0 .. MaxId]] /\ work' \subseteq Request
    BY <1>1, <1>2 DEF Typed, TypedRequests
  <2>3. batch' \in [Call -> SUBSET Awaiting] /\ \A c \in Call : \A b1, b2 \in batch'[c] : b1 = b2
    BY <1>3 DEF BatchAfter
  <2>4. TypedRequests'
    BY <2>2, <2>3, <1>2 DEF TypedRequests
  <2>5. chan' \in [Peer -> [Peer -> Seq(Message)]]
    BY <1>2 DEF Within
  <2>6. back' \in [Peer -> [Peer -> Seq(Answer)]] /\ answers' \in [Call -> Seq(SUBSET Peer)]
    BY <1>3, <1>4 DEF AnswersAfter, BackAfter
  <2>7. handled' \in [Call -> [Peer -> Nat]]
    BY <1>1, <1>2 DEF Typed, TypedCalls
  <2>8. TypedCalls'
    BY <2>5, <2>6, <2>7, <1>2 DEF TypedCalls, Grown
  <2> QED
    BY <2>1, <2>4, <2>8 DEF Typed
<1>14. Unmade'
  <2> SUFFICES ASSUME NEW d \in Call \ DOMAIN calls'
               PROVE  answers'[d] = <<>> /\ batch'[d] = {} /\ \A q \in Peer : handled'[d][q] = 0
    BY DEF Unmade
  <2>1. d \notin DOMAIN calls
    BY <1>5
  <2>2. answers'[d] = answers[d] /\ batch'[d] = batch[d] /\ handled' = handled
    BY <2>1, <1>2, <1>3 DEF AnswersAfter, BatchAfter
  <2> QED
    BY <2>1, <2>2, <1>1 DEF Unmade
<1>15. ASSUME NEW d, \A y \in Peer : Clear(b, d, y)
       PROVE  Gone(d)'
  BY <1>2, <1>15 DEF Clear, Gone
<1>16. Returned'
  <2> SUFFICES ASSUME NEW x \in Peer, NEW y \in Peer
               PROVE  /\ back'[x][y] # <<>> => <<x, y>> \in up'
                      /\ \A a \in Replies(x, y)' :
                           /\ a.id <= lastId'[x][y]
                           /\ \A e \in pending'[x][y] : e.id = a.id =>
                                IF Many(e.then.call)' THEN handled'[e.then.call][y] > 0
                                ELSE Gone(e.then.call)' /\ a.by = By(e.then.call)'
    BY DEF Returned
  <2>1. up' = up /\ lastId' = lastId /\ handled' = handled /\ pending'[x][y] \subseteq pending[x][y]
    BY <1>2 DEF links
  <2>2. ASSUME NEW n \in DOMAIN back'[x][y]
        PROVE  \/ \E k \in DOMAIN back[x][y] : back'[x][y][n] = back[x][y][k]
               \/ /\ t.to = "peer" /\ x = t.peer /\ y = p /\ <<x, y>> \in up /\ era[x][y] = t.era
                  /\ back'[x][y][n] = [id |-> t.id, by |-> by]
    BY <1>4 DEF BackAfter
  <2>3. back[x][y] \in Seq(Answer) /\ back'[x][y] \in Seq(Answer)
    BY <1>1, <1>4 DEF Typed, TypedCalls, BackAfter
  <2>4. ASSUME back'[x][y] # <<>>
        PROVE  <<x, y>> \in up
    <3>1. 1 \in DOMAIN back'[x][y]
      BY <2>3, <2>4, EmptySeq, LenProperties
    <3>2. CASE back[x][y] # <<>>
      BY <3>2, <1>1 DEF Returned
    <3>3. CASE back[x][y] = <<>>
      <4>1. DOMAIN back[x][y] = {}
        BY <3>3
      <4> QED
        BY <3>1, <4>1, <2>2
    <3> QED
      BY <3>2, <3>3
  <2>5. ASSUME NEW e \in pending'[x][y]
        PROVE  /\ e \in pending[x][y] /\ e.then.call \in DOMAIN calls
               /\ (Many(e.then.call)' <=> Many(e.then.call)) /\ By(e.then.call)' = By(e.then.call)
    <3>1. e \in pending[x][y]
      BY <2>1
    <3>2. e.then.call \in DOMAIN calls
      BY <3>1, <1>1 DEF Waiting, Callback
    <3> QED
      BY <3>1, <3>2, <1>5, <1>6
  <2>6. ASSUME NEW a \in Replies(x, y)
        PROVE  /\ a.id <= lastId[x][y]
               /\ \A e \in pending'[x][y] : e.id = a.id =>
                    IF Many(e.then.call)' THEN handled[e.then.call][y] > 0
                    ELSE Gone(e.then.call)' /\ a.by = By(e.then.call)'
    <3>1. /\ a.id <= lastId[x][y]
          /\ \A e \in pending[x][y] : e.id = a.id =>
                IF Many(e.then.call) THEN handled[e.then.call][y] > 0
                ELSE Gone(e.then.call) /\ a.by = By(e.then.call)
      BY <1>1, Zenon DEF Returned
    <3> QED
      BY <3>1, <2>5, <1>12
  <2>7. ASSUME t.to = "peer", x = t.peer, y = p, era[x][y] = t.era
        PROVE  /\ t.id <= lastId[x][y]
               /\ \A e \in pending'[x][y] : e.id = t.id =>
                    IF Many(e.then.call)' THEN handled[e.then.call][y] > 0
                    ELSE Gone(e.then.call)' /\ by = By(e.then.call)'
    <3>1. /\ Numbered(t.peer, p, t.era, t.id) /\ Linked(t.peer, p, t.era, t.id, t.call)
          /\ Many(t.call)' => handled[t.call][p] > 0
          /\ ~Many(t.call)' => by = By(t.call) /\ \A z \in Peer : Clear(b, t.call, z)
      BY <1>2, <2>7 DEF Due
    <3>2. t.id <= lastId[x][y]
      BY <3>1, <2>7 DEF Numbered
    <3>3. ASSUME NEW e \in pending'[x][y], e.id = t.id
          PROVE  e.then.call = t.call
      BY <3>1, <3>3, <2>1, <2>7 DEF Linked
    <3>4. ~Many(t.call)' => Gone(t.call)' /\ by = By(t.call)'
      BY <3>1, <1>15, <1>6
    <3> QED
      BY <3>1, <3>2, <3>3, <3>4, <2>7
  <2>8. ASSUME NEW a \in Replies(x, y)'
        PROVE  \/ a \in Replies(x, y)
               \/ /\ t.to = "peer" /\ x = t.peer /\ y = p /\ era[x][y] = t.era
                  /\ a.id = t.id /\ a.by = by
    <3>1. PICK n \in DOMAIN back'[x][y] : a = back'[x][y][n]
      BY DEF Replies
    <3> QED
      BY <3>1, <2>2 DEF Replies
  <2> QED
    BY <2>1, <2>4, <2>6, <2>7, <2>8
<1>17. Told'
  <2> SUFFICES ASSUME NEW d \in DOMAIN calls'
               PROVE  /\ Len(answers'[d]) <= 1
                      /\ \A n \in DOMAIN answers'[d] :
                           /\ answers'[d][n] = By(d)'
                           /\ IF Many(d)' THEN By(d)' = calls'[d].to ELSE Gone(d)'
    BY DEF Told
  <2>1. d \in Call
    BY <1>7
  <2>2. CASE answers'[d] = answers[d] /\ d \in DOMAIN calls
    <3>1. /\ Len(answers[d]) <= 1
          /\ \A n \in DOMAIN answers[d] :
               /\ answers[d][n] = By(d)
               /\ IF Many(d) THEN By(d) = calls[d].to ELSE Gone(d)
      BY <2>2, <1>1 DEF Told
    <3> QED
      BY <3>1, <2>2, <1>5, <1>6, <1>12
  <2>3. CASE answers'[d] = answers[d] /\ d \notin DOMAIN calls
    <3>1. answers'[d] = <<>>
      BY <2>1, <2>3, <1>1 DEF Unmade
    <3> QED
      BY <3>1
  <2>4. CASE answers'[d] # answers[d]
    <3>1. /\ answers'[d] = <<By(d)>>
          /\ Many(d)' => By(d) = calls'[d].to
          /\ ~Many(d)' => \A y \in Peer : Clear(b, d, y)
      BY <2>1, <2>4, <1>3 DEF AnswersAfter
    <3> QED
      BY <3>1, <1>6, <1>15
  <2> QED
    BY <2>2, <2>3, <2>4
<1>18. Batched'
  <2> SUFFICES ASSUME NEW d \in DOMAIN calls'
               PROVE  /\ Many(d)' => By(d)' \subseteq calls'[d].to
                      /\ \A r \in batch'[d] : /\ Many(d)' /\ answers'[d] = <<>>
                                              /\ r.remaining \cup r.results = calls'[d].to
                                              /\ r.results \subseteq By(d)'
    BY DEF Batched
  <2>1. d \in Call /\ By(d)' = By(d)
    BY <1>6, <1>7
  <2>2. CASE d \notin DOMAIN calls
    <3>1. batch'[d] = {} /\ By(d) = {}
      BY <2>1, <2>2, <1>1, <1>3 DEF Unmade, BatchAfter, By
    <3> QED
      BY <3>1, <2>1
  <2>3. CASE d \in DOMAIN calls
    <3>1. calls'[d] = calls[d] /\ (Many(d)' <=> Many(d))
      BY <2>3, <1>5
    <3>2. /\ Many(d) => By(d) \subseteq calls[d].to
          /\ \A r \in batch[d] : /\ Many(d) /\ answers[d] = <<>>
                                 /\ r.remaining \cup r.results = calls[d].to
                                 /\ r.results \subseteq By(d)
      BY <2>3, <1>1 DEF Batched
    <3>3. CASE d = t.call /\ t.to = "batch"
      <4>1. Batch(d, answers'[d])
        BY <2>1, <3>3, <1>3 DEF BatchAfter
      <4> QED
        BY <4>1, <2>1, <3>1, <3>2 DEF Batch
    <3>4. CASE ~(d = t.call /\ t.to = "batch")
      <4>1. batch'[d] = batch[d]
        BY <2>1, <3>4, <1>3 DEF BatchAfter
      <4>2. answers'[d] # answers[d] => ~Many(d)'
        BY <2>1, <3>4, <1>3 DEF BatchAfter
      <4> QED
        BY <4>1, <4>2, <2>1, <3>1, <3>2
    <3> QED
      BY <3>3, <3>4
  <2> QED
    BY <2>2, <2>3
<1> QED
  BY <1>12, <1>13, <1>14, <1>16, <1>17, <1>18 DEF Inv


-----------------------------------------------------------------------------
(* What is cut, lost or only learnt.                                       *)

Fainting(b) ==
    /\ UNCHANGED <<calls, answers, batch, work, handled>>
    /\ TypedLinks' /\ Lasting
    /\ Within(b) /\ chan' = b
    /\ lost' \subseteq DOMAIN calls
    /\ \A x, y \in Peer : pending'[x][y] # {} => y \in peers'[x]
    /\ back' \in [Peer -> [Peer -> Seq(Answer)]]
    /\ \A x, y \in Peer : back'[x][y] # <<>> => /\ <<x, y>> \in up' /\ lastId'[x][y] = lastId[x][y]
                                                 /\ Replies(x, y)' \subseteq Replies(x, y)

LEMMA Faints ==
    ASSUME Inv, BoundsAssumption, NEW b, Fainting(b)
    PROVE  Inv'
<1>1. Typed /\ Unmade /\ Carried /\ Lone /\ Working /\ Waiting /\ Sole /\ Returned /\ Told /\ Batched /\ Once
  BY DEF Inv
<1>2. /\ UNCHANGED <<calls, answers, batch, work, handled>>
      /\ TypedLinks' /\ Lasting /\ Within(b) /\ chan' = b
      /\ lost' \subseteq DOMAIN calls
      /\ \A x, y \in Peer : pending'[x][y] # {} => y \in peers'[x]
      /\ back' \in [Peer -> [Peer -> Seq(Answer)]]
  BY DEF Fainting
<1>3. Grown
  BY <1>1, <1>2 DEF Grown, Typed, TypedCalls
<1>4. \A x, y \in Peer : pending'[x][y] \subseteq pending[x][y]
  BY <1>2 DEF Lasting
<1>5. Unanswered
  BY <1>1, <1>2, <1>4 DEF Unanswered, Working, Waiting, Callback
<1>6. Fading(b)
  BY <1>2, <1>3, <1>5 DEF Fading
<1>7. /\ Carried' /\ Lone' /\ Working' /\ Waiting' /\ Sole' /\ Once'
      /\ \A d : Gone(d) => Gone(d)'
  BY <1>6, Fades
<1>8. \A d : (Many(d)' <=> Many(d)) /\ By(d)' = By(d)
  BY <1>2 DEF Many, By
<1>9. Typed'
  <2>1. TypedRequests'
    BY <1>1, <1>2 DEF Typed, TypedRequests, Lasting
  <2>2. TypedCalls'
    BY <1>1, <1>2 DEF Typed, TypedCalls, Within
  <2> QED
    BY <2>1, <2>2, <1>2 DEF Typed
<1>10. Unmade' /\ Batched'
  BY <1>1, <1>2, <1>8 DEF Unmade, Batched
<1>11. Told'
  BY <1>1, <1>2, <1>7, <1>8 DEF Told
<1>12. Returned'
  <2> SUFFICES ASSUME NEW x \in Peer, NEW y \in Peer
               PROVE  /\ back'[x][y] # <<>> => <<x, y>> \in up'
                      /\ \A a \in Replies(x, y)' :
                           /\ a.id <= lastId'[x][y]
                           /\ \A e \in pending'[x][y] : e.id = a.id =>
                                IF Many(e.then.call)' THEN handled'[e.then.call][y] > 0
                                ELSE Gone(e.then.call)' /\ a.by = By(e.then.call)'
    BY DEF Returned
  <2>1. CASE back'[x][y] = <<>>
    <3>1. Replies(x, y)' = {}
      <4>1. DOMAIN back'[x][y] = {}
        BY <2>1
      <4> QED
        BY <4>1 DEF Replies
    <3> QED
      BY <2>1, <3>1
  <2>2. CASE back'[x][y] # <<>>
    <3>1. /\ <<x, y>> \in up' /\ lastId'[x][y] = lastId[x][y]
          /\ Replies(x, y)' \subseteq Replies(x, y)
      BY <2>2 DEF Fainting
    <3>2. ASSUME NEW a \in Replies(x, y)
          PROVE  /\ a.id <= lastId[x][y]
                 /\ \A e \in pending[x][y] : e.id = a.id =>
                      IF Many(e.then.call) THEN handled[e.then.call][y] > 0
                      ELSE Gone(e.then.call) /\ a.by = By(e.then.call)
      BY <1>1, Zenon DEF Returned
    <3>3. ASSUME NEW a \in Replies(x, y), NEW e \in pending'[x][y], e.id = a.id
          PROVE  IF Many(e.then.call)' THEN handled'[e.then.call][y] > 0
                 ELSE Gone(e.then.call)' /\ a.by = By(e.then.call)'
      <4>1. e \in pending[x][y] /\ handled' = handled
        BY <1>2, <1>4
      <4>2. IF Many(e.then.call) THEN handled[e.then.call][y] > 0
            ELSE Gone(e.then.call) /\ a.by = By(e.then.call)
        BY <3>2, <3>3, <4>1, Zenon
      <4>3. (Many(e.then.call)' <=> Many(e.then.call)) /\ By(e.then.call)' = By(e.then.call)
        BY <1>8
      <4> QED
        BY <4>1, <4>2, <4>3, <1>7
    <3> QED
      BY <3>1, <3>2, <3>3
  <2> QED
    BY <2>1, <2>2
<1> QED
  BY <1>7, <1>9, <1>10, <1>11, <1>12 DEF Inv

\* A link is cut.
LEMMA Cuts ==
    ASSUME Inv, BoundsAssumption, NEW p \in Peer, NEW q \in Peer, Cut(p, q),
           UNCHANGED <<calls, answers, batch, work, handled, where>>,
           \/ UNCHANGED <<peers, lastId, pending>>
           \/ /\ peers' = [peers EXCEPT ![p] = @ \ {q}]
              /\ pending' = [pending EXCEPT ![p][q] = {}]
              /\ lastId' = [lastId EXCEPT ![p][q] = 0]
    PROVE  \E b : Fainting(b)
<1>1. Typed /\ Waiting /\ Returned /\ Carried
  BY DEF Inv
<1>2. PICK k \in 0 .. Len(chan[p][q]) : chan' = [chan EXCEPT ![p][q] = SubSeq(@, 1, k)]
  BY DEF Cut
<1>3. /\ up' = up \ {<<p, q>>} /\ era' = [era EXCEPT ![p][q] = @ + 1]
      /\ back' = [back EXCEPT ![p][q] = <<>>]
      /\ lost' = lost \cup {e.then.call : e \in pending[p][q]} \cup {chan[p][q][n].call : n \in DOMAIN chan[p][q]}
      /\ upsets < MaxUpsets /\ upsets' = upsets + 1
  BY DEF Cut
<1>4. \A x, y \in Peer : /\ era[x][y] \in Nat /\ era[x][y] <= upsets /\ upsets \in 0 .. MaxUpsets
                         /\ era'[x][y] = IF x = p /\ y = q THEN era[x][y] + 1 ELSE era[x][y]
  <2>1. era \in [Peer -> [Peer -> Nat]] /\ upsets \in 0 .. MaxUpsets /\ \A x, y \in Peer : era[x][y] <= upsets
    BY <1>1 DEF Typed, TypedLinks
  <2>2. \A x, y \in Peer : era'[x][y] = IF x = p /\ y = q THEN era[x][y] + 1 ELSE era[x][y]
    BY <2>1, <1>3
  <2>3. \A x, y \in Peer : era[x][y] \in Nat
    BY <2>1
  <2> QED
    BY <2>1, <2>2, <2>3
<1>5. era' \in [Peer -> [Peer -> Nat]]
  <2>1. era \in [Peer -> [Peer -> Nat]]
    BY <1>1 DEF Typed, TypedLinks
  <2> QED
    BY <2>1, <1>3
<1>6. /\ lastId' \in [Peer -> [Peer -> 0 .. MaxId]]
      /\ pending' \in [Peer -> [Peer -> SUBSET Entry]]
      /\ \A x, y \in Peer : /\ pending'[x][y] \subseteq pending[x][y]
                            /\ ~(x = p /\ y = q) => lastId'[x][y] = lastId[x][y]
                            /\ lastId'[x][y] = lastId[x][y] \/ pending'[x][y] = {}
  <2>1. /\ lastId \in [Peer -> [Peer -> 0 .. MaxId]] /\ pending \in [Peer -> [Peer -> SUBSET Entry]]
        /\ 0 \in 0 .. MaxId
    BY <1>1 DEF Typed, TypedRequests, BoundsAssumption
  <2>2. CASE UNCHANGED <<lastId, pending>>
    BY <2>1, <2>2
  <2>3. CASE /\ pending' = [pending EXCEPT ![p][q] = {}]
             /\ lastId' = [lastId EXCEPT ![p][q] = 0]
    <3>1. lastId' \in [Peer -> [Peer -> 0 .. MaxId]] /\ pending' \in [Peer -> [Peer -> SUBSET Entry]]
      BY <2>1, <2>3
    <3>2. \A x, y \in Peer : IF x = p /\ y = q THEN pending'[x][y] = {}
                             ELSE pending'[x][y] = pending[x][y] /\ lastId'[x][y] = lastId[x][y]
      BY <2>1, <2>3
    <3> QED
      BY <3>1, <3>2
  <2> QED
    BY <2>2, <2>3
<1>7. Lasting
  <2>1. ASSUME NEW x \in Peer, NEW y \in Peer
        PROVE  /\ \/ era'[x][y] = era[x][y] /\ lastId'[x][y] = lastId[x][y]
                  \/ era'[x][y] > era[x][y] /\ (lastId'[x][y] = lastId[x][y] \/ pending'[x][y] = {})
               /\ pending'[x][y] \subseteq pending[x][y]
    <3>1. CASE x = p /\ y = q
      <4>1. era'[x][y] = era[x][y] + 1 /\ era[x][y] \in Nat
        BY <3>1, <1>4
      <4>2. era'[x][y] > era[x][y]
        BY <4>1
      <4> QED
        BY <4>2, <1>6
    <3>2. CASE ~(x = p /\ y = q)
      BY <3>2, <1>4, <1>6
    <3> QED
      BY <3>1, <3>2
  <2> QED
    BY <2>1, <1>5, <1>6 DEF Lasting
<1>8. /\ peers' \in [Peer -> SUBSET Peer] /\ \A x \in Peer : x \notin peers'[x]
      /\ \A x, y \in Peer : y \in peers[x] => y \in peers'[x] \/ (x = p /\ y = q /\ pending'[p][q] = {})
  <2>1. peers \in [Peer -> SUBSET Peer] /\ \A x \in Peer : x \notin peers[x]
    BY <1>1 DEF Typed, TypedLinks
  <2>2. CASE peers' = peers
    BY <2>1, <2>2
  <2>3. CASE /\ peers' = [peers EXCEPT ![p] = @ \ {q}]
             /\ pending' = [pending EXCEPT ![p][q] = {}]
    <3>1. pending'[p][q] = {}
      <4>1. pending \in [Peer -> [Peer -> SUBSET Entry]]
        BY <1>1 DEF Typed, TypedRequests
      <4> QED
        BY <2>3, <4>1
    <3>2. peers' = [peers EXCEPT ![p] = peers[p] \ {q}]
      BY <2>3
    <3> QED
      BY <2>1, <3>1, <3>2
  <2> QED
    BY <2>2, <2>3
<1>9. TypedLinks'
  <2>1. up' \subseteq Peer \X Peer /\ \A x, y \in Peer : <<x, y>> \in up' => y \in peers'[x]
    BY <1>1, <1>3, <1>8 DEF Typed, TypedLinks
  <2>2. upsets' \in 0 .. MaxUpsets /\ \A x, y \in Peer : era'[x][y] <= upsets'
    BY <1>3, <1>4, BoundsAssumption
  <2> QED
    BY <2>1, <2>2, <1>1, <1>5, <1>8 DEF Typed, TypedLinks
<1>10. Within(chan') /\ chan' \in [Peer -> [Peer -> Seq(Message)]]
  <2>1. chan \in [Peer -> [Peer -> Seq(Message)]]
    BY <1>1 DEF Typed, TypedCalls
  <2>2. PICK s : s = SubSeq(chan[p][q], 1, k)
    OBVIOUS
  <2>3. chan[p][q] \in Seq(Message) /\ Len(chan[p][q]) \in Nat /\ k \in 0 .. Len(chan[p][q])
    BY <2>1
  <2>4. s \in Seq(Message) /\ \A n \in DOMAIN s : n \in DOMAIN chan[p][q] /\ n \in Nat /\ s[n] = chan[p][q][n]
    BY <2>2, <2>3
  <2>5. chan' = [chan EXCEPT ![p][q] = s]
    BY <1>2, <2>2
  <2>6. /\ chan' \in [Peer -> [Peer -> Seq(Message)]]
        /\ \A x, y \in Peer : chan'[x][y] = IF x = p /\ y = q THEN s ELSE chan[x][y]
    BY <2>1, <2>4, <2>5
  <2>7. PICK b : b = chan'
    OBVIOUS
  <2>8. ASSUME NEW x \in Peer, NEW y \in Peer
        PROVE  \A n \in DOMAIN b[x][y] : n + 0 \in DOMAIN chan[x][y] /\ b[x][y][n] = chan[x][y][n + 0]
    <3>1. chan[x][y] \in Seq(Message)
      BY <2>1
    <3>2. CASE x = p /\ y = q
      <4>1. b[x][y] = s
        BY <2>6, <2>7, <3>2
      <4>2. ASSUME NEW n \in DOMAIN s
            PROVE  n + 0 = n /\ n \in DOMAIN chan[x][y] /\ s[n] = chan[x][y][n]
        BY <2>4, <3>2
      <4> QED
        BY <4>1, <4>2
    <3>3. CASE ~(x = p /\ y = q)
      <4>1. b[x][y] = chan[x][y]
        BY <2>6, <2>7, <3>3
      <4>2. ASSUME NEW n \in DOMAIN chan[x][y]
            PROVE  n + 0 = n
        BY <3>1, LenProperties
      <4> QED
        BY <4>1, <4>2
    <3> QED
      BY <3>2, <3>3
  <2> QED
    BY <2>6, <2>7, <2>8 DEF Within
<1>11. lost' \subseteq DOMAIN calls
  <2>1. \A e \in pending[p][q] : e.then.call \in DOMAIN calls
    BY <1>1 DEF Waiting, Callback
  <2>2. \A n \in DOMAIN chan[p][q] : chan[p][q][n].call \in DOMAIN calls
    <3>1. \A m \in Messages(p, q) : m.call \in DOMAIN calls
      BY <1>1 DEF Carried
    <3> QED
      BY <3>1 DEF Messages
  <2>3. lost \subseteq DOMAIN calls
    BY <1>1 DEF Typed, TypedCalls
  <2> QED
    BY <2>1, <2>2, <2>3, <1>3
<1>12. /\ back' \in [Peer -> [Peer -> Seq(Answer)]]
       /\ \A x, y \in Peer : IF x = p /\ y = q THEN back'[x][y] = <<>> ELSE back'[x][y] = back[x][y]
  <2>1. back \in [Peer -> [Peer -> Seq(Answer)]] /\ <<>> \in Seq(Answer)
    BY <1>1 DEF Typed, TypedCalls
  <2> QED
    BY <2>1, <1>3
<1>13. ASSUME NEW x \in Peer, NEW y \in Peer, back'[x][y] # <<>>
       PROVE  <<x, y>> \in up' /\ lastId'[x][y] = lastId[x][y] /\ Replies(x, y)' \subseteq Replies(x, y)
  <2>1. ~(x = p /\ y = q) /\ back'[x][y] = back[x][y]
    BY <1>12, <1>13
  <2>2. <<x, y>> \in up
    BY <2>1, <1>13, <1>1 DEF Returned
  <2> QED
    BY <2>1, <2>2, <1>3, <1>6 DEF Replies
<1>14. ASSUME NEW x \in Peer, NEW y \in Peer, pending'[x][y] # {}
       PROVE  y \in peers'[x]
  <2>1. y \in peers[x]
    BY <1>6, <1>14, <1>1 DEF Waiting
  <2>2. CASE x = p /\ y = q
    <3>1. pending'[p][q] # {}
      BY <2>2, <1>14
    <3> QED
      BY <2>1, <2>2, <3>1, <1>8
  <2> QED
    BY <2>1, <2>2, <1>8
<1>15. PICK b : b = chan'
  OBVIOUS
<1>16. Within(b)
  BY <1>10, <1>15
<1> QED
  BY <1>7, <1>9, <1>11, <1>12, <1>13, <1>14, <1>15, <1>16 DEF Fainting


\* A link breaks, or p deletes its Peer object.
LEMMA Breaks ==
    ASSUME Inv, BoundsAssumption, NEW p \in Peer, NEW q \in Peer, Break(p, q) \/ Forget(p, q)
    PROVE  Inv'
<1>1. CASE Break(p, q)
  <2>1. Cut(p, q) /\ UNCHANGED <<calls, answers, batch, work, handled, where>> /\ UNCHANGED <<peers, lastId, pending>>
    BY <1>1 DEF Break, runs
  <2>2. \E b : Fainting(b)
    BY <2>1, Cuts
  <2> QED
    BY <2>2, Faints
<1>2. CASE Forget(p, q)
  <2>1. /\ Cut(p, q) /\ UNCHANGED <<calls, answers, batch, work, handled, where>>
        /\ peers' = [peers EXCEPT ![p] = @ \ {q}]
        /\ pending' = [pending EXCEPT ![p][q] = {}]
        /\ lastId' = [lastId EXCEPT ![p][q] = 0]
    BY <1>2 DEF Forget, runs
  <2>2. \E b : Fainting(b)
    BY <2>1, Cuts
  <2> QED
    BY <2>2, Faints
<1> QED
  BY <1>1, <1>2

\* What p waits for, and what is on its way, stays as it is.
LEMMA Rests ==
    ASSUME Inv, BoundsAssumption, TypedLinks', UNCHANGED <<era, replies, runs, requests, chan, calls>>,
           \A x \in Peer : peers[x] \subseteq peers'[x], up \subseteq up'
    PROVE  Inv'
<1>1. Typed /\ Waiting /\ Returned
  BY DEF Inv
<1>2. /\ UNCHANGED <<calls, answers, batch, work, handled>> /\ UNCHANGED <<era, lastId, pending, lost, back, chan>>
  BY DEF replies, runs, requests
<1>3. Lasting
  BY <1>1, <1>2 DEF Lasting, Typed, TypedLinks, TypedRequests
<1>4. PICK b : b = chan
  OBVIOUS
<1>5. Within(b) /\ chan' = b
  BY <1>1, <1>2, <1>4, WithinSelf
<1>6. /\ lost' \subseteq DOMAIN calls /\ back' \in [Peer -> [Peer -> Seq(Answer)]]
      /\ \A x, y \in Peer : pending'[x][y] # {} => y \in peers'[x]
      /\ \A x, y \in Peer : back'[x][y] # <<>> => /\ <<x, y>> \in up' /\ lastId'[x][y] = lastId[x][y]
                                                   /\ Replies(x, y)' \subseteq Replies(x, y)
  BY <1>1, <1>2 DEF Typed, TypedCalls, Waiting, Returned, Replies
<1>7. Fainting(b)
  BY <1>2, <1>3, <1>5, <1>6 DEF Fainting
<1> QED
  BY <1>7, Faints

\* A link comes to be, p hears of a peer, or takes another for the lead.
LEMMA Learns ==
    ASSUME Inv, BoundsAssumption, NEW p \in Peer, NEW q,
           \/ q \in Peer /\ (GetThrough(p, q) \/ Hear(p, q))
           \/ q \in Peer \cup {None} /\ Move(p, q)
    PROVE  Inv'
<1>1. TypedLinks
  BY DEF Inv, Typed
<1>2. CASE q \in Peer /\ GetThrough(p, q)
  <2>1. TypedLinks'
    BY <1>1, <1>2 DEF GetThrough, TypedLinks
  <2> QED
    BY <2>1, <1>2, Rests DEF GetThrough
<1>3. CASE q \in Peer /\ Hear(p, q)
  <2>1. /\ peers' \in [Peer -> SUBSET Peer] /\ \A x \in Peer : peers[x] \subseteq peers'[x]
        /\ \A x \in Peer : x \notin peers'[x]
    BY <1>1, <1>3 DEF Hear, TypedLinks
  <2>2. TypedLinks'
    BY <1>1, <1>3, <2>1 DEF Hear, TypedLinks
  <2> QED
    BY <2>1, <2>2, <1>3, Rests DEF Hear
<1>4. CASE q \in Peer \cup {None} /\ Move(p, q)
  <2>1. TypedLinks'
    BY <1>1, <1>4, BoundsAssumption DEF Move, links, TypedLinks
  <2> QED
    BY <2>1, <1>4, Rests DEF Move, links
<1> QED
  BY <1>2, <1>3, <1>4

LEMMA Stutters ==
    ASSUME Inv, BoundsAssumption, UNCHANGED vars
    PROVE  Inv'
<1>1. TypedLinks'
  BY DEF Inv, Typed, TypedLinks, vars, links
<1> QED
  BY <1>1, Rests DEF vars, links

-----------------------------------------------------------------------------
(* Answers.                                                                *)

\* Of a call to one peer that was handled, nothing is in a channel.
LEMMA HandledGone ==
    ASSUME Inv, NEW d \in Call, ~Many(d), By(d) # {}
    PROVE  Gone(d)
<1> SUFFICES ASSUME NEW x \in Peer, NEW y \in Peer, NEW n \in DOMAIN chan[x][y], chan[x][y][n].call = d
             PROVE  FALSE
  BY DEF Gone
<1>1. PICK m : m = chan[x][y][n]
  OBVIOUS
<1>2. m \in Messages(x, y) /\ m.call = d
  BY <1>1 DEF Messages
<1>3. ~Many(m.call) => By(m.call) = {}
  BY <1>2 DEF Inv, Carried
<1> QED
  BY <1>2, <1>3

\* What is gone from the channels is gone from what is left of them.
LEMMA GoneClear ==
    ASSUME NEW b, Within(b), NEW d, Gone(d), NEW y \in Peer
    PROVE  Clear(b, d, y)
<1> SUFFICES ASSUME NEW x \in Peer, NEW n \in DOMAIN b[x][y]
             PROVE  b[x][y][n].call # d
  BY DEF Clear
<1>1. PICK k \in DOMAIN chan[x][y] : b[x][y][n] = chan[x][y][k]
  BY DEF Within
<1> QED
  BY <1>1 DEF Gone

\* A method that has run answers.
LEMMA Finishes ==
    ASSUME Inv, BoundsAssumption, NEW w \in work, Finish(w)
    PROVE  Inv'
<1>1. Typed /\ Working /\ Sole
  BY DEF Inv
<1>2. /\ work' = work \ {w} /\ Answered(w.at, w.then, {w.at}, back)
      /\ UNCHANGED <<links, upsets, where, handled, lastId>> /\ UNCHANGED <<lost, pending, chan, calls>>
  BY DEF Finish, requests
<1>3. w = [at |-> w.at, then |-> w.then] /\ w.at \in Peer /\ w.then \in Then
  BY <1>1 DEF Typed, TypedRequests, Request
<1>4. /\ Callback(w.at, w.then)
      /\ IF Many(w.then.call) THEN handled[w.then.call][w.at] > 0 ELSE By(w.then.call) = {w.at}
      /\ w.then.to = "batch" => w.then.of = w.at
  BY <1>1 DEF Working
<1>5. w.then.call \in DOMAIN calls /\ w.then.call \in Call /\ w.then.call \in DOMAIN calls'
  BY <1>2, <1>3, <1>4, ThenShape DEF Callback
<1>6. \A d : (Many(d)' <=> Many(d))
  BY <1>2 DEF Many
<1>7. PICK b : b = chan
  OBVIOUS
<1>8. Within(b) /\ chan' = b
  BY <1>1, <1>2, <1>7, WithinSelf
<1>9. ~Many(w.then.call) => \A y \in Peer : Clear(b, w.then.call, y)
  <2>1. ~Many(w.then.call) => Gone(w.then.call)
    BY <1>4, <1>5, HandledGone
  <2> QED
    BY <2>1, <1>8, GoneClear
<1>10. ASSUME w.then.to = "caller"
       PROVE  /\ \A v \in work' : v.then.to = "caller" => v.then.call # w.then.call
              /\ \A x, y \in Peer : \A e \in pending'[x][y] : e.then.to = "caller" => e.then.call # w.then.call
  <2>1. ASSUME NEW v \in work', v.then.to = "caller", v.then.call = w.then.call
        PROVE  FALSE
    <3>1. v \in work /\ v # w
      BY <1>2
    <3>2. v = [at |-> v.at, then |-> v.then] /\ v.at \in Peer /\ v.then \in Then
      BY <3>1, <1>1 DEF Typed, TypedRequests, Request
    <3>3. v.then = w.then
      <4>1. v.then = ToCaller(v.then.call) /\ w.then = ToCaller(w.then.call)
        BY <3>2, <2>1, <1>3, <1>10, ThenShape
      <4> QED
        BY <4>1, <2>1
    <3>4. By(w.then.call) = {v.at} /\ By(w.then.call) = {w.at}
      <4>1. ~Many(w.then.call)
        BY <1>4, <1>10 DEF Callback
      <4>2. By(v.then.call) = {v.at}
        BY <4>1, <3>1, <2>1, <1>1 DEF Working
      <4> QED
        BY <4>1, <4>2, <2>1, <1>4
    <3>5. v.at = w.at
      BY <3>4
    <3> QED
      BY <3>1, <3>2, <3>3, <3>5, <1>3
  <2>2. ASSUME NEW x \in Peer, NEW y \in Peer, NEW e \in pending[x][y], e.then.to = "caller"
        PROVE  e.then.call # w.then.call
    BY <2>2, <1>1, <1>10 DEF Sole
  <2> QED
    BY <2>1, <2>2, <1>2
<1>11. Due(w.at, w.then, {w.at}, b)
  BY <1>3, <1>4, <1>5, <1>6, <1>9, <1>10 DEF Due, Callback
<1>12. Left(back)
  BY <1>1 DEF Typed, TypedCalls, Left
<1>13. Grown /\ lost' \subseteq DOMAIN calls' /\ pending' \in [Peer -> [Peer -> SUBSET Entry]]
  BY <1>1, <1>2 DEF Typed, TypedCalls, TypedRequests, Grown
<1>14. PICK before : before = back
  OBVIOUS
<1>15. Settling(w.at, w.then, {w.at}, before, b)
  BY <1>2, <1>8, <1>11, <1>12, <1>13, <1>14 DEF Settling
<1> QED
  BY <1>3, <1>15, Settles


\* What p has not read of the answers of q.
LEMMA RestLeft ==
    ASSUME Inv, NEW p \in Peer, NEW q \in Peer, back[p][q] # <<>>,
           NEW rest, rest = [back EXCEPT ![p][q] = Tail(@)], NEW answer, answer = Head(back[p][q])
    PROVE  /\ Left(rest)
           /\ answer \in Answer /\ answer \in Replies(p, q)
<1>1. back \in [Peer -> [Peer -> Seq(Answer)]]
  BY DEF Inv, Typed, TypedCalls
<1>2. back[p][q] \in Seq(Answer) /\ Len(back[p][q]) \in Nat /\ Len(back[p][q]) # 0
  BY <1>1, LenProperties, EmptySeq
<1>3. Tail(back[p][q]) \in Seq(Answer) /\ Len(Tail(back[p][q])) = Len(back[p][q]) - 1
      /\ \A n \in 1 .. Len(back[p][q]) - 1 : Tail(back[p][q])[n] = back[p][q][n + 1]
  BY <1>1, <1>2, HeadTailProperties
<1>4. rest[p][q] = Tail(back[p][q]) /\ \A x, y \in Peer : ~(x = p /\ y = q) => rest[x][y] = back[x][y]
  BY <1>1
<1>5. rest \in [Peer -> [Peer -> Seq(Answer)]]
  BY <1>1, <1>3
<1>6. \A n \in DOMAIN rest[p][q] : n + 1 \in DOMAIN back[p][q] /\ rest[p][q][n] = back[p][q][n + 1]
  BY <1>1, <1>2, <1>3, <1>4, LenProperties
<1>7. ASSUME NEW x \in Peer, NEW y \in Peer, NEW n \in DOMAIN rest[x][y]
      PROVE  \E k \in DOMAIN back[x][y] : rest[x][y][n] = back[x][y][k]
  <2>1. CASE x = p /\ y = q
    BY <2>1, <1>6
  <2>2. CASE ~(x = p /\ y = q)
    BY <2>2, <1>4
  <2> QED
    BY <2>1, <2>2
<1>8. answer = back[p][q][1] /\ 1 \in DOMAIN back[p][q] /\ answer \in Answer
  BY <1>2, LenProperties, HeadTailProperties
<1> QED
  BY <1>5, <1>7, <1>8 DEF Left, Replies

\* p reads an answer.
LEMMA ReadsAnswer ==
    ASSUME Inv, BoundsAssumption, NEW p \in Peer, NEW q \in Peer, ReadAnswer(p, q)
    PROVE  Inv'
<1>1. Typed /\ Working /\ Waiting /\ Sole /\ Returned
  BY DEF Inv
<1>2. PICK answer : answer = Head(back[p][q])
  OBVIOUS
<1>3. PICK rest : rest = [back EXCEPT ![p][q] = Tail(@)]
  OBVIOUS
<1>4. PICK Kept : Kept = {e \in pending[p][q] : e.id = answer.id}
  OBVIOUS
<1>5. /\ back[p][q] # <<>>
      /\ pending' = [pending EXCEPT ![p][q] = @ \ Kept]
      /\ \/ \E e \in Kept : Answered(p, e.then, answer.by, rest)
         \/ Kept = {} /\ back' = rest /\ UNCHANGED <<answers, batch>>
      /\ UNCHANGED <<links, upsets, where, handled, lastId>> /\ UNCHANGED <<work, lost, chan, calls>>
  BY <1>2, <1>3, <1>4 DEF ReadAnswer, runs
<1>6. Left(rest) /\ answer \in Answer /\ answer \in Replies(p, q)
  BY <1>2, <1>3, <1>5, RestLeft
<1>7. /\ pending' \in [Peer -> [Peer -> SUBSET Entry]]
      /\ \A x, y \in Peer : pending'[x][y] = IF x = p /\ y = q THEN pending[x][y] \ Kept ELSE pending[x][y]
  <2>1. pending \in [Peer -> [Peer -> SUBSET Entry]]
    BY <1>1 DEF Typed, TypedRequests
  <2> QED
    BY <2>1, <1>5
<1>8. \A x, y \in Peer : pending'[x][y] \subseteq pending[x][y]
  BY <1>7
<1>9. PICK b : b = chan
  OBVIOUS
<1>10. Within(b) /\ chan' = b
  BY <1>1, <1>5, <1>9, WithinSelf
<1>11. Grown /\ lost' \subseteq DOMAIN calls /\ \A d : (Many(d)' <=> Many(d))
  BY <1>1, <1>5 DEF Typed, TypedCalls, Grown, Many
<1>12. ASSUME NEW e \in Kept, Answered(p, e.then, answer.by, rest)
       PROVE  Inv'
  <2>1. e \in pending[p][q] /\ e.id = answer.id /\ e \in Entry /\ e.then \in Then
    BY <1>4, <1>1 DEF Typed, TypedRequests, Entry
  <2>2. Callback(p, e.then) /\ (Many(e.then.call) => e.then.to = "batch" /\ e.then.of = q)
    BY <2>1, <1>1 DEF Waiting
  <2>3. IF Many(e.then.call) THEN handled[e.then.call][q] > 0
        ELSE Gone(e.then.call) /\ answer.by = By(e.then.call)
    <3>1. \A f \in pending[p][q] : f.id = answer.id =>
            IF Many(f.then.call) THEN handled[f.then.call][q] > 0
            ELSE Gone(f.then.call) /\ answer.by = By(f.then.call)
      BY <1>1, <1>6, Zenon DEF Returned
    <3> QED
      BY <3>1, <2>1, Zenon
  <2>4. e.then.call \in DOMAIN calls /\ e.then.call \in DOMAIN calls'
    BY <1>5, <2>2 DEF Callback
  <2>5. ~Many(e.then.call) => \A y \in Peer : Clear(b, e.then.call, y)
    BY <2>3, <1>10, GoneClear
  <2>6. ASSUME e.then.to = "caller"
        PROVE  /\ \A v \in work' : v.then.to = "caller" => v.then.call # e.then.call
               /\ \A x, y \in Peer : \A f \in pending'[x][y] : f.then.to = "caller" => f.then.call # e.then.call
    <3>1. \A v \in work' : v.then.to = "caller" => v.then.call # e.then.call
      BY <2>1, <2>6, <1>1, <1>5 DEF Sole
    <3>2. ASSUME NEW x \in Peer, NEW y \in Peer, NEW f \in pending'[x][y],
                 f.then.to = "caller", f.then.call = e.then.call
          PROVE  FALSE
      <4>1. f \in pending[x][y]
        BY <1>8
      <4>2. p = x /\ q = y /\ e = f
        BY <4>1, <2>1, <2>6, <3>2, <1>1 DEF Sole
      <4> QED
        BY <4>2, <3>2, <1>7
    <3> QED
      BY <3>1, <3>2
  <2>7. Due(p, e.then, answer.by, b)
    BY <2>1, <2>2, <2>3, <2>4, <2>5, <2>6, <1>11 DEF Due, Callback
  <2>8. Settling(p, e.then, answer.by, rest, b)
    BY <2>7, <1>5, <1>6, <1>7, <1>8, <1>10, <1>11, <1>12 DEF Settling
  <2>9. answer.by \subseteq Peer
    BY <1>6 DEF Answer
  <2> QED
    BY <2>8, <2>9, Settles
<1>13. CASE Kept = {} /\ back' = rest /\ UNCHANGED <<answers, batch>>
  <2>1. TypedLinks' /\ Lasting
    <3>1. TypedLinks'
      BY <1>1, <1>5 DEF Typed, TypedLinks, links
    <3>2. Lasting
      BY <1>1, <1>5, <1>7, <1>8 DEF Typed, TypedLinks, TypedRequests, Lasting, links
    <3> QED
      BY <3>1, <3>2
  <2>2. \A x, y \in Peer : pending'[x][y] # {} => y \in peers'[x]
    BY <1>1, <1>5, <1>8 DEF Waiting, links
  <2>3. back' \in [Peer -> [Peer -> Seq(Answer)]]
    BY <1>6, <1>13 DEF Left
  <2>4. ASSUME NEW x \in Peer, NEW y \in Peer, back'[x][y] # <<>>
        PROVE  /\ <<x, y>> \in up' /\ lastId'[x][y] = lastId[x][y]
               /\ Replies(x, y)' \subseteq Replies(x, y)
    <3>1. \A n \in DOMAIN rest[x][y] : \E k \in DOMAIN back[x][y] : rest[x][y][n] = back[x][y][k]
      BY <1>6 DEF Left
    <3>2. Replies(x, y)' \subseteq Replies(x, y)
      BY <3>1, <1>13 DEF Replies
    <3>3. back[x][y] # <<>>
      <4>1. rest[x][y] \in Seq(Answer) /\ rest[x][y] # <<>>
        BY <1>6, <1>13, <2>4 DEF Left
      <4>2. 1 \in DOMAIN rest[x][y]
        BY <4>1, EmptySeq, LenProperties
      <4>3. DOMAIN back[x][y] # {}
        BY <4>2, <3>1
      <4> QED
        BY <4>3
    <3>4. <<x, y>> \in up /\ up' = up /\ lastId' = lastId
      BY <3>3, <1>1, <1>5 DEF Returned, links
    <3> QED
      BY <3>2, <3>4
  <2>5. Fainting(b)
    BY <2>1, <2>2, <2>3, <2>4, <1>5, <1>10, <1>11, <1>13 DEF Fainting
  <2> QED
    BY <2>5, Faints
<1> QED
  BY <1>5, <1>12, <1>13


-----------------------------------------------------------------------------
(* Calls.                                                                  *)

\* p has a call that is nowhere else: it may handle it, pass it on or answer it.
Held(p, q, c, t, b) ==
    /\ Grown /\ c \in DOMAIN calls' /\ UNCHANGED <<links, upsets, where>>
    /\ Within(b) /\ Offered(p, c, t) /\ t.to # "batch"
    /\ answers[c] = <<>>
    /\ Many(c)' => q = p /\ p \in calls'[c].to /\ handled[c][p] = 0 /\ Clear(b, c, p)
    /\ ~Many(c)' => /\ By(c) = {} /\ \A y \in Peer : Clear(b, c, y)
                    /\ \A x, y \in Peer : \A a \in Replies(x, y), e \in pending[x][y] :
                         e.id = a.id => e.then.call # c

LEMMA HandledRuns ==
    ASSUME Typed, NEW p \in Peer, NEW c \in Call, NEW t, Handled(p, c, t)
    PROVE  Running(p, c, t, TRUE)
<1>1. handled \in [Call -> [Peer -> Nat]]
  BY DEF Typed, TypedCalls
<1>2. handled' = [handled EXCEPT ![c][p] = @ + 1]
  BY DEF Handled
<1>3. /\ handled' \in [Call -> [Peer -> Nat]]
      /\ \A d \in Call, y \in Peer :
           handled'[d][y] = IF d = c /\ y = p THEN handled[d][y] + 1 ELSE handled[d][y]
  BY <1>1, <1>2
<1>4. work' \subseteq work \cup (IF Asks(t) THEN {[at |-> p, then |-> t]} ELSE {})
  BY DEF Handled
<1> QED
  BY <1>3, <1>4 DEF Running

LEMMA UnhandledRuns ==
    ASSUME Typed, NEW p \in Peer, NEW c \in Call, NEW t, UNCHANGED runs
    PROVE  Running(p, c, t, FALSE)
  BY DEF Running, runs, Typed, TypedCalls

LEMMA OneGoesOn ==
    ASSUME Inv, BoundsAssumption, NEW p \in Peer, NEW q, NEW c \in Call, NEW t, NEW b,
           Held(p, q, c, t, b), ToOne(p, q, c, t, b)
    PROVE  Inv'
<1>1. Typed
  BY DEF Inv
<1>2. /\ Grown /\ c \in DOMAIN calls' /\ UNCHANGED <<links, upsets, where>>
      /\ Within(b) /\ Offered(p, c, t) /\ t.to # "batch" /\ answers[c] = <<>>
      /\ Many(c)' => q = p /\ p \in calls'[c].to /\ handled[c][p] = 0 /\ Clear(b, c, p)
      /\ ~Many(c)' => /\ By(c) = {} /\ \A y \in Peer : Clear(b, c, y)
                      /\ \A x, y \in Peer : \A a \in Replies(x, y), e \in pending[x][y] :
                           e.id = a.id => e.then.call # c
  BY DEF Held
<1>3. PICK then : then = [r \in Peer |-> t]
  OBVIOUS
<1>4. \A r \in Peer : then[r] = t
  BY <1>3
<1>5. Asks(t) => t \in Then
  BY <1>2 DEF Offered
<1>6. ASSUME UNCHANGED replies
      PROVE  Batching(c) /\ UNCHANGED <<links, upsets, where, back, answers>>
  BY <1>1, <1>2, <1>6 DEF Batching, replies, Typed, TypedRequests
<1>7. CASE q = p /\ Handled(p, c, t) /\ chan' = b /\ UNCHANGED <<requests, replies>>
  <2>1. Sending(p, {}, c, then, b)
    BY <1>1, <1>2, <1>7, UnsentNews
  <2>2. Running(p, c, then[p], TRUE)
    <3>1. Running(p, c, t, TRUE)
      BY <1>1, <1>7, HandledRuns
    <3> QED
      BY <3>1, <1>4
  <2>3. Having(p, {}, TRUE) = {p}
    BY DEF Having
  <2>4. Ready(p, {}, c, b, TRUE)
    BY <2>3, <1>2 DEF Ready
  <2>5. Offering(p, {}, c, then, TRUE)
    BY <2>3, <1>2, <1>4 DEF Offering
  <2>6. Going(p, {}, c, then, b, TRUE)
    BY <2>1, <2>2, <2>4, <2>5, <1>2, <1>6, <1>7 DEF Going
  <2>7. \E ran \in BOOLEAN : Going(p, {}, c, then, b, ran)
    BY <2>6
  <2> QED
    BY <2>7, GoesOn
<1>8. CASE q \in peers[p] /\ Sent(p, {q}, c, [r \in Peer |-> t], b) /\ UNCHANGED <<runs, replies>>
  <2>1. q \in Peer /\ q # p /\ {q} \subseteq peers[p]
    BY <1>1, <1>8 DEF Typed, TypedLinks
  <2>2. PICK to : to = {q}
    OBVIOUS
  <2>3. Sending(p, to, c, then, b)
    <3>1. to \subseteq Peer /\ Sent(p, to, c, then, b)
      BY <2>1, <2>2, <1>3, <1>8
    <3>2. \A y \in to : Asks(then[y]) => then[y] \in Then
      BY <3>1, <1>4, <1>5
    <3> QED
      BY <3>1, <3>2, <1>1, <1>2, SentNews
  <2>4. Running(p, c, then[p], FALSE)
    BY <1>1, <1>8, UnhandledRuns
  <2>5. Having(p, to, FALSE) = {q}
    BY <2>2 DEF Having
  <2>6. Ready(p, to, c, b, FALSE)
    BY <2>1, <2>5, <1>2 DEF Ready
  <2>7. Offering(p, to, c, then, FALSE)
    BY <2>1, <2>2, <2>5, <1>2, <1>4 DEF Offering
  <2>8. Going(p, to, c, then, b, FALSE)
    BY <2>1, <2>2, <2>3, <2>4, <2>6, <2>7, <1>2, <1>6, <1>8 DEF Going
  <2>9. \E ran \in BOOLEAN : Going(p, to, c, then, b, ran)
    BY <2>8
  <2> QED
    BY <2>9, GoesOn
<1>9. CASE q # p /\ Answered(p, t, {}, back) /\ chan' = b /\ UNCHANGED <<runs, requests>>
  <2>1. ~Many(c)'
    BY <1>2, <1>9
  <2>2. t.call = c /\ (t \in Then \/ t.to = "nowhere")
        /\ (t.to = "caller" => c \notin DOMAIN calls)
        /\ (t.to = "peer" => Numbered(t.peer, p, t.era, t.id) /\ Linked(t.peer, p, t.era, t.id, c))
    BY <1>2, <1>5 DEF Offered, Asks
  <2>3. /\ \A w \in work : w.then.call \in DOMAIN calls
        /\ \A x, y \in Peer : \A e \in pending[x][y] : e.then.call \in DOMAIN calls
    BY DEF Inv, Working, Waiting, Callback
  <2>4. work' = work /\ pending' = pending /\ lastId' = lastId /\ handled' = handled /\ lost' = lost
    BY <1>9 DEF runs, requests
  <2>5. Due(p, t, {}, b)
    BY <2>1, <2>2, <2>3, <2>4, <1>2 DEF Due
  <2>6. PICK before : before = back
    OBVIOUS
  <2>7. Left(before) /\ pending' \in [Peer -> [Peer -> SUBSET Entry]]
    BY <2>4, <2>6, <1>1 DEF Typed, TypedCalls, TypedRequests, Left
  <2>8. lost' \subseteq DOMAIN calls'
    BY <2>4, <1>1, <1>2 DEF Typed, TypedCalls, Grown
  <2>9. Settling(p, t, {}, before, b)
    BY <2>4, <2>5, <2>6, <2>7, <2>8, <1>2, <1>9 DEF Settling
  <2> QED
    BY <2>9, Settles
<1> QED
  BY <1>7, <1>8, <1>9 DEF ToOne

\* A call is made, of which there is nothing so far.
LEMMA Records ==
    ASSUME Inv, BoundsAssumption, NEW p \in Peer, NEW kind \in {"one", "lead", "host", "others", "all"},
           NEW to, to \subseteq Peer, NEW reply \in BOOLEAN, Record(p, kind, to, reply)
    PROVE  /\ Grown /\ NewCall \in Call /\ NewCall \in DOMAIN calls' /\ NewCall \notin DOMAIN calls
           /\ calls'[NewCall].by = p /\ calls'[NewCall].kind = kind /\ calls'[NewCall].to = to
           /\ answers[NewCall] = <<>> /\ batch[NewCall] = {} /\ By(NewCall) = {}
           /\ \A y \in Peer : handled[NewCall][y] = 0
           /\ \A y \in Peer : Clear(chan, NewCall, y)
           /\ \A x, y \in Peer : \A e \in pending[x][y] : e.then.call # NewCall
<1>1. PICK made : made = [by |-> p, kind |-> kind, to |-> to, reply |-> reply]
  OBVIOUS
<1>2. NewCall \in Call /\ calls' = Append(calls, made)
  BY <1>1 DEF Record
<1>3. calls \in Seq(Made) /\ Len(calls) <= MaxCalls /\ MaxCalls \in Nat
  BY DEF Inv, Typed, TypedCalls, BoundsAssumption
<1>4. made \in Made
  BY <1>1 DEF Made
<1>5. /\ calls' \in Seq(Made) /\ Len(calls') = Len(calls) + 1
      /\ \A i \in 1 .. Len(calls) : calls'[i] = calls[i]
      /\ calls'[Len(calls) + 1] = made
  BY <1>2, <1>3, <1>4, AppendProperties
<1>6. Len(calls) \in Nat /\ DOMAIN calls = 1 .. Len(calls) /\ DOMAIN calls' = 1 .. Len(calls) + 1
  BY <1>3, <1>5, LenProperties
<1>7. /\ NewCall \in DOMAIN calls' /\ NewCall \notin DOMAIN calls /\ calls'[NewCall] = made
      /\ Len(calls') <= MaxCalls
  BY <1>2, <1>3, <1>5, <1>6 DEF NewCall, Call
<1>8. Grown
  BY <1>5, <1>6, <1>7 DEF Grown
<1>9. /\ answers[NewCall] = <<>> /\ batch[NewCall] = {} /\ \A y \in Peer : handled[NewCall][y] = 0
  BY <1>2, <1>7 DEF Inv, Unmade
<1>10. By(NewCall) = {}
  BY <1>9 DEF By
<1>11. ASSUME NEW x \in Peer, NEW y \in Peer, NEW n \in DOMAIN chan[x][y]
       PROVE  chan[x][y][n].call # NewCall
  <2>1. PICK m : m = chan[x][y][n]
    OBVIOUS
  <2>2. m \in Messages(x, y)
    BY <2>1 DEF Messages
  <2>3. m.call \in DOMAIN calls
    BY <2>2 DEF Inv, Carried
  <2> QED
    BY <2>1, <2>3, <1>7
<1>12. \A x, y \in Peer : \A e \in pending[x][y] : e.then.call # NewCall
  BY <1>7 DEF Inv, Waiting, Callback
<1>13. \A y \in Peer : Clear(chan, NewCall, y)
  BY <1>11 DEF Clear
<1> QED
  BY <1>1, <1>2, <1>7, <1>8, <1>9, <1>10, <1>12, <1>13

\* A call to one peer.
LEMMA CallsOne ==
    ASSUME Inv, BoundsAssumption, NEW p \in Peer, NEW kind \in {"one", "lead", "host"}, NEW to, to \subseteq Peer,
           NEW q, NEW reply \in BOOLEAN, Record(p, kind, to, reply), UNCHANGED <<links, where, upsets>>,
           ToOne(p, q, NewCall, ToNew(reply), chan)
    PROVE  Inv'
<1>1. PICK c : c = NewCall
  OBVIOUS
<1>2. PICK b : b = chan
  OBVIOUS
<1>3. PICK t : t = ToNew(reply)
  OBVIOUS
<1>4. /\ Grown /\ c \in Call /\ c \in DOMAIN calls' /\ c \notin DOMAIN calls
      /\ calls'[c].by = p /\ calls'[c].kind = kind /\ calls'[c].to = to
      /\ answers[c] = <<>> /\ By(c) = {}
      /\ \A y \in Peer : Clear(b, c, y)
      /\ \A x, y \in Peer : \A e \in pending[x][y] : e.then.call # c
  BY <1>1, <1>2, Records
<1>5. ~Many(c)'
  BY <1>4 DEF Many
<1>6. /\ t.call = c /\ (Asks(t) => t \in Then) /\ t.to \in {"caller", "nowhere"}
  BY <1>1, <1>3, <1>4, ThenMade DEF ToNew, Asks
<1>7. Offered(p, c, t)
  BY <1>4, <1>5, <1>6 DEF Offered
<1>8. Within(b)
  BY <1>2, WithinSelf DEF Inv
<1>9. Held(p, q, c, t, b)
  BY <1>4, <1>5, <1>6, <1>7, <1>8 DEF Held
<1>10. ToOne(p, q, c, t, b)
  BY <1>1, <1>2, <1>3
<1> QED
  BY <1>4, <1>9, <1>10, OneGoesOn


\* q reads a call of p.
LEMMA ReadsCall ==
    ASSUME Inv, BoundsAssumption, NEW p \in Peer, NEW q \in Peer, ReadCall(p, q)
    PROVE  Inv'
<1>1. Typed /\ Carried /\ Lone /\ Returned /\ Told
  BY DEF Inv
<1>2. PICK m : m = Head(chan[p][q])
  OBVIOUS
<1>3. PICK b : b = [chan EXCEPT ![p][q] = Tail(@)]
  OBVIOUS
<1>4. PICK c : c = m.call
  OBVIOUS
<1>5. PICK t : t = BackTo(m, p)
  OBVIOUS
<1>6. PICK to : to = CASE calls[c].kind \in {"one", "others", "all"} -> q
                       [] calls[c].kind = "host" /\ m.id = 0 -> None
                       [] OTHER -> where[q]
  OBVIOUS
<1>7. /\ chan[p][q] # <<>> /\ ToOne(q, to, c, t, b)
      /\ UNCHANGED <<links, upsets, where>> /\ calls' = calls
  BY <1>2, <1>3, <1>4, <1>5, <1>6 DEF ReadCall
<1>8. /\ Within(b)
      /\ \A n \in DOMAIN b[p][q] : n + 1 \in DOMAIN chan[p][q] /\ b[p][q][n] = chan[p][q][n + 1]
      /\ \A x, y \in Peer : ~(x = p /\ y = q) => b[x][y] = chan[x][y]
  <2>1. Within(b)
    BY <1>1, <1>3, <1>7, WithinTail
  <2>2. Headless(b, p, q)
    BY <1>1, <1>3, <1>7, WithinTail
  <2>3. \A x, y \in Peer : ~(x = p /\ y = q) => b[x][y] = chan[x][y]
    BY <1>1, <1>3, <1>7, WithinTail
  <2> QED
    BY <2>1, <2>2, <2>3 DEF Headless
<1>9. chan[p][q] \in Seq(Message)
  BY <1>1 DEF Typed, TypedCalls
<1>10. /\ m = chan[p][q][1] /\ 1 \in DOMAIN chan[p][q] /\ m \in Message
       /\ m \in Messages(p, q)
  <2>1. m = chan[p][q][1] /\ 1 \in DOMAIN chan[p][q] /\ m \in Message
    BY <1>2, <1>7, <1>9, EmptySeq, LenProperties, HeadTailProperties
  <2> QED
    BY <2>1 DEF Messages
<1>11. c \in Call /\ m.id \in 0 .. MaxId /\ m.era \in 0 .. MaxUpsets
  BY <1>4, <1>10 DEF Message
<1>12. /\ c \in DOMAIN calls
       /\ Numbered(p, q, m.era, m.id) /\ Linked(p, q, m.era, m.id, c)
       /\ handled[c][q] = 0
       /\ IF Many(c) THEN q \in calls[c].to ELSE By(c) = {}
  BY <1>1, <1>4, <1>10 DEF Carried
<1>13. Grown /\ c \in DOMAIN calls' /\ calls'[c] = calls[c] /\ (Many(c)' <=> Many(c))
  BY <1>1, <1>7, <1>12 DEF Typed, TypedCalls, Grown, Many
<1>14. ~Gone(c)
  BY <1>4, <1>10 DEF Gone
\* There is no other message with the call to q, nor, if it goes to one peer, at all.
<1>15. ASSUME NEW y \in Peer, y = q \/ ~Many(c)
       PROVE  Clear(b, c, y)
  <2> SUFFICES ASSUME NEW x \in Peer, NEW n \in DOMAIN b[x][y], b[x][y][n].call = c
               PROVE  FALSE
    BY DEF Clear
  <2>1. CASE x = p /\ y = q
    <3>1. n + 1 \in DOMAIN chan[p][q] /\ chan[p][q][n + 1].call = c
      BY <2>1, <1>8
    <3>2. \A i, j \in DOMAIN chan[p][q] : chan[p][q][i].call = c /\ chan[p][q][j].call = c => i = j
      BY <1>1, <1>11 DEF Lone
    <3>3. n + 1 = 1
      BY <3>1, <3>2, <1>4, <1>10
    <3>4. b[p][q] \in Seq(Message)
      BY <1>8 DEF Within
    <3>5. n \in Nat /\ n > 0
      BY <2>1, <3>4, LenProperties
    <3> QED
      BY <3>3, <3>5
  <2>2. CASE ~(x = p /\ y = q)
    <3>1. n \in DOMAIN chan[x][y] /\ chan[x][y][n].call = c
      BY <2>2, <1>8
    <3>2. chan[p][q][1].call = c /\ 1 \in DOMAIN chan[p][q]
      BY <1>4, <1>10
    <3>3. x = p /\ y = q /\ n = 1
      BY <3>1, <3>2, <1>1, <1>11, <1>15 DEF Lone
    <3> QED
      BY <2>2, <3>3
  <2> QED
    BY <2>1, <2>2
<1>16. answers[c] = <<>>
  <2>1. ASSUME answers[c] # <<>>
        PROVE  FALSE
    <3>1. answers[c] \in Seq(SUBSET Peer)
      BY <1>1, <1>11 DEF Typed, TypedCalls
    <3>2. 1 \in DOMAIN answers[c]
      BY <2>1, <3>1, EmptySeq, LenProperties
    <3>3. IF Many(c) THEN By(c) = calls[c].to ELSE Gone(c)
      BY <3>2, <1>1, <1>12 DEF Told
    <3>4. Many(c) => q \in By(c)
      BY <3>3, <1>12
    <3> QED
      BY <3>3, <3>4, <1>12, <1>14 DEF By
  <2> QED
    BY <2>1
<1>17. ASSUME ~Many(c), NEW x \in Peer, NEW y \in Peer, NEW a \in Replies(x, y), NEW e \in pending[x][y], e.id = a.id
       PROVE  e.then.call # c
  <2>1. \A f \in pending[x][y] : f.id = a.id =>
          IF Many(f.then.call) THEN handled[f.then.call][y] > 0
          ELSE Gone(f.then.call) /\ a.by = By(f.then.call)
    BY <1>1, Zenon DEF Returned
  <2>2. IF Many(e.then.call) THEN handled[e.then.call][y] > 0
        ELSE Gone(e.then.call) /\ a.by = By(e.then.call)
    BY <2>1, <1>17, Zenon
  <2> QED
    BY <2>2, <1>14, <1>17
<1>18. Many(c) => to = q
  BY <1>6 DEF Many
<1>19. /\ t.call = c /\ (Asks(t) => t \in Then) /\ t.to \in {"peer", "nowhere"}
       /\ t.to = "peer" => t.peer = p /\ t.era = m.era /\ t.id = m.id
  <2>1. CASE m.id = 0
    BY <2>1, <1>4, <1>5, <1>11, ThenMade DEF BackTo, Asks
  <2>2. CASE m.id # 0
    <3>1. m.id \in 1 .. MaxId
      BY <2>2, <1>11
    <3> QED
      BY <2>2, <3>1, <1>4, <1>5, <1>11, ThenMade DEF BackTo, Asks
  <2> QED
    BY <2>1, <2>2
<1>20. Offered(q, c, t)
  BY <1>12, <1>19 DEF Offered
<1>21. Held(q, to, c, t, b)
  BY <1>7, <1>8, <1>12, <1>13, <1>15, <1>16, <1>17, <1>18, <1>19, <1>20 DEF Held
<1> QED
  BY <1>7, <1>11, <1>21, OneGoesOn

\* A call to many.
LEMMA CallsMany ==
    ASSUME Inv, BoundsAssumption, NEW p \in Peer, NEW here \in BOOLEAN, NEW reply \in BOOLEAN,
           CallMany(p, here, reply)
    PROVE  Inv'
<1>1. Typed
  BY DEF Inv
<1>2. PICK c : c = NewCall
  OBVIOUS
<1>3. PICK b : b = chan
  OBVIOUS
<1>4. PICK to : to = peers[p]
  OBVIOUS
<1>5. PICK then : then = [q \in Peer |-> IF reply THEN ToBatch(c, q) ELSE Nowhere(c)]
  OBVIOUS
<1>6. PICK all : all = to \cup (IF here THEN {p} ELSE {})
  OBVIOUS
<1>7. /\ Record(p, IF here THEN "all" ELSE "others", all, reply)
      /\ Sent(p, to, c, then, b)
      /\ batch' = IF reply THEN [batch EXCEPT ![c] = {[remaining |-> all, results |-> {}]}] ELSE batch
      /\ IF here THEN Handled(p, c, then[p]) ELSE UNCHANGED runs
      /\ UNCHANGED <<links, upsets, where, back, answers>>
  BY <1>2, <1>3, <1>4, <1>5, <1>6 DEF CallMany, Awaited
<1>8. to \subseteq Peer /\ p \notin to /\ all \subseteq Peer
  BY <1>1, <1>4, <1>6 DEF Typed, TypedLinks
<1>9. PICK kind \in {"one", "lead", "host", "others", "all"} : kind = IF here THEN "all" ELSE "others"
  OBVIOUS
<1>10. /\ Grown /\ c \in Call /\ c \in DOMAIN calls' /\ c \notin DOMAIN calls
       /\ calls'[c].by = p /\ calls'[c].kind = kind /\ calls'[c].to = all
       /\ answers[c] = <<>> /\ \A y \in Peer : handled[c][y] = 0
       /\ \A y \in Peer : Clear(b, c, y)
  <2>1. Record(p, kind, all, reply)
    BY <1>7, <1>9
  <2>2. /\ Grown /\ NewCall \in Call /\ NewCall \in DOMAIN calls' /\ NewCall \notin DOMAIN calls
        /\ answers[NewCall] = <<>> /\ \A y \in Peer : handled[NewCall][y] = 0
    BY <2>1, <1>8, Records
  <2>3. \A y \in Peer : Clear(chan, NewCall, y)
    BY <2>1, <1>8, Records
  <2>4. calls'[NewCall].by = p /\ calls'[NewCall].kind = kind /\ calls'[NewCall].to = all
    BY <2>1, <1>8, Records
  <2> QED
    BY <2>2, <2>3, <2>4, <1>2, <1>3
<1>11. Many(c)' /\ calls'[c].to = all
  BY <1>9, <1>10 DEF Many
<1>12. ASSUME NEW y \in Peer
       PROVE  /\ Offered(p, c, then[y]) /\ (Asks(then[y]) => then[y] \in Then)
              /\ then[y].to = "batch" => then[y].of = y
              /\ then[y].to # "peer"
  <2>1. /\ then[y].call = c /\ (Asks(then[y]) => then[y] \in Then)
        /\ then[y].to = "batch" => then[y].of = y
        /\ then[y].to \in {"batch", "nowhere"}
    BY <1>5, <1>10, ThenMade DEF Asks
  <2> QED
    BY <2>1, <1>11 DEF Offered
<1>13. Within(b)
  BY <1>1, <1>3, WithinSelf
<1>14. Sending(p, to, c, then, b)
  BY <1>1, <1>7, <1>8, <1>10, <1>12, <1>13, SentNews
<1>15. Running(p, c, then[p], here)
  <2>1. CASE here
    BY <2>1, <1>1, <1>7, <1>10, HandledRuns
  <2>2. CASE ~here
    BY <2>2, <1>1, <1>7, <1>10, UnhandledRuns
  <2> QED
    BY <2>1, <2>2
<1>16. Having(p, to, here) = all
  BY <1>6 DEF Having
<1>17. Ready(p, to, c, b, here)
  BY <1>8, <1>10, <1>11, <1>16 DEF Ready
<1>18. Offering(p, to, c, then, here)
  BY <1>8, <1>12, <1>16 DEF Offering
<1>19. Batching(c)
  <2>1. batch \in [Call -> SUBSET Awaiting]
    BY <1>1 DEF Typed, TypedRequests
  <2>2. PICK r : r = [remaining |-> all, results |-> {}]
    OBVIOUS
  <2>3. r \in Awaiting
    BY <2>2, <1>8 DEF Awaiting
  <2>4. /\ batch' \in [Call -> SUBSET Awaiting]
        /\ \A d \in Call : batch'[d] # batch[d] => d = c /\ batch'[d] = {r}
    BY <2>1, <2>2, <2>3, <1>7, <1>10
  <2> QED
    BY <2>2, <2>4, <1>10, <1>11 DEF Batching
<1>20. Going(p, to, c, then, b, here)
  BY <1>4, <1>7, <1>10, <1>13, <1>14, <1>15, <1>17, <1>18, <1>19 DEF Going
<1>21. \E ran \in BOOLEAN : Going(p, to, c, then, b, ran)
  BY <1>20
<1> QED
  BY <1>10, <1>21, GoesOn

-----------------------------------------------------------------------------
(* The invariant holds, and what follows from it.                          *)

LEMMA Starts ==
    ASSUME Init, BoundsAssumption
    PROVE  Inv
<1> USE DEF Init
<1>1. Typed
  <2>1. TypedLinks
    BY BoundsAssumption DEF TypedLinks
  <2>2. TypedRequests
    BY BoundsAssumption DEF TypedRequests
  <2>3. TypedCalls
    BY BoundsAssumption DEF TypedCalls
  <2> QED
    BY <2>1, <2>2, <2>3 DEF Typed
<1>2. DOMAIN calls = {} /\ work = {}
  OBVIOUS
<1>3. \A p, q \in Peer : chan[p][q] = <<>> /\ back[p][q] = <<>> /\ pending[p][q] = {}
  OBVIOUS
<1>4. \A p, q \in Peer : DOMAIN chan[p][q] = {} /\ Messages(p, q) = {} /\ Replies(p, q) = {}
  BY <1>3 DEF Messages, Replies
<1>5. Unmade /\ Once
  BY DEF Unmade, Once
<1>6. Carried /\ Lone /\ Working /\ Waiting /\ Sole /\ Returned
  BY <1>2, <1>3, <1>4 DEF Carried, Lone, Working, Waiting, Sole, Returned
<1>7. Told /\ Batched
  BY <1>2 DEF Told, Batched
<1> QED
  BY <1>1, <1>5, <1>6, <1>7 DEF Inv

\* Every step of a peer, and whatever happens to the links, keeps the invariant.
LEMMA Steps ==
    ASSUME Inv, BoundsAssumption, [Next]_vars
    PROVE  Inv'
<1>1. ASSUME NEW p \in Peer, NEW q \in Peer, NEW reply \in BOOLEAN, CallOne(p, q, reply)
      PROVE  Inv'
  <2>1. PICK to : to = {q} \cap (peers[p] \cup {p})
    OBVIOUS
  <2>2. /\ Record(p, "one", to, reply) /\ UNCHANGED <<links, where, upsets>>
        /\ ToOne(p, q, NewCall, ToNew(reply), chan)
    BY <2>1, <1>1 DEF CallOne
  <2>3. to \subseteq Peer
    BY <2>1
  <2>4. \E kind \in {"one", "lead", "host"} : Record(p, kind, to, reply)
    BY <2>2
  <2> QED
    BY <2>2, <2>3, <2>4, CallsOne
<1>2. ASSUME NEW p \in Peer, NEW kind \in {"lead", "host"}, NEW reply \in BOOLEAN, CallChased(p, kind, reply)
      PROVE  Inv'
  <2>1. PICK q : q = where[p]
    OBVIOUS
  <2>2. /\ Record(p, kind, {}, reply) /\ UNCHANGED <<links, where, upsets>>
        /\ ToOne(p, q, NewCall, ToNew(reply), chan)
    BY <2>1, <1>2 DEF CallChased
  <2>3. {} \subseteq Peer /\ kind \in {"one", "lead", "host"}
    OBVIOUS
  <2> QED
    BY <2>2, <2>3, CallsOne
<1>3. CASE UNCHANGED vars
  BY <1>3, Stutters
<1> QED
  BY <1>1, <1>2, <1>3, CallsMany, Finishes, ReadsAnswer, ReadsCall, Breaks, Learns DEF Next

\* Whatever calls are made and passed on, however often links break: the invariant
\* above, the placement of every call, of its callbacks and of its answers
\* (PeerManager::execute*, request*, handleResponse; Peer; PeerConnection::sendResponse).
THEOREM InvHolds == Spec => []Inv
<1>1. Init => Inv
  BY Starts, BoundsAssumption
<1>2. Inv /\ [Next]_vars => Inv'
  BY Steps, BoundsAssumption
<1> QED
  BY <1>1, <1>2, PTL DEF Spec


\* Variables hold what their names say (TypeOK of RemoteCalls): only a Peer object that is
\* there is connected or waited for, ids start from one, and a batch has one entry.
THEOREM TypeHolds == Spec => []TypeOK
<1>1. ASSUME Inv
      PROVE  TypeOK
  <2>1. Typed /\ Carried /\ Waiting /\ Returned
    BY <1>1 DEF Inv
  <2>2. \A l \in up : l[2] \in peers[l[1]] /\ l[1] # l[2]
    <3>1. ASSUME NEW l \in up
          PROVE  l[2] \in peers[l[1]] /\ l[1] # l[2]
      <4>1. PICK x \in Peer, y \in Peer : l = <<x, y>>
        BY <2>1 DEF Typed, TypedLinks
      <4> QED
        BY <4>1, <2>1 DEF Typed, TypedLinks
    <3> QED
      BY <3>1
  <2>3. era \in [Peer -> [Peer -> 0 .. MaxUpsets]]
    <3>1. era \in [Peer -> [Peer -> Nat]] /\ upsets \in 0 .. MaxUpsets /\ MaxUpsets \in Nat
          /\ \A x, y \in Peer : era[x][y] <= upsets
      BY <2>1, BoundsAssumption DEF Typed, TypedLinks
    <3>2. \A x, y \in Peer : era[x][y] \in 0 .. MaxUpsets
      BY <3>1
    <3> QED
      BY <3>1, <3>2
  <2>4. ASSUME NEW x \in Peer, NEW y \in Peer
        PROVE  /\ \A e \in pending[x][y] : e.id \in 1 .. lastId[x][y] /\ e.then \in Then
               /\ pending[x][y] # {} => y \in peers[x]
               /\ \A n \in DOMAIN chan[x][y] : chan[x][y][n].call \in DOMAIN calls
               /\ back[x][y] # <<>> => <<x, y>> \in up
    <3>1. ASSUME NEW e \in pending[x][y]
          PROVE  e.id \in 1 .. lastId[x][y] /\ e.then \in Then
      <4>1. e \in Entry /\ lastId[x][y] \in Nat /\ e.id <= lastId[x][y]
        BY <2>1 DEF Typed, TypedRequests, Waiting
      <4>2. e.id \in 1 .. MaxId /\ e.then \in Then
        BY <4>1 DEF Entry
      <4> QED
        BY <4>1, <4>2, BoundsAssumption
    <3>2. ASSUME NEW n \in DOMAIN chan[x][y]
          PROVE  chan[x][y][n].call \in DOMAIN calls
      <4>1. \A m \in Messages(x, y) : m.call \in DOMAIN calls
        BY <2>1 DEF Carried
      <4> QED
        BY <4>1 DEF Messages
    <3> QED
      BY <3>1, <3>2, <2>1 DEF Waiting, Returned
  <2>5. ASSUME NEW c \in Call
        PROVE  Cardinality(batch[c]) <= 1
    <3>1. \A b1, b2 \in batch[c] : b1 = b2
      BY <2>1 DEF Typed, TypedRequests
    <3>2. CASE batch[c] = {}
      BY <3>2, FS_EmptySet
    <3>3. CASE batch[c] # {}
      <4>1. PICK r : r \in batch[c]
        BY <3>3
      <4>2. batch[c] = {r}
        BY <3>1, <4>1
      <4> QED
        BY <4>2, FS_Singleton
    <3> QED
      BY <3>2, <3>3
  <2>6. /\ peers \in [Peer -> SUBSET Peer] /\ lastId \in [Peer -> [Peer -> 0 .. MaxId]]
        /\ where \in [Peer -> Peer \cup {None}]
        /\ \A w \in work : w.at \in Peer /\ w.then \in Then
        /\ Len(calls) <= MaxCalls /\ upsets <= MaxUpsets /\ lost \subseteq DOMAIN calls
    BY <2>1, BoundsAssumption DEF Typed, TypedLinks, TypedRequests, TypedCalls, Request
  <2> QED
    BY <2>2, <2>3, <2>4, <2>5, <2>6 DEF TypeOK
<1> QED
  BY <1>1, InvHolds, PTL

\* A caller is answered at most once, and a peer runs a call at most once (AtMostOnce of
\* RemoteCalls), however the call is passed on and whatever happens to the links:
\* PeerManager::handleResponse, Peer::handleResponse, requestLead, requestSession.
THEOREM CallsAtMostOnce == Spec => []AtMostOnce
<1>1. ASSUME Inv
      PROVE  AtMostOnce
  <2>1. ASSUME NEW c \in Call
        PROVE  Len(answers[c]) <= 1
    <3>1. CASE c \in DOMAIN calls
      BY <1>1, <3>1 DEF Inv, Told
    <3>2. CASE c \notin DOMAIN calls
      <4>1. answers[c] = <<>>
        BY <1>1, <3>2 DEF Inv, Unmade
      <4> QED
        BY <4>1
    <3> QED
      BY <3>1, <3>2
  <2>2. \A c \in Call, q \in Peer : handled[c][q] <= 1
    BY <1>1 DEF Inv, Once
  <2> QED
    BY <2>1, <2>2 DEF AtMostOnce
<1> QED
  BY <1>1, InvHolds, PTL

\* An answer names exactly those who have run the call, and that of a call to many everyone
\* who was asked (Truthful of RemoteCalls; PeerManager::handleResponse,
\* Callback::invoke with its defaults, RequestMessage::handle).
THEOREM AnswersTruthful == Spec => []Truthful
<1>1. ASSUME Inv
      PROVE  Truthful
  BY <1>1 DEF Inv, Told, Truthful, By, Many
<1> QED
  BY <1>1, InvHolds, PTL


=============================================================================
