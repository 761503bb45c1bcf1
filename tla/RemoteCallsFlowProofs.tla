----------------------- MODULE RemoteCallsFlowProofs -----------------------
(* Nothing is forgotten on its way, for every set of peers, however many   *)
(* calls are made and however often links break: of a call that has lost   *)
(* nothing with a link, every request has exactly one answer to come, and  *)
(* once there is nothing left to do, everyone has been answered.           *)
(*                                                                         *)
(* The argument: a request is known by the peers it goes between, by how   *)
(* often their link has been cut and by its id, and what is known by the   *)
(* same is one thing, a message, a callback or an answer.  That it is at   *)
(* least one follows the call from place to place; at the same time the    *)
(* entry it will find when it comes back is still there.                   *)
(*                                                                         *)
(* At the end, with this and the invariants of RemoteCallsProofs, that     *)
(* the peers do what PeerCalls promises.                                   *)
EXTENDS RemoteCallsProofs

-----------------------------------------------------------------------------
(* At most one.                                                            *)

\* A callback that answers request i of p, made when the link had been cut n times.
Keyed(t, p, n, i) == t.to = "peer" /\ t.peer = p /\ t.era = n /\ t.id = i

\* x holds no such callback.
Unheld(x, p, n, i) ==
    /\ \A w \in work : w.at = x => ~Keyed(w.then, p, n, i)
    /\ \A y \in Peer : \A e \in pending[x][y] : ~Keyed(e.then, p, n, i)

SameKey(t, u) == t.to = "peer" /\ Keyed(u, t.peer, t.era, t.id)

OneMessage ==
    \A p, q \in Peer : \A k, l \in DOMAIN chan[p][q] :
      chan[p][q][k].id # 0 /\ chan[p][q][k].id = chan[p][q][l].id
      /\ chan[p][q][k].era = chan[p][q][l].era => k = l

OneReply ==
    \A p, q \in Peer : \A k, l \in DOMAIN back[p][q] : back[p][q][k].id = back[p][q][l].id => k = l

OneEntry == \A p, q \in Peer : \A e, f \in pending[p][q] : e.id = f.id => e = f

\* A request in a channel is at work nowhere, nor has it an answer.
MessageAlone ==
    \A p, q \in Peer : \A m \in Messages(p, q) : m.id # 0 =>
      /\ Unheld(q, p, m.era, m.id)
      /\ m.era = era[p][q] => \A a \in Replies(p, q) : a.id # m.id

\* Nor is one at work that has its answer.
ReplyAlone ==
    \A p, q \in Peer : \A a \in Replies(p, q) : \A n \in Nat : n = era[p][q] => Unheld(q, p, n, a.id)

\* A callback for another peer waits at one place.
OneHolder ==
    /\ \A w, v \in work : w.at = v.at /\ SameKey(w.then, v.then) => w = v
    /\ \A w \in work, y \in Peer : \A e \in pending[w.at][y] : ~SameKey(w.then, e.then)
    /\ \A x, y, z \in Peer : \A e \in pending[x][y], f \in pending[x][z] :
         SameKey(e.then, f.then) => y = z /\ e = f

Single == OneMessage /\ OneReply /\ OneEntry /\ MessageAlone /\ ReplyAlone /\ OneHolder

-----------------------------------------------------------------------------
(* At least one.                                                           *)

\* A callback waits at x.
Holds(x, t) ==
    \/ \E w \in work : w.at = x /\ w.then = t
    \/ \E y \in Peer : \E e \in pending[x][y] : e.then = t

\* p still waits for the answer to that request, which is the call c.
Entered(p, q, n, i, c) == n = era[p][q] /\ \E e \in pending[p][q] : e.id = i /\ e.then.call = c

Root(x, t) == t.to = "peer" /\ t.call \notin lost => Entered(t.peer, x, t.era, t.id, t.call)

\* Whoever was asked is waited for.
Rooted ==
    /\ \A p, q \in Peer : \A m \in Messages(p, q) :
         m.id # 0 /\ m.call \notin lost => Entered(p, q, m.era, m.id, m.call)
    /\ \A w \in work : Root(w.at, w.then)
    /\ \A x, y \in Peer : \A e \in pending[x][y] : Root(x, e.then)

\* What p waits for is on its way to q, or at work there, or on its way back.
OnWay(p, q, e) ==
    \/ \E m \in Messages(p, q) : m.era = e.era /\ m.id = e.id
    \/ Holds(q, ToPeer(e.then.call, p, e.era, e.id))
    \/ \E a \in Replies(p, q) : a.id = e.id

Underway ==
    \A p, q \in Peer : \A e \in pending[p][q] : e.then.call \notin lost =>
      e.era = era[p][q] /\ <<p, q>> \in up /\ OnWay(p, q, e)

\* A call that is to be answered and is not yet.
Open(c) == c \in DOMAIN calls \ lost /\ calls[c].reply /\ answers[c] = <<>>

\* Somebody will answer the caller, or each of those the batch still waits for.
Expected ==
    \A c \in Call, p \in Peer : Open(c) /\ calls[c].by = p =>
      /\ Many(c) => \E r \in batch[c] : \A q \in r.remaining : Holds(p, ToBatch(c, q))
      /\ ~Many(c) => Holds(p, ToCaller(c))

\* Whom a call is for has handled it, or is yet to read it.
Arriving ==
    \A c \in DOMAIN calls \ lost : \A q \in calls[c].to :
      handled[c][q] > 0 \/ \E p \in Peer : \E m \in Messages(p, q) : m.call = c

\* Something of the call is left to read or to do.
Tip(c) ==
    \/ \E x, y \in Peer : \E m \in Messages(x, y) : m.call = c /\ m.id # 0
    \/ \E w \in work : w.then.call = c
    \/ \E x, y \in Peer : \E a \in Replies(x, y), e \in pending[x][y] : a.id = e.id /\ e.then.call = c

Moving == \A c \in Call : Open(c) /\ ~Many(c) => Tip(c)

\* A batch that waits for nobody was for nobody, and that is one to "the others".  A
\* call to the lead or to a host is for nobody by name.
Waited ==
    \A c \in DOMAIN calls : /\ \A r \in batch[c] : r.remaining = {} => calls[c].to = {}
                            /\ calls[c].kind = "all" => calls[c].to # {}
                            /\ calls[c].kind \in {"lead", "host"} => calls[c].to = {}

Flow == Single /\ Rooted /\ Underway /\ Expected /\ Arriving /\ Moving /\ Waited

-----------------------------------------------------------------------------
(* What numbers there are.                                                 *)

\* Calls were made, numbers given out.
Counted ==
    /\ DOMAIN calls \subseteq Call /\ work \subseteq Request
    /\ \A x, y \in Peer :
         /\ era[x][y] \in Nat /\ lastId[x][y] \in Nat /\ x \notin peers[x]
         /\ chan[x][y] \in Seq(Message) /\ back[x][y] \in Seq(Answer)
         /\ \A m \in Messages(x, y) :
              /\ m.call \in DOMAIN calls /\ m.id \in Nat /\ m.era \in Nat
              /\ Numbered(x, y, m.era, m.id) /\ Linked(x, y, m.era, m.id, m.call)
         /\ \A e \in pending[x][y] : /\ e.id <= lastId[x][y] /\ e.id \in Nat \ {0}
                                     /\ e.then \in Then /\ y \in peers[x]
         /\ \A a \in Replies(x, y) : a.id <= lastId[x][y] /\ a.id \in Nat \ {0}

\* So was the number a callback at x answers to.
Known(x, t) ==
    /\ t \in Then /\ t.call \in DOMAIN calls
    /\ t.to = "peer" => /\ t.peer \in Peer /\ t.id \in Nat \ {0} /\ t.era \in Nat
                        /\ Numbered(t.peer, x, t.era, t.id) /\ Linked(t.peer, x, t.era, t.id, t.call)

LEMMA Counts ==
    ASSUME Inv, BoundsAssumption
    PROVE  Counted
<1>1. Typed /\ Carried /\ Waiting /\ Returned
  BY DEF Inv
<1>2. DOMAIN calls \subseteq Call /\ work \subseteq Request
  <2>1. calls \in Seq(Made) /\ Len(calls) <= MaxCalls /\ MaxCalls \in Nat
    BY <1>1 DEF Typed, TypedCalls, BoundsAssumption
  <2>2. DOMAIN calls \subseteq Call
    BY <2>1, LenProperties DEF Call
  <2> QED
    BY <2>2, <1>1 DEF Typed, TypedRequests
<1> SUFFICES ASSUME NEW x \in Peer, NEW y \in Peer
             PROVE  /\ era[x][y] \in Nat /\ lastId[x][y] \in Nat /\ x \notin peers[x]
                    /\ chan[x][y] \in Seq(Message) /\ back[x][y] \in Seq(Answer)
                    /\ \A m \in Messages(x, y) :
                         /\ m.call \in DOMAIN calls /\ m.id \in Nat /\ m.era \in Nat
                         /\ Numbered(x, y, m.era, m.id) /\ Linked(x, y, m.era, m.id, m.call)
                    /\ \A e \in pending[x][y] : /\ e.id <= lastId[x][y] /\ e.id \in Nat \ {0}
                                                /\ e.then \in Then /\ y \in peers[x]
                    /\ \A a \in Replies(x, y) : a.id <= lastId[x][y] /\ a.id \in Nat \ {0}
  BY <1>2 DEF Counted
<1>3. era[x][y] \in Nat /\ lastId[x][y] \in Nat /\ x \notin peers[x]
  BY <1>1, BoundsAssumption DEF Typed, TypedLinks, TypedRequests
<1>4. chan[x][y] \in Seq(Message) /\ back[x][y] \in Seq(Answer)
  BY <1>1 DEF Typed, TypedCalls
<1>5. ASSUME NEW m \in Messages(x, y)
      PROVE  /\ m.call \in DOMAIN calls /\ m.id \in Nat /\ m.era \in Nat
             /\ Numbered(x, y, m.era, m.id) /\ Linked(x, y, m.era, m.id, m.call)
  <2>1. m \in Message
    BY <1>4, ElementOfSeq, LenProperties DEF Messages
  <2>2. m.id \in Nat /\ m.era \in Nat
    BY <2>1, BoundsAssumption DEF Message
  <2> QED
    BY <2>2, <1>1 DEF Carried
<1>6. ASSUME NEW e \in pending[x][y]
      PROVE  e.id <= lastId[x][y] /\ e.id \in Nat \ {0} /\ e.then \in Then /\ y \in peers[x]
  <2>1. e \in Entry
    BY <1>1 DEF Typed, TypedRequests
  <2>2. e.id \in Nat \ {0} /\ e.then \in Then
    BY <2>1, BoundsAssumption DEF Entry
  <2> QED
    BY <2>2, <1>1 DEF Waiting
<1>7. ASSUME NEW a \in Replies(x, y)
      PROVE  a.id <= lastId[x][y] /\ a.id \in Nat \ {0}
  <2>1. a \in Answer
    BY <1>4, ElementOfSeq, LenProperties DEF Replies
  <2>2. a.id \in Nat \ {0}
    BY <2>1, BoundsAssumption DEF Answer
  <2> QED
    BY <2>2, <1>1, Zenon DEF Returned
<1> QED
  BY <1>3, <1>4, <1>5, <1>6, <1>7

LEMMA Knows ==
    ASSUME Inv, BoundsAssumption, NEW x \in Peer, NEW t, Holds(x, t)
    PROVE  Known(x, t)
<1>1. Typed /\ Working /\ Waiting
  BY DEF Inv
<1>2. Callback(x, t) /\ t \in Then
  <2>1. CASE \E w \in work : w.at = x /\ w.then = t
    <3>1. PICK w \in work : w.at = x /\ w.then = t
      BY <2>1
    <3> QED
      BY <3>1, <1>1 DEF Working, Typed, TypedRequests, Request
  <2>2. CASE \E y \in Peer : \E e \in pending[x][y] : e.then = t
    <3>1. PICK y \in Peer : \E e \in pending[x][y] : e.then = t
      BY <2>2
    <3>2. PICK e \in pending[x][y] : e.then = t
      BY <3>1
    <3>3. e \in Entry
      BY <3>2, <1>1 DEF Typed, TypedRequests
    <3> QED
      BY <3>2, <3>3, <1>1 DEF Waiting, Entry
  <2> QED
    BY <2>1, <2>2 DEF Holds
<1>3. t.to = "peer" => t.peer \in Peer /\ t.id \in Nat \ {0} /\ t.era \in Nat
  BY <1>2, ThenShape, BoundsAssumption
<1> QED
  BY <1>2, <1>3 DEF Callback, Known

\* What waits, waits at work or behind an entry.
LEMMA HoldsBy ==
    ASSUME Inv, BoundsAssumption
    PROVE  /\ \A w \in work : Holds(w.at, w.then) /\ Known(w.at, w.then) /\ w.at \in Peer
           /\ \A x, y \in Peer : \A e \in pending[x][y] : Holds(x, e.then) /\ Known(x, e.then)
<1>1. ASSUME NEW w \in work
      PROVE  Holds(w.at, w.then) /\ Known(w.at, w.then) /\ w.at \in Peer
  <2>1. w.at \in Peer
    BY Counts DEF Counted, Request
  <2>2. Holds(w.at, w.then)
    BY DEF Holds
  <2> QED
    BY <2>1, <2>2, Knows
<1>2. ASSUME NEW x \in Peer, NEW y \in Peer, NEW e \in pending[x][y]
      PROVE  Holds(x, e.then) /\ Known(x, e.then)
  <2>1. Holds(x, e.then)
    BY DEF Holds
  <2> QED
    BY <2>1, Knows
<1> QED
  BY <1>1, <1>2

-----------------------------------------------------------------------------
(* A call goes on.                                                         *)

\* What is sent is there, and what was there still is.
Gained(p, to, c, then, b) ==
    /\ \A x, y \in Peer :
         /\ pending[x][y] \subseteq pending'[x][y]
         /\ \A e \in pending'[x][y] : e \notin pending[x][y] =>
              x = p /\ y \in to /\ Asks(then[y]) /\ e = NewEntry(then, x, y)
         /\ \A n \in DOMAIN b[x][y] : n \in DOMAIN chan'[x][y] /\ chan'[x][y][n] = b[x][y][n]
         /\ \A n \in DOMAIN chan'[x][y] :
              \/ n \in DOMAIN b[x][y]
              \/ x = p /\ y \in to /\ <<x, y>> \in up /\ n = Len(b[x][y]) + 1
                 /\ chan'[x][y][n] = NewMessage(c, then, x, y)
    /\ \A y \in to : /\ Asks(then[y]) => NewEntry(then, p, y) \in pending'[p][y]
                     /\ <<p, y>> \in up => NewMessage(c, then, p, y) \in Messages(p, y)'
                     /\ <<p, y>> \notin up => c \in lost'
    /\ lost \subseteq lost'

LEMMA SentGains ==
    ASSUME Inv, BoundsAssumption, NEW p \in Peer, NEW to, to \subseteq Peer, NEW c \in Call, NEW then,
           \A y \in to : Asks(then[y]) => then[y] \in Then,
           NEW b, Within(b), Sent(p, to, c, then, b)
    PROVE  Gained(p, to, c, then, b)
<1>1. Typed /\ Counted
  BY Counts DEF Inv
<1>2. Sending(p, to, c, then, b)
  BY <1>1, SentNews
<1>3. \A x, y \in Peer : pending'[x][y] = PendingAfter(p, to, then, x, y)
  BY <1>1, SentPending
<1>4. \A x, y \in Peer : chan'[x][y] = ChanAfter(p, to, c, then, b, x, y)
  BY <1>1, SentChan
<1>5. lost \subseteq lost' /\ \A y \in to : <<p, y>> \notin up => c \in lost'
  BY DEF Sent
<1>6. ASSUME NEW x \in Peer, NEW y \in Peer
      PROVE  /\ pending[x][y] \subseteq pending'[x][y]
             /\ \A e \in pending'[x][y] : e \notin pending[x][y] =>
                  x = p /\ y \in to /\ Asks(then[y]) /\ e = NewEntry(then, x, y)
             /\ Asking(p, to, then, x, y) => NewEntry(then, x, y) \in pending'[x][y]
  <2>1. \A e \in pending[x][y] : e.id # lastId[x][y] + 1
    BY <1>1 DEF Counted
  <2>2. pending'[x][y] = PendingAfter(p, to, then, x, y)
    BY <1>3
  <2> QED
    BY <2>1, <2>2 DEF PendingAfter, Asking
<1>7. ASSUME NEW x \in Peer, NEW y \in Peer
      PROVE  /\ \A n \in DOMAIN b[x][y] : n \in DOMAIN chan'[x][y] /\ chan'[x][y][n] = b[x][y][n]
             /\ \A n \in DOMAIN chan'[x][y] :
                  \/ n \in DOMAIN b[x][y]
                  \/ x = p /\ y \in to /\ <<x, y>> \in up /\ n = Len(b[x][y]) + 1
                     /\ chan'[x][y][n] = NewMessage(c, then, x, y)
             /\ x = p /\ y \in to /\ <<x, y>> \in up => NewMessage(c, then, x, y) \in Messages(x, y)'
  <2>1. b[x][y] \in Seq(Message) /\ chan'[x][y] \in Seq(Message)
    BY <1>2 DEF Within, Sending
  <2>2. CASE x = p /\ y \in to /\ <<x, y>> \in up
    <3>1. PICK m : m = NewMessage(c, then, x, y)
      OBVIOUS
    <3>2. chan'[x][y] = Append(b[x][y], m)
      BY <2>2, <3>1, <1>4 DEF ChanAfter
    <3>3. /\ DOMAIN b[x][y] = 1 .. Len(b[x][y]) /\ Len(b[x][y]) \in Nat
          /\ DOMAIN chan'[x][y] = 1 .. Len(b[x][y]) + 1
          /\ \A i \in 1 .. Len(b[x][y]) : chan'[x][y][i] = b[x][y][i]
          /\ chan'[x][y][Len(b[x][y]) + 1] = m
      BY <2>1, <3>2
    <3>4. m \in Messages(x, y)'
      <4>1. PICK n : n = Len(b[x][y]) + 1
        OBVIOUS
      <4>2. n \in DOMAIN chan'[x][y] /\ chan'[x][y][n] = m
        BY <4>1, <3>3
      <4> QED
        BY <4>2 DEF Messages
    <3>5. \A n \in DOMAIN b[x][y] : n \in DOMAIN chan'[x][y] /\ chan'[x][y][n] = b[x][y][n]
      BY <3>3
    <3>6. \A n \in DOMAIN chan'[x][y] : n \in DOMAIN b[x][y] \/ (n = Len(b[x][y]) + 1 /\ chan'[x][y][n] = m)
      BY <3>3
    <3> QED
      BY <2>2, <3>1, <3>4, <3>5, <3>6
  <2>3. CASE ~(x = p /\ y \in to /\ <<x, y>> \in up)
    <3>1. chan'[x][y] = b[x][y]
      BY <2>3, <1>4 DEF ChanAfter
    <3> QED
      BY <2>3, <3>1
  <2> QED
    BY <2>2, <2>3
<1>8. ASSUME NEW y \in to
      PROVE  /\ Asks(then[y]) => NewEntry(then, p, y) \in pending'[p][y]
             /\ <<p, y>> \in up => NewMessage(c, then, p, y) \in Messages(p, y)'
  <2>1. y \in Peer
    OBVIOUS
  <2> QED
    BY <2>1, <1>6, <1>7 DEF Asking
<1> QED
  BY <1>5, <1>6, <1>7, <1>8 DEF Gained

\* Nothing is sent.
LEMMA UnsentGains ==
    ASSUME NEW p \in Peer, NEW c, NEW then, NEW b, chan' = b, UNCHANGED requests
    PROVE  Gained(p, {}, c, then, b)
  BY DEF Gained, requests

\* Nothing else at p, nor on its way there or back, has the number of t.
Fresh(p, t, b) ==
    /\ Unheld(p, t.peer, t.era, t.id)
    /\ \A n \in DOMAIN b[t.peer][p] : ~(b[t.peer][p][n].era = t.era /\ b[t.peer][p][n].id = t.id)
    /\ t.era = era[t.peer][p] => \A a \in Replies(t.peer, p) : a.id # t.id

\* The callbacks that p leaves: one for a peer is the only one.
Handing(p, to, c, then, b, ran) ==
    \A y \in Having(p, to, ran) :
      /\ then[y].call = c /\ (Asks(then[y]) => then[y] \in Then)
      /\ then[y].to = "peer" => /\ Fresh(p, then[y], b) /\ Root(p, then[y])
                                /\ \A z \in Having(p, to, ran) : z = y

\* What p has read it handles, or sends on, with a callback to where it came from.
Taking(p, to, c, then, b, ran) ==
    \A x, y \in Peer : \A m \in Messages(x, y) :
      \/ \E n \in DOMAIN b[x][y] : b[x][y][n] = m
      \/ /\ y = p /\ m.call = c /\ Having(p, to, ran) # {}
         /\ p \in calls[c].to => ran
         /\ \A z \in Having(p, to, ran) : then[z] = BackTo(m, x)

\* If the call is new, everyone it is for has it.
Beginning(p, to, c, then, ran) ==
    /\ \A d \in DOMAIN calls' : d \in DOMAIN calls \/ d = c
    /\ \A d \in DOMAIN calls : batch'[d] = batch[d]
    /\ c \notin DOMAIN calls =>
         /\ calls'[c].to \subseteq Having(p, to, ran)
         /\ calls'[c].kind = "all" => calls'[c].to # {}
         /\ calls'[c].kind \in {"lead", "host"} => calls'[c].to = {}
         /\ \A r \in batch'[c] : r.remaining = calls'[c].to
         /\ calls'[c].reply =>
              /\ calls'[c].by = p
              /\ Many(c)' => /\ batch'[c] # {}
                             /\ \A y \in Having(p, to, ran) : then[y] = ToBatch(c, y)
              /\ ~Many(c)' => /\ Having(p, to, ran) # {}
                              /\ \A y \in Having(p, to, ran) : then[y] = ToCaller(c)

Onward(p, to, c, then, b, ran) ==
    /\ Grown /\ UNCHANGED <<links, back, answers>> /\ c \in Call
    /\ to \subseteq peers[p] /\ Within(b)
    /\ Gained(p, to, c, then, b)
    /\ work' = work \cup (IF ran /\ Asks(then[p]) THEN {[at |-> p, then |-> then[p]]} ELSE {})
    /\ \A d \in Call, y \in Peer :
         handled'[d][y] = IF ran /\ d = c /\ y = p THEN handled[d][y] + 1 ELSE handled[d][y]
    /\ Handing(p, to, c, then, b, ran)
    /\ Taking(p, to, c, then, b, ran)
    /\ Beginning(p, to, c, then, ran)

\* What is left of a channel was there.
LEMMA WithinMessages ==
    ASSUME NEW b, Within(b), NEW x \in Peer, NEW y \in Peer, NEW n \in DOMAIN b[x][y]
    PROVE  b[x][y][n] \in Messages(x, y)
<1>1. PICK k \in {0, 1} : \A i \in DOMAIN b[x][y] : i + k \in DOMAIN chan[x][y] /\ b[x][y][i] = chan[x][y][i + k]
  BY DEF Within
<1>2. n + k \in DOMAIN chan[x][y] /\ b[x][y][n] = chan[x][y][n + k]
  BY <1>1
<1> QED
  BY <1>2 DEF Messages

\* Numbers are as unique in what is left.
LEMMA WithinOne ==
    ASSUME NEW b, Within(b), OneMessage, NEW x \in Peer, NEW y \in Peer,
           NEW k \in DOMAIN b[x][y], NEW l \in DOMAIN b[x][y],
           b[x][y][k].id # 0, b[x][y][k].id = b[x][y][l].id, b[x][y][k].era = b[x][y][l].era
    PROVE  k = l
<1>1. PICK j \in {0, 1} : \A i \in DOMAIN b[x][y] : i + j \in DOMAIN chan[x][y] /\ b[x][y][i] = chan[x][y][i + j]
  BY DEF Within
<1>2. /\ k + j \in DOMAIN chan[x][y] /\ b[x][y][k] = chan[x][y][k + j]
      /\ l + j \in DOMAIN chan[x][y] /\ b[x][y][l] = chan[x][y][l + j]
  BY <1>1
<1>3. k + j = l + j
  BY <1>2 DEF OneMessage
<1>4. k \in Nat /\ l \in Nat
  <2>1. b[x][y] \in Seq(Message)
    BY DEF Within
  <2> QED
    BY <2>1, LenProperties
<1> QED
  BY <1>3, <1>4

\* What p holds afterwards.
HoldingAfter(p, to, then, ran) ==
    /\ \A w \in work' : w \notin work => /\ ran /\ p \in Having(p, to, ran) /\ Asks(then[p])
                                         /\ w.at = p /\ w.then = then[p]
    /\ \A w, v \in work' : w \notin work /\ v \notin work => w = v
    /\ \A x, y \in Peer : \A e \in pending'[x][y] : e \notin pending[x][y] =>
         /\ x = p /\ y # p /\ y \in to /\ y \in Having(p, to, ran)
         /\ e.id = lastId[x][y] + 1 /\ e.era = era[x][y] /\ e.then = then[y] /\ e = NewEntry(then, x, y)

LEMMA HeldAfter ==
    ASSUME Inv, BoundsAssumption, NEW p \in Peer, NEW to, NEW c, NEW then, NEW b, NEW ran \in BOOLEAN,
           Onward(p, to, c, then, b, ran)
    PROVE  HoldingAfter(p, to, then, ran)
<1>1. Counted /\ Gained(p, to, c, then, b) /\ to \subseteq peers[p]
  BY Counts DEF Onward
<1>2. /\ \A w \in work' : w \notin work => ran /\ Asks(then[p]) /\ w = [at |-> p, then |-> then[p]]
  BY DEF Onward
<1>3. ASSUME NEW x \in Peer, NEW y \in Peer, NEW e \in pending'[x][y], e \notin pending[x][y]
      PROVE  /\ x = p /\ y # p /\ y \in to /\ y \in Having(p, to, ran)
             /\ e.id = lastId[x][y] + 1 /\ e.era = era[x][y] /\ e.then = then[y] /\ e = NewEntry(then, x, y)
  <2>1. x = p /\ y \in to /\ e = NewEntry(then, x, y)
    BY <1>1, <1>3 DEF Gained
  <2>2. y # p
    BY <1>1, <2>1 DEF Counted
  <2> QED
    BY <2>1, <2>2 DEF NewEntry, Having
<1> QED
  BY <1>2, <1>3 DEF HoldingAfter, Having

LEMMA UnheldAfter ==
    ASSUME NEW p \in Peer, NEW to, NEW then, NEW ran \in BOOLEAN, HoldingAfter(p, to, then, ran),
           NEW x \in Peer, NEW u, NEW n, NEW i, Unheld(x, u, n, i),
           x = p => \A y \in Having(p, to, ran) : ~Keyed(then[y], u, n, i)
    PROVE  Unheld(x, u, n, i)'
<1>1. ASSUME NEW w \in work', w.at = x
      PROVE  ~Keyed(w.then, u, n, i)
  <2>1. CASE w \in work
    BY <1>1, <2>1 DEF Unheld
  <2>2. CASE w \notin work
    BY <1>1, <2>2 DEF HoldingAfter
  <2> QED
    BY <2>1, <2>2
<1>2. ASSUME NEW y \in Peer, NEW e \in pending'[x][y]
      PROVE  ~Keyed(e.then, u, n, i)
  <2>1. CASE e \in pending[x][y]
    BY <2>1 DEF Unheld
  <2>2. CASE e \notin pending[x][y]
    BY <2>2 DEF HoldingAfter
  <2> QED
    BY <2>1, <2>2
<1> QED
  BY <1>1, <1>2 DEF Unheld, Keyed

\* Numbers that have not been given out are held nowhere.
LEMMA UnheldBeyond ==
    ASSUME Inv, BoundsAssumption, NEW x \in Peer, NEW u \in Peer, NEW n, n = era[u][x],
           NEW i \in Nat, i > lastId[u][x]
    PROVE  Unheld(x, u, n, i)
<1>1. lastId[u][x] \in Nat
  BY Counts DEF Counted
<1>2. ASSUME NEW t, Known(x, t)
      PROVE  ~Keyed(t, u, n, i)
  BY <1>1, <1>2 DEF Known, Keyed, Numbered
<1> QED
  BY <1>2, HoldsBy DEF Unheld

\* A message that was not there is the one that p wrote.
LEMMA GainedMessage ==
    ASSUME NEW p \in Peer, NEW to, NEW c, NEW then, NEW b, Gained(p, to, c, then, b),
           NEW x \in Peer, NEW y \in Peer, NEW n \in DOMAIN chan'[x][y]
    PROVE  IF n \in DOMAIN b[x][y] THEN chan'[x][y][n] = b[x][y][n]
           ELSE /\ x = p /\ y \in to /\ <<x, y>> \in up /\ n = Len(b[x][y]) + 1
                /\ chan'[x][y][n] = NewMessage(c, then, x, y)
<1>1. /\ \A k \in DOMAIN b[x][y] : k \in DOMAIN chan'[x][y] /\ chan'[x][y][k] = b[x][y][k]
      /\ \A k \in DOMAIN chan'[x][y] :
           \/ k \in DOMAIN b[x][y]
           \/ x = p /\ y \in to /\ <<x, y>> \in up /\ k = Len(b[x][y]) + 1
              /\ chan'[x][y][k] = NewMessage(c, then, x, y)
  BY Zenon DEF Gained
<1> QED
  BY <1>1, Zenon

LEMMA OnwardMessages ==
    ASSUME Inv, BoundsAssumption, OneMessage, NEW p \in Peer, NEW to, NEW c, NEW then, NEW b,
           NEW ran \in BOOLEAN, Onward(p, to, c, then, b, ran)
    PROVE  OneMessage'
<1>1. Counted /\ Gained(p, to, c, then, b) /\ Within(b)
  BY Counts DEF Onward
<1> SUFFICES ASSUME NEW x \in Peer, NEW y \in Peer, NEW k \in DOMAIN chan'[x][y], NEW l \in DOMAIN chan'[x][y],
                    chan'[x][y][k].id # 0, chan'[x][y][k].id = chan'[x][y][l].id,
                    chan'[x][y][k].era = chan'[x][y][l].era
             PROVE  k = l
  BY DEF OneMessage
<1>2. lastId[x][y] \in Nat /\ era[x][y] \in Nat
  BY <1>1 DEF Counted
<1>3. ASSUME NEW n \in DOMAIN chan'[x][y]
      PROVE  /\ n \in DOMAIN b[x][y] => /\ chan'[x][y][n] = b[x][y][n]
                                        /\ \/ chan'[x][y][n].era # era[x][y]
                                           \/ chan'[x][y][n].id <= lastId[x][y] /\ chan'[x][y][n].id \in Nat
             /\ n \notin DOMAIN b[x][y] => /\ n = Len(b[x][y]) + 1 /\ chan'[x][y][n].era = era[x][y]
                                           /\ \/ chan'[x][y][n].id = 0
                                              \/ chan'[x][y][n].id = lastId[x][y] + 1
  <2>1. CASE n \in DOMAIN b[x][y]
    <3>1. chan'[x][y][n] = b[x][y][n]
      BY <2>1, <1>1 DEF Gained
    <3>2. b[x][y][n] \in Messages(x, y)
      BY <2>1, <1>1, WithinMessages
    <3>3. b[x][y][n].id \in Nat /\ Numbered(x, y, b[x][y][n].era, b[x][y][n].id)
      BY <3>2, <1>1 DEF Counted
    <3> QED
      BY <2>1, <3>1, <3>3 DEF Numbered
  <2>2. CASE n \notin DOMAIN b[x][y]
    <3>1. n = Len(b[x][y]) + 1 /\ chan'[x][y][n] = NewMessage(c, then, x, y)
      <4>1. IF n \in DOMAIN b[x][y] THEN chan'[x][y][n] = b[x][y][n]
            ELSE /\ x = p /\ y \in to /\ <<x, y>> \in up /\ n = Len(b[x][y]) + 1
                 /\ chan'[x][y][n] = NewMessage(c, then, x, y)
        BY <1>1, GainedMessage
      <4> QED
        BY <4>1, <2>2
    <3> QED
      BY <2>2, <3>1 DEF NewMessage
  <2> QED
    BY <2>1, <2>2
<1>4. CASE k \in DOMAIN b[x][y] /\ l \in DOMAIN b[x][y]
  <2>1. b[x][y][k].id # 0 /\ b[x][y][k].id = b[x][y][l].id /\ b[x][y][k].era = b[x][y][l].era
    BY <1>3, <1>4
  <2> QED
    BY <2>1, <1>1, <1>4, WithinOne
<1>5. CASE k \notin DOMAIN b[x][y] /\ l \notin DOMAIN b[x][y]
  BY <1>3, <1>5
<1>6. CASE k \in DOMAIN b[x][y] /\ l \notin DOMAIN b[x][y]
  <2>1. chan'[x][y][l].id = lastId[x][y] + 1 /\ chan'[x][y][l].era = era[x][y]
    BY <1>3, <1>6
  <2>2. chan'[x][y][k].era # era[x][y] \/ (chan'[x][y][k].id <= lastId[x][y] /\ chan'[x][y][k].id \in Nat)
    BY <1>3, <1>6
  <2> QED
    BY <2>1, <2>2, <1>2
<1>7. CASE k \notin DOMAIN b[x][y] /\ l \in DOMAIN b[x][y]
  <2>1. chan'[x][y][k].id = lastId[x][y] + 1 /\ chan'[x][y][k].era = era[x][y]
    BY <1>3, <1>7
  <2>2. chan'[x][y][l].era # era[x][y] \/ (chan'[x][y][l].id <= lastId[x][y] /\ chan'[x][y][l].id \in Nat)
    BY <1>3, <1>7
  <2> QED
    BY <2>1, <2>2, <1>2
<1> QED
  BY <1>4, <1>5, <1>6, <1>7

LEMMA OnwardEntries ==
    ASSUME Inv, BoundsAssumption, OneEntry, NEW p \in Peer, NEW to, NEW c, NEW then, NEW b,
           NEW ran \in BOOLEAN, Onward(p, to, c, then, b, ran)
    PROVE  OneEntry'
<1>1. Counted /\ HoldingAfter(p, to, then, ran)
  BY Counts, HeldAfter
<1> SUFFICES ASSUME NEW x \in Peer, NEW y \in Peer, NEW e \in pending'[x][y], NEW f \in pending'[x][y], e.id = f.id
             PROVE  e = f
  BY DEF OneEntry
<1>2. lastId[x][y] \in Nat
  BY <1>1 DEF Counted
<1>3. ASSUME NEW g \in pending'[x][y]
      PROVE  IF g \in pending[x][y] THEN g.id <= lastId[x][y] /\ g.id \in Nat
             ELSE g.id = lastId[x][y] + 1 /\ g = NewEntry(then, x, y)
  BY <1>1 DEF Counted, HoldingAfter
<1>4. CASE e \in pending[x][y] /\ f \in pending[x][y]
  BY <1>4 DEF OneEntry
<1>5. CASE e \notin pending[x][y] /\ f \notin pending[x][y]
  BY <1>3, <1>5
<1>6. CASE e \in pending[x][y] /\ f \notin pending[x][y]
  BY <1>2, <1>3, <1>6
<1>7. CASE e \notin pending[x][y] /\ f \in pending[x][y]
  BY <1>2, <1>3, <1>7
<1> QED
  BY <1>4, <1>5, <1>6, <1>7

LEMMA OnwardAlone ==
    ASSUME Inv, BoundsAssumption, MessageAlone, NEW p \in Peer, NEW to, NEW c, NEW then, NEW b,
           NEW ran \in BOOLEAN, Onward(p, to, c, then, b, ran)
    PROVE  MessageAlone'
<1>1. /\ Counted /\ HoldingAfter(p, to, then, ran) /\ Gained(p, to, c, then, b) /\ Within(b)
      /\ Handing(p, to, c, then, b, ran) /\ to \subseteq peers[p]
      /\ era' = era /\ back' = back
  BY Counts, HeldAfter DEF Onward, links
<1> SUFFICES ASSUME NEW x \in Peer, NEW y \in Peer, NEW m \in Messages(x, y)', m.id # 0
             PROVE  /\ Unheld(y, x, m.era, m.id)'
                    /\ m.era = era[x][y] => \A a \in Replies(x, y) : a.id # m.id
  BY <1>1 DEF MessageAlone, Replies
<1>2. PICK n \in DOMAIN chan'[x][y] : m = chan'[x][y][n]
  BY DEF Messages
<1>3. CASE n \in DOMAIN b[x][y]
  <2>1. m = b[x][y][n]
    BY <1>1, <1>2, <1>3 DEF Gained
  <2>2. m \in Messages(x, y)
    BY <2>1, <1>1, <1>3, WithinMessages
  <2>3. /\ Unheld(y, x, m.era, m.id)
        /\ m.era = era[x][y] => \A a \in Replies(x, y) : a.id # m.id
    BY <2>2 DEF MessageAlone
  <2>4. ASSUME y = p, NEW z \in Having(p, to, ran), Keyed(then[z], x, m.era, m.id)
        PROVE  FALSE
    <3>1. then[z].to = "peer" /\ then[z].peer = x /\ then[z].era = m.era /\ then[z].id = m.id
      BY <2>4 DEF Keyed
    <3>2. Fresh(p, then[z], b)
      BY <3>1, <1>1 DEF Handing
    <3>3. \A k \in DOMAIN b[x][p] : ~(b[x][p][k].era = m.era /\ b[x][p][k].id = m.id)
      BY <3>1, <3>2 DEF Fresh
    <3> QED
      BY <3>3, <2>1, <2>4, <1>3
  <2>5. Unheld(y, x, m.era, m.id)'
    BY <2>3, <2>4, <1>1, UnheldAfter
  <2> QED
    BY <2>3, <2>5
<1>4. CASE n \notin DOMAIN b[x][y]
  <2>1. x = p /\ y \in to /\ m = NewMessage(c, then, x, y)
    <3>1. IF n \in DOMAIN b[x][y] THEN chan'[x][y][n] = b[x][y][n]
          ELSE /\ x = p /\ y \in to /\ <<x, y>> \in up /\ n = Len(b[x][y]) + 1
               /\ chan'[x][y][n] = NewMessage(c, then, x, y)
      BY <1>1, GainedMessage
    <3> QED
      BY <3>1, <1>2, <1>4
  <2>2. m.era = era[x][y] /\ m.id = lastId[x][y] + 1
    BY <2>1 DEF NewMessage
  <2>3. lastId[x][y] \in Nat /\ m.id \in Nat /\ m.id > lastId[x][y] /\ y # p
    BY <1>1, <2>1, <2>2 DEF Counted
  <2>4. Unheld(y, x, m.era, m.id)
    BY <2>2, <2>3, UnheldBeyond
  <2>5. Unheld(y, x, m.era, m.id)'
    BY <2>3, <2>4, <1>1, UnheldAfter
  <2>6. \A a \in Replies(x, y) : a.id # m.id
    BY <1>1, <2>3 DEF Counted
  <2> QED
    BY <2>5, <2>6
<1> QED
  BY <1>3, <1>4

LEMMA OnwardReplies ==
    ASSUME Inv, BoundsAssumption, ReplyAlone, NEW p \in Peer, NEW to, NEW c, NEW then, NEW b,
           NEW ran \in BOOLEAN, Onward(p, to, c, then, b, ran)
    PROVE  ReplyAlone'
<1>1. /\ HoldingAfter(p, to, then, ran) /\ Handing(p, to, c, then, b, ran) /\ era' = era /\ back' = back
  BY HeldAfter DEF Onward, links
<1> SUFFICES ASSUME NEW x \in Peer, NEW y \in Peer, NEW a \in Replies(x, y), NEW n \in Nat, n = era[x][y]
             PROVE  Unheld(y, x, n, a.id)'
  BY <1>1 DEF ReplyAlone, Replies
<1>2. Unheld(y, x, n, a.id)
  BY DEF ReplyAlone
<1>3. ASSUME y = p, NEW z \in Having(p, to, ran), Keyed(then[z], x, n, a.id)
      PROVE  FALSE
  <2>1. then[z].to = "peer" /\ then[z].peer = x /\ then[z].era = n /\ then[z].id = a.id
    BY <1>3 DEF Keyed
  <2>2. Fresh(p, then[z], b)
    BY <2>1, <1>1 DEF Handing
  <2>3. \A d \in Replies(x, p) : d.id # a.id
    BY <2>1, <2>2, <1>3 DEF Fresh
  <2> QED
    BY <2>3, <1>3
<1> QED
  BY <1>1, <1>2, <1>3, UnheldAfter

LEMMA OnwardHolders ==
    ASSUME Inv, BoundsAssumption, OneHolder, NEW p \in Peer, NEW to, NEW c, NEW then, NEW b,
           NEW ran \in BOOLEAN, Onward(p, to, c, then, b, ran)
    PROVE  OneHolder'
<1>1. HoldingAfter(p, to, then, ran) /\ Handing(p, to, c, then, b, ran) /\ \A w \in work : w.at \in Peer
  BY HeldAfter, HoldsBy DEF Onward
\* A new callback is like no old one at p.
<1>2. ASSUME NEW y \in Having(p, to, ran), then[y].to = "peer"
      PROVE  /\ \A w \in work : w.at = p => ~SameKey(then[y], w.then) /\ ~SameKey(w.then, then[y])
             /\ \A z \in Peer : \A e \in pending[p][z] : ~SameKey(then[y], e.then) /\ ~SameKey(e.then, then[y])
             /\ \A z \in Having(p, to, ran) : z = y
  <2>1. Unheld(p, then[y].peer, then[y].era, then[y].id) /\ \A z \in Having(p, to, ran) : z = y
    BY <1>1, <1>2 DEF Handing, Fresh
  <2>2. ASSUME NEW t, ~Keyed(t, then[y].peer, then[y].era, then[y].id)
        PROVE  ~SameKey(then[y], t) /\ ~SameKey(t, then[y])
    BY <2>2 DEF SameKey, Keyed
  <2> QED
    BY <2>1, <2>2 DEF Unheld
<1>3. \A t, u : SameKey(t, u) => t.to = "peer" /\ u.to = "peer"
  BY DEF SameKey, Keyed
<1>4. ASSUME NEW w \in work', NEW v \in work', w.at = v.at, SameKey(w.then, v.then)
      PROVE  w = v
  <2>1. CASE w \in work /\ v \in work
    BY <2>1, <1>4 DEF OneHolder
  <2>2. CASE w \notin work /\ v \notin work
    BY <2>2, <1>1 DEF HoldingAfter
  <2>3. CASE w \notin work /\ v \in work
    <3>1. w.at = p /\ w.then = then[p] /\ p \in Having(p, to, ran)
      BY <2>3, <1>1 DEF HoldingAfter
    <3> QED
      BY <3>1, <2>3, <1>2, <1>3, <1>4
  <2>4. CASE w \in work /\ v \notin work
    <3>1. v.at = p /\ v.then = then[p] /\ p \in Having(p, to, ran)
      BY <2>4, <1>1 DEF HoldingAfter
    <3> QED
      BY <3>1, <2>4, <1>2, <1>3, <1>4
  <2> QED
    BY <2>1, <2>2, <2>3, <2>4
<1>5. ASSUME NEW w \in work', NEW y \in Peer, NEW e \in pending'[w.at][y], SameKey(w.then, e.then)
      PROVE  FALSE
  <2>1. w.at \in Peer
    BY <1>1 DEF HoldingAfter
  <2>2. CASE w \in work /\ e \in pending[w.at][y]
    BY <2>2, <1>5 DEF OneHolder
  <2>3. CASE w \notin work /\ e \in pending[w.at][y]
    <3>1. w.at = p /\ w.then = then[p] /\ p \in Having(p, to, ran)
      BY <2>3, <1>1 DEF HoldingAfter
    <3> QED
      BY <3>1, <2>3, <1>2, <1>3, <1>5
  <2>4. CASE e \notin pending[w.at][y]
    <3>1. w.at = p /\ y # p /\ y \in Having(p, to, ran) /\ e.then = then[y]
      BY <2>1, <2>4, <1>1 DEF HoldingAfter
    <3>2. then[y].to = "peer"
      BY <3>1, <1>3, <1>5
    <3>3. CASE w \in work
      BY <3>1, <3>2, <3>3, <1>2, <1>5
    <3>4. CASE w \notin work
      <4>1. p \in Having(p, to, ran)
        BY <3>4, <1>1 DEF HoldingAfter
      <4> QED
        BY <4>1, <3>1, <3>2, <1>2
    <3> QED
      BY <3>3, <3>4
  <2> QED
    BY <2>2, <2>3, <2>4
<1>6. ASSUME NEW x \in Peer, NEW y \in Peer, NEW z \in Peer, NEW e \in pending'[x][y], NEW f \in pending'[x][z],
             SameKey(e.then, f.then)
      PROVE  y = z /\ e = f
  <2>1. CASE e \in pending[x][y] /\ f \in pending[x][z]
    BY <2>1, <1>6 DEF OneHolder
  <2>2. CASE e \notin pending[x][y]
    <3>1. x = p /\ y \in Having(p, to, ran) /\ e.then = then[y] /\ e = NewEntry(then, x, y)
      BY <2>2, <1>1 DEF HoldingAfter
    <3>2. then[y].to = "peer"
      BY <3>1, <1>3, <1>6
    <3>3. f \notin pending[x][z]
      BY <3>1, <3>2, <1>2, <1>6
    <3>4. z \in Having(p, to, ran) /\ f = NewEntry(then, x, z)
      BY <3>3, <1>1 DEF HoldingAfter
    <3> QED
      BY <3>1, <3>2, <3>4, <1>2
  <2>3. CASE e \in pending[x][y] /\ f \notin pending[x][z]
    <3>1. x = p /\ z \in Having(p, to, ran) /\ f.then = then[z]
      BY <2>3, <1>1 DEF HoldingAfter
    <3>2. then[z].to = "peer"
      BY <3>1, <1>3, <1>6
    <3> QED
      BY <3>1, <3>2, <2>3, <1>2, <1>6
  <2> QED
    BY <2>1, <2>2, <2>3
<1> QED
  BY <1>4, <1>5, <1>6 DEF OneHolder, SameKey, Keyed

LEMMA OnwardSingle ==
    ASSUME Inv, BoundsAssumption, Single, NEW p \in Peer, NEW to, NEW c, NEW then, NEW b,
           NEW ran \in BOOLEAN, Onward(p, to, c, then, b, ran)
    PROVE  Single'
<1>1. OneMessage /\ OneReply /\ OneEntry /\ MessageAlone /\ ReplyAlone /\ OneHolder
  BY DEF Single
<1>2. OneReply'
  BY <1>1 DEF Onward, OneReply
<1>3. OneMessage' /\ OneEntry' /\ MessageAlone'
  BY <1>1, OnwardMessages, OnwardEntries, OnwardAlone
<1>4. ReplyAlone' /\ OneHolder'
  BY <1>1, OnwardReplies, OnwardHolders
<1> QED
  BY <1>2, <1>3, <1>4 DEF Single

\* Whoever waits goes on waiting, and those who are asked wait too.
LEMMA OnwardHolds ==
    ASSUME NEW p \in Peer, NEW to, to \subseteq Peer, NEW c, NEW then, NEW b, NEW ran \in BOOLEAN,
           Onward(p, to, c, then, b, ran)
    PROVE  /\ \A x \in Peer : \A t : Holds(x, t) => Holds(x, t)'
           /\ \A z \in Having(p, to, ran) : Asks(then[z]) => Holds(p, then[z])'
<1>1. /\ Gained(p, to, c, then, b)
      /\ work' = work \cup (IF ran /\ Asks(then[p]) THEN {[at |-> p, then |-> then[p]]} ELSE {})
  BY DEF Onward
<1>2. ASSUME NEW x \in Peer, NEW t, Holds(x, t)
      PROVE  Holds(x, t)'
  <2>1. work \subseteq work' /\ \A y \in Peer : pending[x][y] \subseteq pending'[x][y]
    BY <1>1 DEF Gained
  <2> QED
    BY <1>2, <2>1 DEF Holds
<1>3. ASSUME NEW z \in Having(p, to, ran), Asks(then[z])
      PROVE  Holds(p, then[z])'
  <2>1. CASE z \in to
    <3>1. NewEntry(then, p, z) \in pending'[p][z] /\ z \in Peer
      BY <2>1, <1>1, <1>3 DEF Gained
    <3>2. NewEntry(then, p, z).then = then[z]
      BY DEF NewEntry
    <3> QED
      BY <3>1, <3>2 DEF Holds
  <2>2. CASE z \notin to
    <3>1. ran /\ z = p
      BY <2>2, <1>3 DEF Having
    <3>2. PICK w : w = [at |-> p, then |-> then[p]]
      OBVIOUS
    <3>3. w \in work' /\ w.at = p /\ w.then = then[p]
      BY <3>1, <3>2, <1>1, <1>3
    <3> QED
      BY <3>1, <3>3 DEF Holds
  <2> QED
    BY <2>1, <2>2
<1> QED
  BY <1>2, <1>3

LEMMA OnwardRooted ==
    ASSUME Inv, BoundsAssumption, Rooted, NEW p \in Peer, NEW to, to \subseteq Peer, NEW c, NEW then, NEW b,
           NEW ran \in BOOLEAN, Onward(p, to, c, then, b, ran)
    PROVE  Rooted'
<1>1. /\ Counted /\ HoldingAfter(p, to, then, ran) /\ Gained(p, to, c, then, b) /\ Within(b)
      /\ Handing(p, to, c, then, b, ran) /\ to \subseteq peers[p] /\ era' = era /\ lost \subseteq lost'
  BY Counts, HeldAfter DEF Onward, links, Gained
<1>2. ASSUME NEW x \in Peer, NEW y \in Peer, NEW n, NEW i, NEW d, Entered(x, y, n, i, d)
      PROVE  Entered(x, y, n, i, d)'
  <2>1. pending[x][y] \subseteq pending'[x][y]
    BY <1>1 DEF Gained
  <2> QED
    BY <1>1, <1>2, <2>1 DEF Entered
<1>3. ASSUME NEW x \in Peer, NEW t, t \in Then, Root(x, t)
      PROVE  Root(x, t)'
  <2>1. t.to = "peer" => t.peer \in Peer
    BY <1>3, ThenShape
  <2> QED
    BY <1>1, <1>2, <1>3, <2>1 DEF Root
<1>4. ASSUME NEW z \in Having(p, to, ran), Asks(then[z])
      PROVE  Root(p, then[z]) /\ then[z] \in Then
  BY <1>1, <1>4 DEF Handing, Root
<1>5. ASSUME NEW x \in Peer, NEW y \in Peer, NEW m \in Messages(x, y)', m.id # 0, m.call \notin lost'
      PROVE  Entered(x, y, m.era, m.id, m.call)'
  <2>1. PICK n \in DOMAIN chan'[x][y] : m = chan'[x][y][n]
    BY DEF Messages
  <2>2. IF n \in DOMAIN b[x][y] THEN chan'[x][y][n] = b[x][y][n]
        ELSE /\ x = p /\ y \in to /\ <<x, y>> \in up /\ n = Len(b[x][y]) + 1
             /\ chan'[x][y][n] = NewMessage(c, then, x, y)
    BY <1>1, GainedMessage
  <2>3. CASE n \in DOMAIN b[x][y]
    <3>1. m \in Messages(x, y)
      BY <2>1, <2>2, <2>3, <1>1, WithinMessages
    <3>2. Entered(x, y, m.era, m.id, m.call)
      BY <3>1, <1>1, <1>5 DEF Rooted
    <3> QED
      BY <3>2, <1>2
  <2>4. CASE n \notin DOMAIN b[x][y]
    <3>1. x = p /\ y \in to /\ m = NewMessage(c, then, p, y)
      BY <2>1, <2>2, <2>4
    <3>2. m.call = c /\ m.era = era[p][y] /\ m.id = lastId[p][y] + 1 /\ Asks(then[y])
      BY <3>1, <1>5 DEF NewMessage
    <3>3. NewEntry(then, p, y) \in pending'[p][y]
      BY <3>1, <3>2, <1>1 DEF Gained
    <3>4. NewEntry(then, p, y).id = m.id /\ NewEntry(then, p, y).then = then[y]
      BY <3>2 DEF NewEntry
    <3>5. then[y].call = c
      BY <3>1, <1>1 DEF Handing, Having
    <3> QED
      BY <3>1, <3>2, <3>3, <3>4, <3>5, <1>1 DEF Entered
  <2> QED
    BY <2>3, <2>4
<1>6. ASSUME NEW w \in work'
      PROVE  Root(w.at, w.then)'
  <2>1. CASE w \in work
    <3>1. w.at \in Peer /\ w.then \in Then /\ Root(w.at, w.then)
      BY <2>1, HoldsBy DEF Rooted, Known
    <3> QED
      BY <3>1, <1>3
  <2>2. CASE w \notin work
    <3>1. w.at = p /\ w.then = then[p] /\ p \in Having(p, to, ran) /\ Asks(then[p])
      BY <2>2, <1>1 DEF HoldingAfter
    <3>2. Root(p, w.then) /\ w.then \in Then
      BY <3>1, <1>4
    <3>3. Root(p, w.then)'
      BY <3>2, <1>3
    <3> QED
      BY <3>1, <3>3
  <2> QED
    BY <2>1, <2>2
<1>7. ASSUME NEW x \in Peer, NEW y \in Peer, NEW e \in pending'[x][y]
      PROVE  Root(x, e.then)'
  <2>1. CASE e \in pending[x][y]
    <3>1. e.then \in Then /\ Root(x, e.then)
      BY <2>1, <1>1 DEF Rooted, Counted
    <3> QED
      BY <3>1, <1>3
  <2>2. CASE e \notin pending[x][y]
    <3>1. x = p /\ y \in Having(p, to, ran) /\ e.then = then[y]
      BY <2>2, <1>1 DEF HoldingAfter
    <3>2. Asks(then[y])
      BY <2>2, <1>1 DEF Gained
    <3>3. Root(p, e.then) /\ e.then \in Then
      BY <3>1, <3>2, <1>4
    <3>4. Root(p, e.then)'
      BY <3>3, <1>3
    <3> QED
      BY <3>1, <3>4
  <2> QED
    BY <2>1, <2>2
<1> QED
  BY <1>5, <1>6, <1>7 DEF Rooted

\* A message that is no longer there was read by p, which left callbacks for it.
LEMMA OnwardTaken ==
    ASSUME NEW p \in Peer, NEW to, NEW c, NEW then, NEW b, NEW ran \in BOOLEAN,
           Onward(p, to, c, then, b, ran), NEW x \in Peer, NEW y \in Peer, NEW m \in Messages(x, y)
    PROVE  \/ m \in Messages(x, y)'
           \/ /\ y = p /\ m.call = c /\ (p \in calls[c].to => ran)
              /\ \E z \in Having(p, to, ran) : then[z] = BackTo(m, x)
<1>1. Taking(p, to, c, then, b, ran) /\ Gained(p, to, c, then, b)
  BY DEF Onward
<1>2. CASE \E n \in DOMAIN b[x][y] : b[x][y][n] = m
  <2>1. PICK n \in DOMAIN b[x][y] : b[x][y][n] = m
    BY <1>2
  <2>2. n \in DOMAIN chan'[x][y] /\ chan'[x][y][n] = m
    BY <1>1, <2>1 DEF Gained
  <2>3. m \in Messages(x, y)'
    BY <2>2 DEF Messages
  <2> QED
    BY <2>3
<1>3. CASE ~\E n \in DOMAIN b[x][y] : b[x][y][n] = m
  BY <1>1, <1>3 DEF Taking
<1> QED
  BY <1>2, <1>3

LEMMA OnwardUnderway ==
    ASSUME Inv, BoundsAssumption, Underway, NEW p \in Peer, NEW to, to \subseteq Peer, NEW c, NEW then, NEW b,
           NEW ran \in BOOLEAN, Onward(p, to, c, then, b, ran)
    PROVE  Underway'
<1>1. /\ Counted /\ HoldingAfter(p, to, then, ran) /\ Gained(p, to, c, then, b)
      /\ Handing(p, to, c, then, b, ran) /\ era' = era /\ up' = up /\ back' = back /\ lost \subseteq lost'
  BY Counts, HeldAfter DEF Onward, links, Gained
<1> SUFFICES ASSUME NEW x \in Peer, NEW y \in Peer, NEW e \in pending'[x][y], e.then.call \notin lost'
             PROVE  e.era = era[x][y] /\ <<x, y>> \in up /\ OnWay(x, y, e)'
  BY <1>1 DEF Underway
<1>2. \A z \in Having(p, to, ran) : Asks(then[z]) => Holds(p, then[z])'
  BY OnwardHolds
<1>3. CASE e \in pending[x][y]
  <2>1. e.era = era[x][y] /\ <<x, y>> \in up /\ OnWay(x, y, e)
    BY <1>1, <1>3 DEF Underway
  <2>2. CASE \E m \in Messages(x, y) : m.era = e.era /\ m.id = e.id
    <3>1. PICK m \in Messages(x, y) : m.era = e.era /\ m.id = e.id
      BY <2>2
    <3>2. CASE m \in Messages(x, y)'
      BY <2>1, <3>1, <3>2 DEF OnWay
    <3>3. CASE m \notin Messages(x, y)'
      <4>1. PICK z \in Having(p, to, ran) : y = p /\ then[z] = BackTo(m, x)
        BY <3>3, OnwardTaken
      <4>2. Linked(x, y, m.era, m.id, m.call) /\ m.id # 0
        BY <3>1, <1>1, <1>3 DEF Counted
      <4>3. m.call = e.then.call
        BY <4>2, <3>1, <2>1, <1>3 DEF Linked
      <4>4. then[z] = ToPeer(e.then.call, x, e.era, e.id)
        BY <4>1, <4>2, <4>3, <3>1 DEF BackTo
      <4>5. Asks(then[z])
        BY <4>4 DEF Asks, ToPeer
      <4>6. Holds(y, then[z])'
        BY <4>1, <4>5, <1>2
      <4>7. Holds(y, ToPeer(e.then.call, x, e.era, e.id))'
        BY <4>4, <4>6
      <4> QED
        BY <2>1, <4>7 DEF OnWay
    <3> QED
      BY <3>2, <3>3
  <2>3. CASE Holds(y, ToPeer(e.then.call, x, e.era, e.id))
    <3>1. \A t : Holds(y, t) => Holds(y, t)'
      BY OnwardHolds
    <3>2. Holds(y, ToPeer(e.then.call, x, e.era, e.id))'
      BY <2>3, <3>1
    <3> QED
      BY <2>1, <3>2 DEF OnWay
  <2>4. CASE \E a \in Replies(x, y) : a.id = e.id
    BY <2>1, <2>4, <1>1 DEF OnWay, Replies
  <2> QED
    BY <2>1, <2>2, <2>3, <2>4 DEF OnWay
<1>4. CASE e \notin pending[x][y]
  <2>6. /\ x = p /\ y \in to /\ e.id = lastId[x][y] + 1 /\ e.era = era[x][y] /\ e.then = then[y]
        /\ y \in Having(p, to, ran)
    BY <1>1, <1>4 DEF HoldingAfter
  <2>7. Asks(then[y])
    BY <1>1, <1>4 DEF Gained
  <2>1. /\ x = p /\ y \in to /\ e.id = lastId[x][y] + 1 /\ e.era = era[x][y] /\ e.then = then[y]
        /\ Asks(then[y]) /\ y \in Having(p, to, ran)
    BY <2>6, <2>7
  <2>2. then[y].call = c
    BY <2>1, <1>1 DEF Handing
  <2>3. <<p, y>> \in up
    BY <2>1, <2>2, <1>1 DEF Gained
  <2>4. NewMessage(c, then, p, y) \in Messages(p, y)'
    BY <2>1, <2>3, <1>1 DEF Gained
  <2>5. NewMessage(c, then, p, y).era = e.era /\ NewMessage(c, then, p, y).id = e.id
    BY <2>1 DEF NewMessage
  <2> QED
    BY <2>1, <2>3, <2>4, <2>5 DEF OnWay
<1> QED
  BY <1>3, <1>4

\* A call that was open before, unless it is new.
LEMMA OnwardOpen ==
    ASSUME NEW p \in Peer, NEW to, NEW c, NEW then, NEW b, NEW ran \in BOOLEAN,
           Onward(p, to, c, then, b, ran), NEW d, Open(d)'
    PROVE  /\ d \in DOMAIN calls => Open(d) /\ calls'[d] = calls[d] /\ (Many(d)' <=> Many(d)) /\ batch'[d] = batch[d]
           /\ d \notin DOMAIN calls => d = c /\ c \notin DOMAIN calls /\ calls'[c].reply
<1>1. /\ Grown /\ answers' = answers /\ lost \subseteq lost' /\ Beginning(p, to, c, then, ran)
  BY DEF Onward, Gained
<1>2. d \in DOMAIN calls' /\ d \notin lost' /\ calls'[d].reply /\ answers'[d] = <<>>
  BY DEF Open
<1>3. CASE d \in DOMAIN calls
  <2>1. calls'[d] = calls[d]
    BY <1>1, <1>3 DEF Grown
  <2>2. (Many(d)' <=> Many(d))
    BY <2>1 DEF Many
  <2> QED
    BY <2>1, <2>2, <1>1, <1>2, <1>3 DEF Open, Beginning
<1>4. CASE d \notin DOMAIN calls
  <2>1. d = c
    BY <1>1, <1>2, <1>4 DEF Beginning
  <2> QED
    BY <2>1, <1>2, <1>4
<1> QED
  BY <1>3, <1>4

LEMMA OnwardExpected ==
    ASSUME Inv, BoundsAssumption, Expected, NEW p \in Peer, NEW to, to \subseteq Peer, NEW c, NEW then, NEW b,
           NEW ran \in BOOLEAN, Onward(p, to, c, then, b, ran)
    PROVE  Expected'
<1>1. Beginning(p, to, c, then, ran)
  BY DEF Onward
<1>2. /\ \A x \in Peer : \A t : Holds(x, t) => Holds(x, t)'
      /\ \A z \in Having(p, to, ran) : Asks(then[z]) => Holds(p, then[z])'
  BY OnwardHolds
<1> SUFFICES ASSUME NEW d \in Call, NEW u \in Peer, Open(d)', calls'[d].by = u
             PROVE  /\ Many(d)' => \E r \in batch'[d] : \A q \in r.remaining : Holds(u, ToBatch(d, q))'
                    /\ ~Many(d)' => Holds(u, ToCaller(d))'
  BY DEF Expected
<1>3. CASE d \in DOMAIN calls
  <2>1. Open(d) /\ calls'[d] = calls[d] /\ (Many(d)' <=> Many(d)) /\ batch'[d] = batch[d]
    BY <1>3, OnwardOpen
  <2>2. calls[d].by = u
    BY <2>1
  <2>3. CASE Many(d)
    <3>1. PICK r \in batch[d] : \A q \in r.remaining : Holds(u, ToBatch(d, q))
      BY <2>1, <2>2, <2>3 DEF Expected
    <3>2. \A q \in r.remaining : Holds(u, ToBatch(d, q))'
      BY <3>1, <1>2
    <3> QED
      BY <3>1, <3>2, <2>1, <2>3
  <2>4. CASE ~Many(d)
    <3>1. Holds(u, ToCaller(d))
      BY <2>1, <2>2, <2>4 DEF Expected
    <3>2. Holds(u, ToCaller(d))'
      BY <3>1, <1>2
    <3> QED
      BY <3>2, <2>1, <2>4
  <2> QED
    BY <2>3, <2>4
<1>4. CASE d \notin DOMAIN calls
  <2>1. d = c /\ c \notin DOMAIN calls /\ calls'[c].reply
    BY <1>4, OnwardOpen
  <2>2. u = p
    BY <2>1, <1>1 DEF Beginning
  <2>3. CASE Many(c)'
    <3>1. /\ batch'[c] # {} /\ \A y \in Having(p, to, ran) : then[y] = ToBatch(c, y)
          /\ \A r \in batch'[c] : r.remaining \subseteq Having(p, to, ran)
      BY <2>1, <2>3, <1>1 DEF Beginning
    <3>2. ASSUME NEW y \in Having(p, to, ran)
          PROVE  Holds(p, ToBatch(c, y))'
      <4>1. then[y] = ToBatch(c, y)
        BY <3>1
      <4>2. Asks(then[y])
        BY <4>1 DEF Asks, ToBatch
      <4>3. Holds(p, then[y])'
        BY <4>2, <1>2
      <4> QED
        BY <4>1, <4>3
    <3>3. PICK r \in batch'[c] : r.remaining \subseteq Having(p, to, ran)
      BY <3>1
    <3>4. \A q \in r.remaining : Holds(p, ToBatch(c, q))'
      BY <3>2, <3>3
    <3> QED
      BY <3>3, <3>4, <2>1, <2>2, <2>3
  <2>4. CASE ~Many(c)'
    <3>1. PICK y \in Having(p, to, ran) : then[y] = ToCaller(c)
      BY <2>1, <2>4, <1>1 DEF Beginning
    <3>2. Asks(then[y])
      BY <3>1 DEF Asks, ToCaller
    <3>3. Holds(p, then[y])'
      BY <3>2, <1>2
    <3>4. Holds(p, ToCaller(c))'
      BY <3>1, <3>3
    <3> QED
      BY <3>4, <2>1, <2>2, <2>4
  <2> QED
    BY <2>1, <2>3, <2>4
<1> QED
  BY <1>3, <1>4

LEMMA OnwardArriving ==
    ASSUME Inv, BoundsAssumption, Arriving, NEW p \in Peer, NEW to, to \subseteq Peer, NEW c, NEW then, NEW b,
           NEW ran \in BOOLEAN, Onward(p, to, c, then, b, ran)
    PROVE  Arriving'
<1>1. /\ Gained(p, to, c, then, b) /\ Beginning(p, to, c, then, ran) /\ Grown /\ c \in Call /\ lost \subseteq lost'
  BY DEF Onward, Gained
<1>2. ASSUME NEW d \in Call, NEW y \in Peer
      PROVE  /\ handled[d][y] \in Nat
             /\ handled'[d][y] = IF ran /\ d = c /\ y = p THEN handled[d][y] + 1 ELSE handled[d][y]
  BY DEF Onward, Inv, Typed, TypedCalls
<1> SUFFICES ASSUME NEW d \in DOMAIN calls' \ lost', NEW q \in calls'[d].to
             PROVE  handled'[d][q] > 0 \/ \E x \in Peer : \E m \in Messages(x, q)' : m.call = d
  BY DEF Arriving
<1>3. d \in Call /\ q \in Peer
  <2>1. calls' \in Seq(Made) /\ Len(calls') <= MaxCalls /\ MaxCalls \in Nat
    BY <1>1, BoundsAssumption DEF Grown
  <2>2. DOMAIN calls' \subseteq Call
    BY <2>1, LenProperties DEF Call
  <2>3. calls'[d] \in Made
    BY <2>1, ElementOfSeq, LenProperties
  <2> QED
    BY <2>2, <2>3 DEF Made
<1>4. CASE d \in DOMAIN calls
  <2>1. d \notin lost /\ calls'[d] = calls[d]
    BY <1>1, <1>4 DEF Grown
  <2>2. handled[d][q] > 0 \/ \E x \in Peer : \E m \in Messages(x, q) : m.call = d
    BY <2>1, <1>4 DEF Arriving
  <2>3. CASE handled[d][q] > 0
    BY <2>3, <1>2, <1>3
  <2>4. CASE \E x \in Peer : \E m \in Messages(x, q) : m.call = d
    <3>1. PICK x \in Peer : \E m \in Messages(x, q) : m.call = d
      BY <2>4
    <3>2. PICK m \in Messages(x, q) : m.call = d
      BY <3>1
    <3>3. CASE m \in Messages(x, q)'
      BY <3>2, <3>3
    <3>4. CASE m \notin Messages(x, q)'
      <4>1. q = p /\ d = c /\ (p \in calls[c].to => ran)
        BY <1>3, <3>2, <3>4, OnwardTaken
      <4> QED
        BY <4>1, <2>1, <1>2, <1>3
    <3> QED
      BY <3>3, <3>4
  <2> QED
    BY <2>2, <2>3, <2>4
<1>5. CASE d \notin DOMAIN calls
  <2>1. d = c /\ q \in Having(p, to, ran)
    BY <1>1, <1>5 DEF Beginning
  <2>2. CASE q \in to
    <3>1. <<p, q>> \in up
      BY <2>1, <2>2, <1>1 DEF Gained
    <3>2. NewMessage(c, then, p, q) \in Messages(p, q)' /\ NewMessage(c, then, p, q).call = c
      BY <3>1, <2>2, <1>1 DEF Gained, NewMessage
    <3> QED
      BY <3>2, <2>1
  <2>3. CASE q \notin to
    <3>1. ran /\ q = p
      BY <2>1, <2>3 DEF Having
    <3> QED
      BY <3>1, <2>1, <1>2, <1>3
  <2> QED
    BY <2>2, <2>3
<1> QED
  BY <1>4, <1>5

LEMMA OnwardMoving ==
    ASSUME Inv, BoundsAssumption, Moving, NEW p \in Peer, NEW to, to \subseteq Peer, NEW c, NEW then, NEW b,
           NEW ran \in BOOLEAN, Onward(p, to, c, then, b, ran)
    PROVE  Moving'
<1>1. /\ Counted /\ Gained(p, to, c, then, b) /\ Beginning(p, to, c, then, ran) /\ Handing(p, to, c, then, b, ran)
      /\ back' = back /\ work \subseteq work' /\ to \subseteq Peer
  BY Counts DEF Onward
\* Where a call is asked for, something is left of it.
<1>2. ASSUME NEW z \in Having(p, to, ran), Asks(then[z]), c \notin lost'
      PROVE  Tip(c)'
  <2>1. then[z].call = c
    BY <1>1 DEF Handing
  <2>2. CASE z \in to
    <3>1. <<p, z>> \in up /\ z \in Peer
      BY <2>2, <1>1, <1>2 DEF Gained
    <3>2. NewMessage(c, then, p, z) \in Messages(p, z)'
      BY <3>1, <2>2, <1>1 DEF Gained
    <3>3. NewMessage(c, then, p, z).call = c /\ NewMessage(c, then, p, z).id = lastId[p][z] + 1
          /\ lastId[p][z] \in Nat
      BY <3>1, <1>1, <1>2 DEF NewMessage, Counted
    <3>4. lastId[p][z] + 1 # 0
      BY <3>3
    <3> QED
      BY <3>1, <3>2, <3>3, <3>4 DEF Tip
  <2>3. CASE z \notin to
    <3>1. ran /\ z = p
      BY <2>3, <1>2 DEF Having
    <3>2. PICK w : w = [at |-> p, then |-> then[p]]
      OBVIOUS
    <3>3. w \in work' /\ w.then.call = c
      BY <3>1, <3>2, <2>1, <1>2 DEF Onward
    <3> QED
      BY <3>3 DEF Tip
  <2> QED
    BY <2>2, <2>3
<1> SUFFICES ASSUME NEW d \in Call, Open(d)', ~Many(d)'
             PROVE  Tip(d)'
  BY DEF Moving
<1>3. d \notin lost'
  BY DEF Open
<1>4. CASE d \in DOMAIN calls
  <2>1. Tip(d)
    BY <1>4, OnwardOpen DEF Moving
  <2>2. CASE \E x, y \in Peer : \E m \in Messages(x, y) : m.call = d /\ m.id # 0
    <3>1. PICK x \in Peer, y \in Peer : \E m \in Messages(x, y) : m.call = d /\ m.id # 0
      BY <2>2
    <3>2. PICK m \in Messages(x, y) : m.call = d /\ m.id # 0
      BY <3>1
    <3>3. CASE m \in Messages(x, y)'
      BY <3>2, <3>3 DEF Tip
    <3>4. CASE m \notin Messages(x, y)'
      <4>1. PICK z \in Having(p, to, ran) : d = c /\ then[z] = BackTo(m, x)
        BY <3>2, <3>4, OnwardTaken
      <4>2. Asks(then[z])
        BY <4>1, <3>2 DEF BackTo, ToPeer, Asks
      <4> QED
        BY <4>1, <4>2, <1>2, <1>3
    <3> QED
      BY <3>3, <3>4
  <2>3. CASE \E w \in work : w.then.call = d
    BY <2>3, <1>1 DEF Tip
  <2>4. CASE \E x, y \in Peer : \E a \in Replies(x, y), e \in pending[x][y] : a.id = e.id /\ e.then.call = d
    <3>1. ASSUME NEW x \in Peer, NEW y \in Peer
          PROVE  pending[x][y] \subseteq pending'[x][y] /\ Replies(x, y)' = Replies(x, y)
      <4>1. pending[x][y] \subseteq pending'[x][y]
        BY <1>1 DEF Gained
      <4> QED
        BY <4>1, <1>1 DEF Replies
    <3> QED
      BY <2>4, <3>1 DEF Tip
  <2> QED
    BY <2>1, <2>2, <2>3, <2>4 DEF Tip
<1>5. CASE d \notin DOMAIN calls
  <2>1. d = c /\ c \notin DOMAIN calls /\ calls'[c].reply
    BY <1>5, OnwardOpen
  <2>2. PICK y \in Having(p, to, ran) : then[y] = ToCaller(c)
    BY <2>1, <1>1 DEF Beginning
  <2>3. Asks(then[y])
    BY <2>2 DEF Asks, ToCaller
  <2> QED
    BY <2>1, <2>3, <1>2, <1>3
<1> QED
  BY <1>4, <1>5

LEMMA OnwardWaited ==
    ASSUME Waited, NEW p \in Peer, NEW to, NEW c, NEW then, NEW b,
           NEW ran \in BOOLEAN, Onward(p, to, c, then, b, ran)
    PROVE  Waited'
<1>1. Grown /\ Beginning(p, to, c, then, ran)
  BY DEF Onward
<1> SUFFICES ASSUME NEW d \in DOMAIN calls'
             PROVE  /\ \A r \in batch'[d] : r.remaining = {} => calls'[d].to = {}
                    /\ calls'[d].kind = "all" => calls'[d].to # {}
                    /\ calls'[d].kind \in {"lead", "host"} => calls'[d].to = {}
  BY DEF Waited
<1>2. CASE d \in DOMAIN calls
  <2>1. calls'[d] = calls[d] /\ batch'[d] = batch[d]
    BY <1>1, <1>2 DEF Grown, Beginning
  <2> QED
    BY <2>1, <1>2 DEF Waited
<1>3. CASE d \notin DOMAIN calls
  BY <1>1, <1>3 DEF Beginning
<1> QED
  BY <1>2, <1>3

LEMMA OnwardFlows ==
    ASSUME Inv, BoundsAssumption, Flow, NEW p \in Peer, NEW to, NEW c, NEW then, NEW b,
           NEW ran \in BOOLEAN, Onward(p, to, c, then, b, ran)
    PROVE  Flow'
<1>1. Single /\ Rooted /\ Underway /\ Expected /\ Arriving /\ Moving /\ Waited
  BY DEF Flow
<1>2. to \subseteq Peer
  BY DEF Onward, Inv, Typed, TypedLinks
<1>3. Single' /\ Rooted' /\ Underway'
  BY <1>1, <1>2, OnwardSingle, OnwardRooted, OnwardUnderway
<1>4. Expected' /\ Arriving' /\ Moving'
  BY <1>1, <1>2, OnwardExpected, OnwardArriving, OnwardMoving
<1>5. Waited'
  BY <1>1, OnwardWaited
<1> QED
  BY <1>3, <1>4, <1>5 DEF Flow

-----------------------------------------------------------------------------
(* A callback is invoked.                                                  *)

\* Nothing that is left, at p or on its way there or back, has the number of t.
Last(p, t, before, b) ==
    /\ Unheld(p, t.peer, t.era, t.id)'
    /\ \A n \in DOMAIN b[t.peer][p] : ~(b[t.peer][p][n].era = t.era /\ b[t.peer][p][n].id = t.id)
    /\ t.era = era[t.peer][p] => \A n \in DOMAIN before[t.peer][p] : before[t.peer][p][n].id # t.id

\* Answers that have not been read are among those there were, and none is lost that
\* somebody waits for.
Unread(before) ==
    /\ before \in [Peer -> [Peer -> Seq(Answer)]]
    /\ \A x, y \in Peer :
         /\ \A n \in DOMAIN before[x][y] : before[x][y][n] \in Replies(x, y)
         /\ \A k, l \in DOMAIN before[x][y] : before[x][y][k].id = before[x][y][l].id => k = l
         /\ \A a \in Replies(x, y) : \/ \E n \in DOMAIN before[x][y] : before[x][y][n] = a
                                     \/ \A e \in pending'[x][y] : e.id # a.id

\* t was at work, or behind an entry whose answer p reads, or is for a call that p
\* has read or makes.
Freed(p, t) ==
    /\ work' \subseteq work /\ \A w \in work : w \in work' \/ w.then = t
    /\ \A x \in Peer : \A u : Holds(x, u) => Holds(x, u)' \/ (x = p /\ u = t)
    /\ \A x, y \in Peer :
         /\ pending'[x][y] \subseteq pending[x][y]
         /\ \A e \in pending[x][y] : e \notin pending'[x][y] =>
              x = p /\ e.then = t /\ \E a \in Replies(x, y) : a.id = e.id
         /\ \A m \in Messages(x, y) :
              m \in Messages(x, y)' \/ (y = p /\ m.call = t.call /\ p \notin calls[t.call].to /\ t = BackTo(m, x))

Homeward(p, t, by, before, b) ==
    /\ Grown /\ UNCHANGED <<links, handled, lost>>
    /\ Within(b) /\ chan' = b
    /\ Unread(before) /\ Answered(p, t, by, before)
    /\ t.call \in Call /\ (t \in Then \/ t.to = "nowhere")
    /\ t.to = "batch" => Many(t.call)'
    /\ t.to = "peer" => Last(p, t, before, b)
    /\ Root(p, t) /\ Freed(p, t)
    /\ \A d \in DOMAIN calls' : d \notin DOMAIN calls =>
         /\ d = t.call /\ calls'[d].to = {} /\ ~Many(d)' /\ batch[d] = {}
         /\ calls'[d].reply => t.to = "caller"

\* What that adds to the answers on their way.
LEMMA HomewardBacks ==
    ASSUME NEW p \in Peer, NEW t, NEW by, NEW before, NEW b, Homeward(p, t, by, before, b)
    PROVE  /\ \A x, y \in Peer :
                /\ \A n \in DOMAIN before[x][y] : n \in DOMAIN back'[x][y] /\ back'[x][y][n] = before[x][y][n]
                /\ \A n \in DOMAIN back'[x][y] : n \notin DOMAIN before[x][y] =>
                     /\ t.to = "peer" /\ x = t.peer /\ y = p /\ era[x][y] = t.era
                     /\ n = Len(before[x][y]) + 1 /\ back'[x][y][n].id = t.id
           /\ t.to = "peer" /\ <<t.peer, p>> \in up /\ era[t.peer][p] = t.era =>
                \E a \in Replies(t.peer, p)' : a.id = t.id
<1>1. /\ Unread(before) /\ Answered(p, t, by, before) /\ (t \in Then \/ t.to = "nowhere")
  BY DEF Homeward
<1>2. before \in [Peer -> [Peer -> Seq(Answer)]]
  BY <1>1 DEF Unread
<1>3. CASE t.to = "peer" /\ <<t.peer, p>> \in up /\ era[t.peer][p] = t.era
  <2>1. PICK a : a = [id |-> t.id, by |-> by]
    OBVIOUS
  <2>2. PICK u \in Peer : u = t.peer
    BY <1>1, <1>3, ThenShape
  <2>3. back' = [before EXCEPT ![u][p] = Append(@, a)] /\ a.id = t.id
    BY <2>1, <2>2, <1>1, <1>3 DEF Answered
  <2>4. back'[u][p] = Append(before[u][p], a) /\ \A x, y \in Peer : ~(x = u /\ y = p) => back'[x][y] = before[x][y]
    BY <2>3, <1>2
  <2>5. before[u][p] \in Seq(Answer)
    BY <1>2
  <2>6. /\ DOMAIN before[u][p] = 1 .. Len(before[u][p]) /\ Len(before[u][p]) \in Nat
        /\ DOMAIN back'[u][p] = 1 .. Len(before[u][p]) + 1
        /\ \A i \in 1 .. Len(before[u][p]) : back'[u][p][i] = before[u][p][i]
        /\ back'[u][p][Len(before[u][p]) + 1] = a
    BY <2>4, <2>5
  <2>7. PICK n : n = Len(before[u][p]) + 1
    OBVIOUS
  <2>8. n \in DOMAIN back'[u][p] /\ back'[u][p][n] = a
    BY <2>6, <2>7
  <2>9. a \in Replies(u, p)'
    BY <2>8 DEF Replies
  <2>10. ASSUME NEW x \in Peer, NEW y \in Peer
         PROVE  /\ \A k \in DOMAIN before[x][y] : k \in DOMAIN back'[x][y] /\ back'[x][y][k] = before[x][y][k]
                /\ \A k \in DOMAIN back'[x][y] : k \notin DOMAIN before[x][y] =>
                     /\ t.to = "peer" /\ x = t.peer /\ y = p /\ era[x][y] = t.era
                     /\ k = Len(before[x][y]) + 1 /\ back'[x][y][k].id = t.id
    <3>1. CASE x = u /\ y = p
      <4>1. \A k \in DOMAIN before[u][p] : k \in DOMAIN back'[u][p] /\ back'[u][p][k] = before[u][p][k]
        BY <2>6
      <4>2. \A k \in DOMAIN back'[u][p] : k \notin DOMAIN before[u][p] =>
              k = Len(before[u][p]) + 1 /\ back'[u][p][k] = a
        BY <2>6
      <4> QED
        BY <4>1, <4>2, <3>1, <2>2, <2>3, <1>3
    <3>2. CASE ~(x = u /\ y = p)
      BY <3>2, <2>4
    <3> QED
      BY <3>1, <3>2
  <2> QED
    BY <2>2, <2>3, <2>9, <2>10
<1>4. CASE ~(t.to = "peer" /\ <<t.peer, p>> \in up /\ era[t.peer][p] = t.era)
  <2>1. back' = before
    BY <1>1, <1>4 DEF Answered
  <2> QED
    BY <2>1, <1>4
<1> QED
  BY <1>3, <1>4

LEMMA HomewardBack ==
    ASSUME NEW p \in Peer, NEW t, NEW by, NEW before, NEW b, Homeward(p, t, by, before, b),
           NEW x \in Peer, NEW y \in Peer
    PROVE  /\ \A n \in DOMAIN before[x][y] : n \in DOMAIN back'[x][y] /\ back'[x][y][n] = before[x][y][n]
           /\ \A n \in DOMAIN back'[x][y] : n \notin DOMAIN before[x][y] =>
                /\ t.to = "peer" /\ x = t.peer /\ y = p /\ era[x][y] = t.era
                /\ n = Len(before[x][y]) + 1 /\ back'[x][y][n].id = t.id
<1>1. /\ \A u, v \in Peer :
           /\ \A n \in DOMAIN before[u][v] : n \in DOMAIN back'[u][v] /\ back'[u][v][n] = before[u][v][n]
           /\ \A n \in DOMAIN back'[u][v] : n \notin DOMAIN before[u][v] =>
                /\ t.to = "peer" /\ u = t.peer /\ v = p /\ era[u][v] = t.era
                /\ n = Len(before[u][v]) + 1 /\ back'[u][v][n].id = t.id
      /\ t.to = "peer" /\ <<t.peer, p>> \in up /\ era[t.peer][p] = t.era =>
           \E a \in Replies(t.peer, p)' : a.id = t.id
  BY HomewardBacks
<1> QED
  BY <1>1

LEMMA HomewardGiven ==
    ASSUME NEW p \in Peer, NEW t, NEW by, NEW before, NEW b, Homeward(p, t, by, before, b),
           t.to = "peer", <<t.peer, p>> \in up, era[t.peer][p] = t.era
    PROVE  \E a \in Replies(t.peer, p)' : a.id = t.id
<1>1. /\ \A x, y \in Peer :
           /\ \A n \in DOMAIN before[x][y] : n \in DOMAIN back'[x][y] /\ back'[x][y][n] = before[x][y][n]
           /\ \A n \in DOMAIN back'[x][y] : n \notin DOMAIN before[x][y] =>
                /\ t.to = "peer" /\ x = t.peer /\ y = p /\ era[x][y] = t.era
                /\ n = Len(before[x][y]) + 1 /\ back'[x][y][n].id = t.id
      /\ t.to = "peer" /\ <<t.peer, p>> \in up /\ era[t.peer][p] = t.era =>
           \E a \in Replies(t.peer, p)' : a.id = t.id
  BY HomewardBacks
<1> QED
  BY <1>1

\* What it adds to those that were given.
LEMMA HomewardAnswers ==
    ASSUME Inv, BoundsAssumption, NEW p \in Peer, NEW t, NEW by, NEW before, NEW b,
           Homeward(p, t, by, before, b)
    PROVE  /\ \A d \in Call : answers'[d] = answers[d] \/ answers'[d] # <<>>
           /\ t.to = "caller" => answers'[t.call] # <<>>
           /\ \A d \in Call : ~(t.to = "batch" /\ d = t.call) => batch'[d] = batch[d]
           /\ t.to = "batch" =>
                \/ answers'[t.call] # <<>> /\ batch'[t.call] = {}
                \/ \E r \in batch[t.call] : \E s : /\ batch'[t.call] = {s} /\ s.remaining # {}
                                                   /\ s.remaining = r.remaining \ {t.of}
<1>1. Answered(p, t, by, before) /\ t.call \in Call /\ (t \in Then \/ t.to = "nowhere")
  BY DEF Homeward
<1>2. answers \in [Call -> Seq(SUBSET Peer)] /\ batch \in [Call -> SUBSET Awaiting]
  BY DEF Inv, Typed, TypedCalls, TypedRequests
<1>3. \A d \in Call : \A v : Append(answers[d], v) # <<>>
  <2>1. ASSUME NEW d \in Call, NEW v, Append(answers[d], v) = <<>>
        PROVE  FALSE
    <3>1. answers[d] \in Seq(SUBSET Peer)
      BY <1>2
    <3>2. Len(Append(answers[d], v)) = Len(answers[d]) + 1 /\ Len(answers[d]) \in Nat
      BY <3>1
    <3> QED
      BY <3>2, <2>1
  <2> QED
    BY <2>1
<1>4. CASE t.to = "caller"
  <2>1. answers' = [answers EXCEPT ![t.call] = Append(@, by)] /\ batch' = batch
    BY <1>1, <1>4 DEF Answered
  <2>2. \A d \in Call : answers'[d] = IF d = t.call THEN Append(answers[d], by) ELSE answers[d]
    BY <2>1, <1>2
  <2>3. answers'[t.call] # <<>>
    BY <2>2, <1>1, <1>3
  <2>4. \A d \in Call : answers'[d] = answers[d] \/ answers'[d] # <<>>
    BY <2>2, <2>3
  <2> QED
    BY <2>1, <2>3, <2>4, <1>4
<1>5. CASE t.to = "batch"
  <2>1. PICK r \in batch[t.call] :
          IF r.remaining \ {t.of} = {}
          THEN /\ batch' = [batch EXCEPT ![t.call] = {}]
               /\ answers' = [answers EXCEPT ![t.call] = Append(@, r.results \cup {t.of})]
          ELSE /\ batch' = [batch EXCEPT ![t.call] =
                              {[remaining |-> r.remaining \ {t.of}, results |-> r.results \cup {t.of}]}]
               /\ UNCHANGED answers
    BY <1>1, <1>5 DEF Answered, Collected
  <2>2. CASE r.remaining \ {t.of} = {}
    <3>1. \A d \in Call : /\ answers'[d] = IF d = t.call THEN Append(answers[d], r.results \cup {t.of}) ELSE answers[d]
                          /\ batch'[d] = IF d = t.call THEN {} ELSE batch[d]
      BY <2>1, <2>2, <1>2
    <3>2. answers'[t.call] # <<>> /\ batch'[t.call] = {}
      <4>1. PICK v : v = r.results \cup {t.of}
        OBVIOUS
      <4>2. answers'[t.call] = Append(answers[t.call], v) /\ batch'[t.call] = {}
        BY <3>1, <4>1, <1>1
      <4> QED
        BY <4>2, <1>1, <1>3
    <3>3. \A d \in Call : answers'[d] = answers[d] \/ answers'[d] # <<>>
      BY <3>1, <3>2
    <3> QED
      BY <3>1, <3>2, <3>3, <1>5
  <2>3. CASE r.remaining \ {t.of} # {}
    <3>1. PICK s : s = [remaining |-> r.remaining \ {t.of}, results |-> r.results \cup {t.of}]
      OBVIOUS
    <3>2. batch' = [batch EXCEPT ![t.call] = {s}] /\ answers' = answers /\ s.remaining = r.remaining \ {t.of}
      BY <3>1, <2>1, <2>3
    <3>3. \A d \in Call : batch'[d] = IF d = t.call THEN {s} ELSE batch[d]
      BY <3>2, <1>2
    <3>4. batch'[t.call] = {s}
      BY <3>3, <1>1
    <3> QED
      BY <3>2, <3>3, <3>4, <2>1, <2>3, <1>5
  <2> QED
    BY <2>2, <2>3
<1>6. CASE t.to \in {"peer", "nowhere"}
  BY <1>1, <1>6 DEF Answered
<1> QED
  BY <1>1, <1>4, <1>5, <1>6, ThenShape

LEMMA HomewardLess ==
    ASSUME NEW p \in Peer, NEW t, Freed(p, t), NEW x \in Peer, NEW u, NEW n, NEW i, Unheld(x, u, n, i)
    PROVE  Unheld(x, u, n, i)'
<1>1. work' \subseteq work /\ \A y \in Peer : pending'[x][y] \subseteq pending[x][y]
  BY DEF Freed
<1> QED
  BY <1>1 DEF Unheld, Keyed

\* An answer on its way was there, or is the one that t gives.
LEMMA HomewardReply ==
    ASSUME NEW p \in Peer, NEW t, NEW by, NEW before, NEW b, Homeward(p, t, by, before, b),
           NEW x \in Peer, NEW y \in Peer, NEW a \in Replies(x, y)'
    PROVE  \/ a \in Replies(x, y)
           \/ t.to = "peer" /\ x = t.peer /\ y = p /\ era[x][y] = t.era /\ a.id = t.id
<1>1. Unread(before)
  BY DEF Homeward
<1>2. PICK n \in DOMAIN back'[x][y] : a = back'[x][y][n]
  BY DEF Replies
<1>3. /\ \A k \in DOMAIN before[x][y] : k \in DOMAIN back'[x][y] /\ back'[x][y][k] = before[x][y][k]
      /\ \A k \in DOMAIN back'[x][y] : k \notin DOMAIN before[x][y] =>
           /\ t.to = "peer" /\ x = t.peer /\ y = p /\ era[x][y] = t.era
           /\ k = Len(before[x][y]) + 1 /\ back'[x][y][k].id = t.id
  BY HomewardBack
<1> QED
  BY <1>1, <1>2, <1>3 DEF Unread

LEMMA HomewardSingle ==
    ASSUME Inv, BoundsAssumption, Single, NEW p \in Peer, NEW t, NEW by, NEW before, NEW b,
           Homeward(p, t, by, before, b)
    PROVE  Single'
<1>1. OneMessage /\ OneReply /\ OneEntry /\ MessageAlone /\ ReplyAlone /\ OneHolder
  BY DEF Single
<1>2. /\ Counted /\ Within(b) /\ chan' = b /\ Unread(before) /\ Freed(p, t) /\ era' = era
      /\ t.to = "peer" => Last(p, t, before, b)
  BY Counts DEF Homeward, links
<1>3. OneMessage'
  BY <1>1, <1>2, WithinOne DEF OneMessage
<1>4. OneEntry'
  <2>1. \A x, y \in Peer : pending'[x][y] \subseteq pending[x][y]
    BY <1>2 DEF Freed
  <2> QED
    BY <1>1, <2>1 DEF OneEntry
<1>5. OneReply'
  <2> SUFFICES ASSUME NEW x \in Peer, NEW y \in Peer, NEW k \in DOMAIN back'[x][y], NEW l \in DOMAIN back'[x][y],
                      back'[x][y][k].id = back'[x][y][l].id
               PROVE  k = l
    BY DEF OneReply
  <2>1. /\ \A n \in DOMAIN before[x][y] : n \in DOMAIN back'[x][y] /\ back'[x][y][n] = before[x][y][n]
        /\ \A n \in DOMAIN back'[x][y] : n \notin DOMAIN before[x][y] =>
             /\ t.to = "peer" /\ x = t.peer /\ y = p /\ era[x][y] = t.era
             /\ n = Len(before[x][y]) + 1 /\ back'[x][y][n].id = t.id
    BY HomewardBack
  <2>2. \A i, j \in DOMAIN before[x][y] : before[x][y][i].id = before[x][y][j].id => i = j
    BY <1>2 DEF Unread
  <2>3. t.to = "peer" /\ x = t.peer /\ y = p /\ era[x][y] = t.era => \A n \in DOMAIN before[x][y] : before[x][y][n].id # t.id
    BY <1>2 DEF Last
  <2> QED
    BY <2>1, <2>2, <2>3
<1>6. MessageAlone'
  <2> SUFFICES ASSUME NEW x \in Peer, NEW y \in Peer, NEW m \in Messages(x, y)', m.id # 0
               PROVE  /\ Unheld(y, x, m.era, m.id)'
                      /\ m.era = era[x][y] => \A a \in Replies(x, y)' : a.id # m.id
    BY <1>2 DEF MessageAlone
  <2>1. PICK n \in DOMAIN b[x][y] : m = b[x][y][n]
    BY <1>2 DEF Messages
  <2>2. m \in Messages(x, y)
    BY <2>1, <1>2, WithinMessages
  <2>3. Unheld(y, x, m.era, m.id) /\ (m.era = era[x][y] => \A a \in Replies(x, y) : a.id # m.id)
    BY <2>2, <1>1 DEF MessageAlone
  <2>4. ASSUME m.era = era[x][y], NEW a \in Replies(x, y)', a.id = m.id
        PROVE  FALSE
    <3>1. a \notin Replies(x, y)
      BY <2>3, <2>4
    <3>2. t.to = "peer" /\ x = t.peer /\ y = p /\ era[x][y] = t.era /\ a.id = t.id
      BY <3>1, HomewardReply
    <3> QED
      BY <3>2, <2>1, <2>4, <1>2 DEF Last
  <2> QED
    BY <2>3, <2>4, <1>2, HomewardLess
<1>7. ReplyAlone'
  <2> SUFFICES ASSUME NEW x \in Peer, NEW y \in Peer, NEW a \in Replies(x, y)', NEW n \in Nat, n = era[x][y]
               PROVE  Unheld(y, x, n, a.id)'
    BY <1>2 DEF ReplyAlone
  <2>1. CASE a \in Replies(x, y)
    <3>1. Unheld(y, x, n, a.id)
      BY <2>1, <1>1 DEF ReplyAlone
    <3> QED
      BY <3>1, <1>2, HomewardLess
  <2>2. CASE a \notin Replies(x, y)
    <3>1. t.to = "peer" /\ x = t.peer /\ y = p /\ era[x][y] = t.era /\ a.id = t.id
      BY <2>2, HomewardReply
    <3>2. Unheld(p, t.peer, t.era, t.id)'
      BY <3>1, <1>2 DEF Last
    <3> QED
      BY <3>1, <3>2
  <2> QED
    BY <2>1, <2>2
<1>8. OneHolder'
  <2>1. /\ work' \subseteq work /\ \A w \in work : w.at \in Peer
        /\ \A x, y \in Peer : pending'[x][y] \subseteq pending[x][y]
    BY <1>2, HoldsBy DEF Freed
  <2> QED
    BY <1>1, <2>1 DEF OneHolder, SameKey, Keyed
<1> QED
  BY <1>3, <1>4, <1>5, <1>6, <1>7, <1>8 DEF Single

LEMMA HomewardRooted ==
    ASSUME Inv, BoundsAssumption, Single, Rooted, NEW p \in Peer, NEW t, NEW by, NEW before, NEW b,
           Homeward(p, t, by, before, b)
    PROVE  Rooted'
<1>1. MessageAlone /\ ReplyAlone
  BY DEF Single
<1>2. /\ Counted /\ Within(b) /\ chan' = b /\ Freed(p, t) /\ era' = era /\ lost' = lost
  BY Counts DEF Homeward, links
\* An entry without an answer stays.
<1>3. ASSUME NEW x \in Peer, NEW y \in Peer, NEW n, NEW i, NEW d, Entered(x, y, n, i, d),
             \A a \in Replies(x, y) : a.id # i
      PROVE  Entered(x, y, n, i, d)'
  <2>1. PICK e \in pending[x][y] : e.id = i /\ e.then.call = d
    BY <1>3 DEF Entered
  <2>2. e \in pending'[x][y]
    BY <2>1, <1>2, <1>3 DEF Freed
  <2> QED
    BY <2>1, <2>2, <1>2, <1>3 DEF Entered
<1>4. ASSUME NEW x \in Peer, NEW y \in Peer, NEW m \in Messages(x, y)', m.id # 0, m.call \notin lost
      PROVE  Entered(x, y, m.era, m.id, m.call)'
  <2>1. PICK n \in DOMAIN b[x][y] : m = b[x][y][n]
    BY <1>2 DEF Messages
  <2>2. m \in Messages(x, y)
    BY <2>1, <1>2, WithinMessages
  <2>3. Entered(x, y, m.era, m.id, m.call)
    BY <2>2, <1>4 DEF Rooted
  <2>4. \A a \in Replies(x, y) : a.id # m.id
    BY <2>2, <2>3, <1>1, <1>4 DEF MessageAlone, Entered
  <2> QED
    BY <2>3, <2>4, <1>3
<1>5. ASSUME NEW x \in Peer, NEW u, Holds(x, u), Root(x, u)
      PROVE  Root(x, u)'
  <2> SUFFICES ASSUME u.to = "peer", u.call \notin lost
               PROVE  Entered(u.peer, x, u.era, u.id, u.call)'
    BY <1>2 DEF Root
  <2>1. Entered(u.peer, x, u.era, u.id, u.call)
    BY <1>5 DEF Root
  <2>2. u.peer \in Peer /\ u.era \in Nat
    BY <1>5, Knows DEF Known
  <2>3. ASSUME NEW a \in Replies(u.peer, x), a.id = u.id
        PROVE  FALSE
    <3>1. Unheld(x, u.peer, u.era, u.id)
      BY <2>1, <2>2, <2>3, <1>1 DEF ReplyAlone, Entered
    <3>2. Keyed(u, u.peer, u.era, u.id)
      BY DEF Keyed
    <3> QED
      BY <3>1, <3>2, <1>5 DEF Unheld, Holds
  <2> QED
    BY <2>1, <2>2, <2>3, <1>3
<1>6. ASSUME NEW w \in work'
      PROVE  Root(w.at, w.then)'
  <2>1. w \in work
    BY <1>2 DEF Freed
  <2>2. w.at \in Peer /\ Holds(w.at, w.then) /\ Root(w.at, w.then)
    BY <2>1, HoldsBy DEF Rooted
  <2> QED
    BY <2>2, <1>5
<1>7. ASSUME NEW x \in Peer, NEW y \in Peer, NEW e \in pending'[x][y]
      PROVE  Root(x, e.then)'
  <2>1. e \in pending[x][y]
    BY <1>2 DEF Freed
  <2>2. Holds(x, e.then) /\ Root(x, e.then)
    BY <2>1, HoldsBy DEF Rooted
  <2> QED
    BY <2>2, <1>5
<1> QED
  BY <1>2, <1>4, <1>6, <1>7 DEF Rooted

LEMMA HomewardUnderway ==
    ASSUME Inv, BoundsAssumption, Underway, NEW p \in Peer, NEW t, NEW by, NEW before, NEW b,
           Homeward(p, t, by, before, b)
    PROVE  Underway'
<1>1. /\ Counted /\ Freed(p, t) /\ Unread(before) /\ era' = era /\ up' = up /\ lost' = lost
  BY Counts DEF Homeward, links
<1> SUFFICES ASSUME NEW x \in Peer, NEW y \in Peer, NEW e \in pending'[x][y], e.then.call \notin lost
             PROVE  e.era = era[x][y] /\ <<x, y>> \in up /\ OnWay(x, y, e)'
  BY <1>1 DEF Underway
<1>2. e \in pending[x][y]
  BY <1>1 DEF Freed
<1>3. e.era = era[x][y] /\ <<x, y>> \in up /\ OnWay(x, y, e)
  BY <1>1, <1>2 DEF Underway
\* If t answers e, its answer is on its way.
<1>4. ASSUME y = p, t = ToPeer(e.then.call, x, e.era, e.id)
      PROVE  OnWay(x, y, e)'
  <2>1. t.to = "peer" /\ t.peer = x /\ t.era = e.era /\ t.id = e.id
    BY <1>4 DEF ToPeer
  <2>2. \E a \in Replies(t.peer, p)' : a.id = t.id
    BY <2>1, <1>3, <1>4, HomewardGiven
  <2> QED
    BY <2>1, <2>2, <1>3, <1>4 DEF OnWay
<1>5. CASE \E m \in Messages(x, y) : m.era = e.era /\ m.id = e.id
  <2>1. PICK m \in Messages(x, y) : m.era = e.era /\ m.id = e.id
    BY <1>5
  <2>2. CASE m \in Messages(x, y)'
    BY <2>1, <2>2, <1>3 DEF OnWay
  <2>3. CASE m \notin Messages(x, y)'
    <3>1. y = p /\ t = BackTo(m, x)
      BY <2>3, <1>1 DEF Freed
    <3>2. Linked(x, y, m.era, m.id, m.call) /\ m.id # 0
      BY <2>1, <1>1, <1>2 DEF Counted
    <3>3. m.call = e.then.call
      BY <3>2, <2>1, <1>2, <1>3 DEF Linked
    <3>4. t = ToPeer(e.then.call, x, e.era, e.id)
      BY <3>1, <3>2, <3>3, <2>1 DEF BackTo
    <3> QED
      BY <3>1, <3>4, <1>3, <1>4
  <2> QED
    BY <2>2, <2>3
<1>6. CASE Holds(y, ToPeer(e.then.call, x, e.era, e.id))
  <2>1. PICK u : u = ToPeer(e.then.call, x, e.era, e.id)
    OBVIOUS
  <2>2. Holds(y, u)' \/ (y = p /\ u = t)
    BY <2>1, <1>1, <1>6 DEF Freed
  <2>3. CASE Holds(y, u)'
    <3>1. Holds(y, ToPeer(e.then.call, x, e.era, e.id))'
      BY <2>1, <2>3
    <3> QED
      BY <3>1, <1>3 DEF OnWay
  <2> QED
    BY <2>1, <2>2, <2>3, <1>3, <1>4
<1>7. CASE \E a \in Replies(x, y) : a.id = e.id
  <2>1. PICK a \in Replies(x, y) : a.id = e.id
    BY <1>7
  <2>2. PICK n \in DOMAIN before[x][y] : before[x][y][n] = a
    BY <2>1, <1>1 DEF Unread
  <2>3. n \in DOMAIN back'[x][y] /\ back'[x][y][n] = a
    BY <2>2, HomewardBack
  <2>4. a \in Replies(x, y)'
    BY <2>3 DEF Replies
  <2> QED
    BY <2>1, <2>4, <1>3 DEF OnWay
<1> QED
  BY <1>3, <1>5, <1>6, <1>7 DEF OnWay

\* What is open was so before.
LEMMA HomewardOpen ==
    ASSUME Inv, BoundsAssumption, NEW p \in Peer, NEW t, NEW by, NEW before, NEW b,
           Homeward(p, t, by, before, b), NEW d \in Call, Open(d)'
    PROVE  Open(d) /\ calls'[d] = calls[d] /\ (Many(d)' <=> Many(d)) /\ ~(t.to = "caller" /\ t.call = d)
<1>1. d \in DOMAIN calls' /\ d \notin lost' /\ calls'[d].reply /\ answers'[d] = <<>>
  BY DEF Open
<1>2. /\ \A x \in Call : answers'[x] = answers[x] \/ answers'[x] # <<>>
      /\ t.to = "caller" => answers'[t.call] # <<>>
      /\ \A x \in Call : ~(t.to = "batch" /\ x = t.call) => batch'[x] = batch[x]
      /\ t.to = "batch" =>
           \/ answers'[t.call] # <<>> /\ batch'[t.call] = {}
           \/ \E r \in batch[t.call] : \E s : /\ batch'[t.call] = {s} /\ s.remaining # {}
                                              /\ s.remaining = r.remaining \ {t.of}
  BY HomewardAnswers
<1>3. lost' = lost /\ Grown
  BY DEF Homeward
<1>4. d \notin DOMAIN calls => d = t.call /\ (calls'[d].reply => t.to = "caller")
  BY <1>1 DEF Homeward
<1>5. answers[d] = <<>> /\ ~(t.to = "caller" /\ t.call = d)
  BY <1>1, <1>2
<1>6. d \in DOMAIN calls
  BY <1>1, <1>4, <1>5
<1>7. calls'[d] = calls[d]
  BY <1>3, <1>6 DEF Grown
<1> QED
  BY <1>1, <1>3, <1>5, <1>6, <1>7 DEF Open, Many

LEMMA HomewardExpected ==
    ASSUME Inv, BoundsAssumption, Expected, NEW p \in Peer, NEW t, NEW by, NEW before, NEW b,
           Homeward(p, t, by, before, b)
    PROVE  Expected'
<1> SUFFICES ASSUME NEW d \in Call, NEW u \in Peer, Open(d)', calls'[d].by = u
             PROVE  /\ Many(d)' => \E r \in batch'[d] : \A q \in r.remaining : Holds(u, ToBatch(d, q))'
                    /\ ~Many(d)' => Holds(u, ToCaller(d))'
  BY DEF Expected
<1>1. Freed(p, t)
  BY DEF Homeward
<1>2. Open(d) /\ calls'[d] = calls[d] /\ (Many(d)' <=> Many(d)) /\ ~(t.to = "caller" /\ t.call = d)
  BY HomewardOpen
<1>3. calls[d].by = u /\ answers'[d] = <<>>
  BY <1>2 DEF Open
<1>4. /\ \A x \in Call : answers'[x] = answers[x] \/ answers'[x] # <<>>
      /\ t.to = "caller" => answers'[t.call] # <<>>
      /\ \A x \in Call : ~(t.to = "batch" /\ x = t.call) => batch'[x] = batch[x]
      /\ t.to = "batch" =>
           \/ answers'[t.call] # <<>> /\ batch'[t.call] = {}
           \/ \E r \in batch[t.call] : \E s : /\ batch'[t.call] = {s} /\ s.remaining # {}
                                              /\ s.remaining = r.remaining \ {t.of}
  BY HomewardAnswers
<1>5. ASSUME NEW q, Holds(u, ToBatch(d, q)), ToBatch(d, q) # t
      PROVE  Holds(u, ToBatch(d, q))'
  <2>1. PICK v : v = ToBatch(d, q)
    OBVIOUS
  <2>2. Holds(u, v)'
    BY <2>1, <1>1, <1>5 DEF Freed
  <2> QED
    BY <2>1, <2>2
<1>6. CASE Many(d)
  <2>1. PICK r \in batch[d] : \A q \in r.remaining : Holds(u, ToBatch(d, q))
    BY <1>2, <1>3, <1>6 DEF Expected
  <2>2. \A q : ToBatch(d, q).to = "batch" /\ ToBatch(d, q).call = d /\ ToBatch(d, q).of = q
    BY DEF ToBatch
  <2>3. CASE t.to = "batch" /\ d = t.call
    <3>1. PICK r1 \in batch[d] : \E s : batch'[d] = {s} /\ s.remaining = r1.remaining \ {t.of}
      BY <2>3, <1>3, <1>4
    <3>2. r1 = r
      BY <2>1, <3>1 DEF Inv, Typed, TypedRequests
    <3>3. PICK s : batch'[d] = {s} /\ s.remaining = r.remaining \ {t.of}
      BY <3>1, <3>2
    <3>4. ASSUME NEW q \in s.remaining
          PROVE  Holds(u, ToBatch(d, q))'
      <4>1. q \in r.remaining /\ q # t.of
        BY <3>3
      <4>2. ToBatch(d, q) # t
        BY <4>1, <2>2
      <4> QED
        BY <4>1, <4>2, <2>1, <1>5
    <3> QED
      BY <3>3, <3>4, <1>2, <1>6
  <2>4. CASE ~(t.to = "batch" /\ d = t.call)
    <3>1. batch'[d] = batch[d]
      BY <2>4, <1>4
    <3>2. ASSUME NEW q \in r.remaining
          PROVE  Holds(u, ToBatch(d, q))'
      <4>1. ToBatch(d, q) # t
        BY <2>2, <2>4
      <4> QED
        BY <4>1, <2>1, <1>5
    <3> QED
      BY <2>1, <3>1, <3>2, <1>2, <1>6
  <2> QED
    BY <2>3, <2>4
<1>7. CASE ~Many(d)
  <2>1. Holds(u, ToCaller(d))
    BY <1>2, <1>3, <1>7 DEF Expected
  <2>2. PICK v : v = ToCaller(d)
    OBVIOUS
  <2>3. v # t
    BY <2>2, <1>2 DEF ToCaller
  <2>4. Holds(u, v)'
    BY <2>1, <2>2, <2>3, <1>1 DEF Freed
  <2>5. Holds(u, ToCaller(d))'
    BY <2>2, <2>4
  <2> QED
    BY <2>5, <1>2, <1>7
<1> QED
  BY <1>6, <1>7

LEMMA HomewardArriving ==
    ASSUME Inv, BoundsAssumption, Arriving, NEW p \in Peer, NEW t, NEW by, NEW before, NEW b,
           Homeward(p, t, by, before, b)
    PROVE  Arriving'
<1>1. Freed(p, t) /\ Grown /\ handled' = handled /\ lost' = lost
  BY DEF Homeward
<1> SUFFICES ASSUME NEW d \in DOMAIN calls' \ lost', NEW q \in calls'[d].to
             PROVE  handled'[d][q] > 0 \/ \E x \in Peer : \E m \in Messages(x, q)' : m.call = d
  BY DEF Arriving
<1>2. d \in DOMAIN calls
  BY DEF Homeward
<1>3. calls'[d] = calls[d] /\ d \notin lost
  BY <1>1, <1>2 DEF Grown
<1>4. handled[d][q] > 0 \/ \E x \in Peer : \E m \in Messages(x, q) : m.call = d
  BY <1>2, <1>3 DEF Arriving
<1>5. CASE \E x \in Peer : \E m \in Messages(x, q) : m.call = d
  <2>1. PICK x \in Peer : \E m \in Messages(x, q) : m.call = d
    BY <1>5
  <2>2. PICK m \in Messages(x, q) : m.call = d
    BY <2>1
  <2>3. q \in Peer
    <3>1. calls \in Seq(Made)
      BY DEF Inv, Typed, TypedCalls
    <3>2. calls[d] \in Made
      BY <3>1, <1>2, ElementOfSeq, LenProperties
    <3> QED
      BY <3>2, <1>3 DEF Made
  <2>4. m \in Messages(x, q)' \/ (q = p /\ m.call = t.call /\ p \notin calls[t.call].to)
    BY <2>3, <1>1 DEF Freed
  <2> QED
    BY <2>1, <2>2, <2>4, <1>3
<1> QED
  BY <1>1, <1>4, <1>5

LEMMA HomewardMoving ==
    ASSUME Inv, BoundsAssumption, Moving, Underway, NEW p \in Peer, NEW t, NEW by, NEW before, NEW b,
           Homeward(p, t, by, before, b)
    PROVE  Moving'
<1>1. /\ Counted /\ Freed(p, t) /\ Unread(before) /\ Root(p, t) /\ lost' = lost
      /\ t \in Then \/ t.to = "nowhere"
      /\ t.to = "batch" => Many(t.call)'
  BY Counts DEF Homeward
<1> SUFFICES ASSUME NEW d \in Call, Open(d)', ~Many(d)'
             PROVE  Tip(d)'
  BY DEF Moving
<1>2. Open(d) /\ ~Many(d) /\ ~(t.to = "caller" /\ t.call = d) /\ d \notin lost
  BY HomewardOpen DEF Open
\* t can but be for another peer, which waits for the answer.
<1>3. ASSUME t.call = d, t.to # "nowhere"
      PROVE  Tip(d)'
  <2>1. t.to = "peer" /\ t.peer \in Peer
    BY <1>1, <1>2, <1>3, ThenShape
  <2>2. PICK u \in Peer : u = t.peer
    BY <2>1
  <2>3. Entered(u, p, t.era, t.id, d)
    BY <2>1, <2>2, <1>1, <1>2, <1>3 DEF Root
  <2>4. PICK e \in pending[u][p] : e.id = t.id /\ e.then.call = d
    BY <2>3 DEF Entered
  <2>5. <<u, p>> \in up /\ era[u][p] = t.era
    BY <2>3, <2>4, <1>2 DEF Underway, Entered
  <2>6. \E a \in Replies(t.peer, p)' : a.id = t.id
    BY <2>1, <2>2, <2>5, HomewardGiven
  <2>7. e \in pending'[u][p]
    <3>1. u # p
      BY <2>4, <1>1 DEF Counted
    <3> QED
      BY <2>4, <3>1, <1>1 DEF Freed
  <2> QED
    BY <2>2, <2>4, <2>6, <2>7 DEF Tip
<1>4. CASE \E x, y \in Peer : \E m \in Messages(x, y) : m.call = d /\ m.id # 0
  <2>1. PICK x \in Peer, y \in Peer : \E m \in Messages(x, y) : m.call = d /\ m.id # 0
    BY <1>4
  <2>2. PICK m \in Messages(x, y) : m.call = d /\ m.id # 0
    BY <2>1
  <2>3. CASE m \in Messages(x, y)'
    BY <2>2, <2>3 DEF Tip
  <2>4. CASE m \notin Messages(x, y)'
    <3>1. m.call = t.call /\ t = BackTo(m, x)
      BY <2>4, <1>1 DEF Freed
    <3>2. t.to # "nowhere"
      BY <3>1, <2>2 DEF BackTo, ToPeer
    <3> QED
      BY <3>1, <3>2, <2>2, <1>3
  <2> QED
    BY <2>3, <2>4
<1>5. CASE \E w \in work : w.then.call = d
  <2>1. PICK w \in work : w.then.call = d
    BY <1>5
  <2>2. CASE w \in work'
    BY <2>1, <2>2 DEF Tip
  <2>3. CASE w \notin work'
    <3>1. w.then = t
      BY <2>3, <1>1 DEF Freed
    <3>2. t.to # "nowhere"
      BY <3>1, <1>1, ThenShape DEF Counted, Request, Asks
    <3> QED
      BY <3>1, <3>2, <2>1, <1>3
  <2> QED
    BY <2>2, <2>3
<1>6. CASE \E x, y \in Peer : \E a \in Replies(x, y), e \in pending[x][y] : a.id = e.id /\ e.then.call = d
  <2>1. PICK x \in Peer, y \in Peer : \E a \in Replies(x, y), e \in pending[x][y] : a.id = e.id /\ e.then.call = d
    BY <1>6
  <2>2. PICK a \in Replies(x, y), e \in pending[x][y] : a.id = e.id /\ e.then.call = d
    BY <2>1
  <2>3. CASE e \in pending'[x][y]
    <3>1. PICK n \in DOMAIN before[x][y] : before[x][y][n] = a
      BY <2>2, <2>3, <1>1 DEF Unread
    <3>2. n \in DOMAIN back'[x][y] /\ back'[x][y][n] = a
      BY <3>1, HomewardBack
    <3>3. a \in Replies(x, y)'
      BY <3>2 DEF Replies
    <3> QED
      BY <2>2, <2>3, <3>3 DEF Tip
  <2>4. CASE e \notin pending'[x][y]
    <3>1. e.then = t
      BY <2>4, <1>1 DEF Freed
    <3>2. e.then \in Then
      BY <1>1 DEF Counted
    <3>3. t.to # "nowhere"
      BY <3>1, <3>2, ThenShape DEF Asks
    <3> QED
      BY <3>1, <3>3, <2>2, <1>3
  <2> QED
    BY <2>3, <2>4
<1>7. Tip(d)
  BY <1>2 DEF Moving
<1> QED
  BY <1>4, <1>5, <1>6, <1>7 DEF Tip

LEMMA HomewardWaited ==
    ASSUME Inv, BoundsAssumption, Waited, NEW p \in Peer, NEW t, NEW by, NEW before, NEW b,
           Homeward(p, t, by, before, b)
    PROVE  Waited'
<1> SUFFICES ASSUME NEW d \in DOMAIN calls'
             PROVE  /\ \A r \in batch'[d] : r.remaining = {} => calls'[d].to = {}
                    /\ calls'[d].kind = "all" => calls'[d].to # {}
                    /\ calls'[d].kind \in {"lead", "host"} => calls'[d].to = {}
  BY DEF Waited
<1>1. Grown /\ Counted
  BY Counts DEF Homeward
<1>2. /\ \A x \in Call : answers'[x] = answers[x] \/ answers'[x] # <<>>
      /\ t.to = "caller" => answers'[t.call] # <<>>
      /\ \A x \in Call : ~(t.to = "batch" /\ x = t.call) => batch'[x] = batch[x]
      /\ t.to = "batch" =>
           \/ answers'[t.call] # <<>> /\ batch'[t.call] = {}
           \/ \E r \in batch[t.call] : \E s : /\ batch'[t.call] = {s} /\ s.remaining # {}
                                              /\ s.remaining = r.remaining \ {t.of}
  BY HomewardAnswers
<1>3. CASE d \in DOMAIN calls
  <2>1. calls'[d] = calls[d] /\ d \in Call
    BY <1>1, <1>3 DEF Grown, Counted
  <2>2. \A r \in batch'[d] : r.remaining = {} => r \in batch[d]
    BY <2>1, <1>2
  <2> QED
    BY <2>1, <2>2, <1>3 DEF Waited
<1>4. CASE d \notin DOMAIN calls
  <2>1. d = t.call /\ calls'[d].to = {} /\ ~Many(d)' /\ d \in Call
    BY <1>4 DEF Homeward
  <2>2. t.to # "batch"
    BY <2>1 DEF Homeward
  <2> QED
    BY <2>1 DEF Many
<1> QED
  BY <1>3, <1>4

LEMMA HomewardFlows ==
    ASSUME Inv, BoundsAssumption, Flow, NEW p \in Peer, NEW t, NEW by, NEW before, NEW b,
           Homeward(p, t, by, before, b)
    PROVE  Flow'
<1>1. Single /\ Rooted /\ Underway /\ Expected /\ Arriving /\ Moving /\ Waited
  BY DEF Flow
<1>2. Single' /\ Rooted' /\ Underway'
  BY <1>1, HomewardSingle, HomewardRooted, HomewardUnderway
<1>3. Expected' /\ Arriving' /\ Moving' /\ Waited'
  BY <1>1, HomewardExpected, HomewardArriving, HomewardMoving, HomewardWaited
<1> QED
  BY <1>2, <1>3 DEF Flow

-----------------------------------------------------------------------------
(* A link is cut, or something is learnt.                                  *)

\* What goes from x to y and back stays, but for an answer nobody waits for.
Spared(x, y) ==
    /\ era'[x][y] = era[x][y] /\ (<<x, y>> \in up => <<x, y>> \in up')
    /\ pending'[x][y] = pending[x][y] /\ Messages(x, y) \subseteq Messages(x, y)'
    /\ \A a \in Replies(x, y) : a \in Replies(x, y)' \/ \A e \in pending[x][y] : e.id # a.id

\* All of it is given up for lost.
Severed(x, y) ==
    /\ \A e \in pending[x][y] : e.then.call \in lost'
    /\ \A m \in Messages(x, y) : m.call \in lost'
    /\ Replies(x, y)' = {}

Ebbing(b) ==
    /\ UNCHANGED <<calls, answers, batch, work, handled>>
    /\ Within(b) /\ chan' = b /\ lost \subseteq lost'
    /\ \A x, y \in Peer :
         /\ pending'[x][y] \subseteq pending[x][y] /\ Replies(x, y)' \subseteq Replies(x, y)
         /\ \A k, l \in DOMAIN back'[x][y] : back'[x][y][k].id = back'[x][y][l].id => k = l
         /\ Spared(x, y) \/ Severed(x, y)

LEMMA EbbingSingle ==
    ASSUME Inv, BoundsAssumption, Single, NEW b, Ebbing(b)
    PROVE  Single'
<1>1. OneMessage /\ OneReply /\ OneEntry /\ MessageAlone /\ ReplyAlone /\ OneHolder
  BY DEF Single
<1>2. /\ Counted /\ Within(b) /\ chan' = b /\ work' = work
      /\ \A x, y \in Peer :
           /\ pending'[x][y] \subseteq pending[x][y] /\ Replies(x, y)' \subseteq Replies(x, y)
           /\ \A k, l \in DOMAIN back'[x][y] : back'[x][y][k].id = back'[x][y][l].id => k = l
           /\ era'[x][y] = era[x][y] \/ Replies(x, y)' = {}
  BY Counts DEF Ebbing, Spared, Severed
<1>3. ASSUME NEW x \in Peer, NEW u, NEW n, NEW i, Unheld(x, u, n, i)
      PROVE  Unheld(x, u, n, i)'
  BY <1>2, <1>3 DEF Unheld, Keyed
<1>4. OneMessage'
  BY <1>1, <1>2, WithinOne DEF OneMessage
<1>5. OneReply' /\ OneEntry'
  BY <1>1, <1>2 DEF OneReply, OneEntry
<1>6. MessageAlone'
  <2> SUFFICES ASSUME NEW x \in Peer, NEW y \in Peer, NEW m \in Messages(x, y)', m.id # 0
               PROVE  /\ Unheld(y, x, m.era, m.id)'
                      /\ m.era = era'[x][y] => \A a \in Replies(x, y)' : a.id # m.id
    BY DEF MessageAlone
  <2>1. PICK n \in DOMAIN b[x][y] : m = b[x][y][n]
    BY <1>2 DEF Messages
  <2>2. m \in Messages(x, y)
    BY <2>1, <1>2, WithinMessages
  <2>3. Unheld(y, x, m.era, m.id) /\ (m.era = era[x][y] => \A a \in Replies(x, y) : a.id # m.id)
    BY <2>2, <1>1 DEF MessageAlone
  <2> QED
    BY <2>3, <1>2, <1>3
<1>7. ReplyAlone'
  <2> SUFFICES ASSUME NEW x \in Peer, NEW y \in Peer, NEW a \in Replies(x, y)', NEW n \in Nat, n = era'[x][y]
               PROVE  Unheld(y, x, n, a.id)'
    BY DEF ReplyAlone
  <2>1. a \in Replies(x, y) /\ n = era[x][y]
    BY <1>2
  <2>2. Unheld(y, x, n, a.id)
    BY <2>1, <1>1 DEF ReplyAlone
  <2> QED
    BY <2>2, <1>3
<1>8. OneHolder'
  <2>1. \A w \in work : w.at \in Peer
    BY HoldsBy
  <2> QED
    BY <1>1, <1>2, <2>1 DEF OneHolder, SameKey, Keyed
<1> QED
  BY <1>4, <1>5, <1>6, <1>7, <1>8 DEF Single

\* What belongs to a call that has lost nothing stays.
LEMMA EbbingHolds ==
    ASSUME NEW b, Ebbing(b), NEW x \in Peer, NEW u, Holds(x, u), u.call \notin lost'
    PROVE  Holds(x, u)'
<1>1. CASE \E w \in work : w.at = x /\ w.then = u
  BY <1>1 DEF Ebbing, Holds
<1>2. CASE \E y \in Peer : \E e \in pending[x][y] : e.then = u
  <2>1. PICK y \in Peer : \E e \in pending[x][y] : e.then = u
    BY <1>2
  <2>2. PICK e \in pending[x][y] : e.then = u
    BY <2>1
  <2>3. Spared(x, y)
    BY <2>2 DEF Ebbing, Severed
  <2> QED
    BY <2>2, <2>3 DEF Spared, Holds
<1> QED
  BY <1>1, <1>2 DEF Holds

LEMMA EbbingMessages ==
    ASSUME NEW b, Ebbing(b), NEW x \in Peer, NEW y \in Peer
    PROVE  /\ Messages(x, y)' \subseteq Messages(x, y)
           /\ \A m \in Messages(x, y) : m.call \notin lost' => m \in Messages(x, y)' /\ Spared(x, y)
<1>1. Within(b) /\ chan' = b
  BY DEF Ebbing
<1>2. ASSUME NEW m \in Messages(x, y)'
      PROVE  m \in Messages(x, y)
  <2>1. PICK n \in DOMAIN b[x][y] : m = b[x][y][n]
    BY <1>1 DEF Messages
  <2> QED
    BY <2>1, <1>1, WithinMessages
<1> QED
  BY <1>2 DEF Ebbing, Spared, Severed

LEMMA EbbingRooted ==
    ASSUME Inv, BoundsAssumption, Rooted, NEW b, Ebbing(b)
    PROVE  Rooted'
<1>1. lost \subseteq lost' /\ work' = work /\ \A x, y \in Peer : pending'[x][y] \subseteq pending[x][y]
  BY DEF Ebbing
<1>2. ASSUME NEW x \in Peer, NEW y \in Peer, NEW n, NEW i, NEW d, Entered(x, y, n, i, d), d \notin lost'
      PROVE  Entered(x, y, n, i, d)'
  <2>1. PICK e \in pending[x][y] : e.id = i /\ e.then.call = d
    BY <1>2 DEF Entered
  <2>2. Spared(x, y)
    BY <2>1, <1>2 DEF Ebbing, Severed
  <2> QED
    BY <2>1, <2>2, <1>2 DEF Spared, Entered
<1>3. ASSUME NEW x \in Peer, NEW y \in Peer, NEW m \in Messages(x, y)', m.id # 0, m.call \notin lost'
      PROVE  Entered(x, y, m.era, m.id, m.call)'
  <2>1. m \in Messages(x, y)
    BY EbbingMessages
  <2>2. Entered(x, y, m.era, m.id, m.call)
    BY <2>1, <1>1, <1>3 DEF Rooted
  <2> QED
    BY <2>2, <1>2, <1>3
<1>4. ASSUME NEW x \in Peer, NEW u, Known(x, u), Root(x, u)
      PROVE  Root(x, u)'
  <2> SUFFICES ASSUME u.to = "peer", u.call \notin lost'
               PROVE  Entered(u.peer, x, u.era, u.id, u.call)'
    BY DEF Root
  <2>1. Entered(u.peer, x, u.era, u.id, u.call) /\ u.peer \in Peer
    BY <1>1, <1>4 DEF Root, Known
  <2> QED
    BY <2>1, <1>2
<1>5. ASSUME NEW w \in work
      PROVE  Root(w.at, w.then)'
  <2>1. w.at \in Peer /\ Known(w.at, w.then) /\ Root(w.at, w.then)
    BY HoldsBy DEF Rooted
  <2> QED
    BY <2>1, <1>4
<1>6. ASSUME NEW x \in Peer, NEW y \in Peer, NEW e \in pending'[x][y]
      PROVE  Root(x, e.then)'
  <2>1. e \in pending[x][y]
    BY <1>1
  <2>2. Known(x, e.then) /\ Root(x, e.then)
    BY <2>1, HoldsBy DEF Rooted
  <2> QED
    BY <2>2, <1>4
<1> QED
  BY <1>1, <1>3, <1>5, <1>6 DEF Rooted

LEMMA EbbingUnderway ==
    ASSUME Inv, BoundsAssumption, Underway, NEW b, Ebbing(b)
    PROVE  Underway'
<1> SUFFICES ASSUME NEW x \in Peer, NEW y \in Peer, NEW e \in pending'[x][y], e.then.call \notin lost'
             PROVE  e.era = era'[x][y] /\ <<x, y>> \in up' /\ OnWay(x, y, e)'
  BY DEF Underway
<1>1. e \in pending[x][y] /\ lost \subseteq lost'
  BY DEF Ebbing
<1>2. Spared(x, y)
  BY <1>1 DEF Ebbing, Severed
<1>3. e.era = era[x][y] /\ <<x, y>> \in up /\ OnWay(x, y, e)
  BY <1>1 DEF Underway
<1>4. e.era = era'[x][y] /\ <<x, y>> \in up'
  BY <1>2, <1>3 DEF Spared
<1>5. CASE \E m \in Messages(x, y) : m.era = e.era /\ m.id = e.id
  BY <1>2, <1>4, <1>5 DEF Spared, OnWay
<1>6. CASE Holds(y, ToPeer(e.then.call, x, e.era, e.id))
  <2>1. PICK u : u = ToPeer(e.then.call, x, e.era, e.id)
    OBVIOUS
  <2>2. u.call = e.then.call
    BY <2>1 DEF ToPeer
  <2>3. Holds(y, u)'
    BY <2>1, <2>2, <1>6, EbbingHolds
  <2>4. Holds(y, ToPeer(e.then.call, x, e.era, e.id))'
    BY <2>1, <2>3
  <2> QED
    BY <2>4, <1>4 DEF OnWay
<1>7. CASE \E a \in Replies(x, y) : a.id = e.id
  BY <1>1, <1>2, <1>4, <1>7 DEF Spared, OnWay
<1> QED
  BY <1>3, <1>5, <1>6, <1>7 DEF OnWay

LEMMA EbbingExpected ==
    ASSUME Expected, NEW b, Ebbing(b)
    PROVE  Expected'
<1> SUFFICES ASSUME NEW d \in Call, NEW u \in Peer, Open(d)', calls'[d].by = u
             PROVE  /\ Many(d)' => \E r \in batch'[d] : \A q \in r.remaining : Holds(u, ToBatch(d, q))'
                    /\ ~Many(d)' => Holds(u, ToCaller(d))'
  BY DEF Expected
<1>1. /\ calls' = calls /\ answers' = answers /\ batch' = batch /\ lost \subseteq lost'
  BY DEF Ebbing
<1>2. Open(d) /\ calls[d].by = u /\ d \notin lost' /\ (Many(d)' <=> Many(d))
  BY <1>1 DEF Open, Many
<1>3. CASE Many(d)
  <2>1. PICK r \in batch[d] : \A q \in r.remaining : Holds(u, ToBatch(d, q))
    BY <1>2, <1>3 DEF Expected
  <2>2. ASSUME NEW q \in r.remaining
        PROVE  Holds(u, ToBatch(d, q))'
    <3>1. PICK v : v = ToBatch(d, q)
      OBVIOUS
    <3>2. v.call = d
      BY <3>1 DEF ToBatch
    <3>3. Holds(u, v)'
      BY <3>1, <3>2, <2>1, <1>2, EbbingHolds
    <3> QED
      BY <3>1, <3>3
  <2> QED
    BY <2>1, <2>2, <1>1, <1>2, <1>3
<1>4. CASE ~Many(d)
  <2>1. PICK v : v = ToCaller(d)
    OBVIOUS
  <2>2. v.call = d /\ Holds(u, v)
    BY <2>1, <1>2, <1>4 DEF Expected, ToCaller
  <2>3. Holds(u, v)'
    BY <2>2, <1>2, EbbingHolds
  <2>4. Holds(u, ToCaller(d))'
    BY <2>1, <2>3
  <2> QED
    BY <2>4, <1>2, <1>4
<1> QED
  BY <1>3, <1>4

LEMMA EbbingFlows ==
    ASSUME Inv, BoundsAssumption, Flow, NEW b, Ebbing(b)
    PROVE  Flow'
<1>1. Single /\ Rooted /\ Underway /\ Expected /\ Arriving /\ Moving /\ Waited
  BY DEF Flow
<1>2. Single' /\ Rooted' /\ Underway' /\ Expected'
  BY <1>1, EbbingSingle, EbbingRooted, EbbingUnderway, EbbingExpected
<1>3. /\ UNCHANGED <<calls, answers, batch, work, handled>> /\ lost \subseteq lost'
      /\ \A x, y \in Peer : \A m \in Messages(x, y) : m.call \notin lost' => m \in Messages(x, y)' /\ Spared(x, y)
  BY EbbingMessages DEF Ebbing
<1>4. Waited'
  BY <1>1, <1>3 DEF Waited
<1>5. Arriving'
  <2> SUFFICES ASSUME NEW d \in DOMAIN calls \ lost', NEW q \in calls[d].to, ~(handled[d][q] > 0)
               PROVE  \E x \in Peer : \E m \in Messages(x, q)' : m.call = d
    BY <1>3 DEF Arriving
  <2>1. PICK x \in Peer : \E m \in Messages(x, q) : m.call = d
    BY <1>1, <1>3 DEF Arriving
  <2>2. q \in Peer
    <3>1. calls \in Seq(Made)
      BY DEF Inv, Typed, TypedCalls
    <3>2. calls[d] \in Made
      BY <3>1, ElementOfSeq, LenProperties
    <3> QED
      BY <3>2 DEF Made
  <2> QED
    BY <2>1, <2>2, <1>3
<1>6. Moving'
  <2> SUFFICES ASSUME NEW d \in Call, Open(d)', ~Many(d)'
               PROVE  Tip(d)'
    BY DEF Moving
  <2>1. Open(d) /\ ~Many(d) /\ d \notin lost'
    BY <1>3 DEF Open, Many
  <2>2. CASE \E x, y \in Peer : \E m \in Messages(x, y) : m.call = d /\ m.id # 0
    BY <2>1, <2>2, <1>3 DEF Tip
  <2>3. CASE \E w \in work : w.then.call = d
    BY <2>3, <1>3 DEF Tip
  <2>4. CASE \E x, y \in Peer : \E a \in Replies(x, y), e \in pending[x][y] : a.id = e.id /\ e.then.call = d
    <3>1. PICK x \in Peer, y \in Peer : \E a \in Replies(x, y), e \in pending[x][y] : a.id = e.id /\ e.then.call = d
      BY <2>4
    <3>2. PICK a \in Replies(x, y), e \in pending[x][y] : a.id = e.id /\ e.then.call = d
      BY <3>1
    <3>3. Spared(x, y)
      BY <3>2, <2>1 DEF Ebbing, Severed
    <3>4. a \in Replies(x, y)' /\ e \in pending'[x][y]
      BY <3>2, <3>3 DEF Spared
    <3> QED
      BY <3>2, <3>4 DEF Tip
  <2>5. Tip(d)
    BY <2>1, <1>1 DEF Moving
  <2> QED
    BY <2>2, <2>3, <2>4, <2>5 DEF Tip
<1> QED
  BY <1>2, <1>4, <1>5, <1>6 DEF Flow

-----------------------------------------------------------------------------
(* What every step does.                                                   *)

\* A link is cut: what it carried is lost, and all else is spared.
LEMMA CutFlows ==
    ASSUME Inv, BoundsAssumption, Flow, NEW p \in Peer, NEW q \in Peer, Break(p, q) \/ Forget(p, q)
    PROVE  Flow'
<1>1. /\ Cut(p, q) /\ UNCHANGED <<calls, answers, batch, work, handled, where>>
      /\ \/ UNCHANGED <<peers, lastId, pending>>
         \/ /\ peers' = [peers EXCEPT ![p] = @ \ {q}]
            /\ pending' = [pending EXCEPT ![p][q] = {}]
            /\ lastId' = [lastId EXCEPT ![p][q] = 0]
  BY DEF Break, Forget, runs
<1>2. PICK b : Fainting(b)
  BY <1>1, Cuts
<1>3. /\ Within(b) /\ chan' = b
      /\ \A x, y \in Peer : pending'[x][y] \subseteq pending[x][y]
  BY <1>2 DEF Fainting, Lasting
<1>4. /\ up' = up \ {<<p, q>>} /\ era' = [era EXCEPT ![p][q] = @ + 1]
      /\ back' = [back EXCEPT ![p][q] = <<>>]
      /\ lost' = lost \cup {e.then.call : e \in pending[p][q]} \cup {chan[p][q][n].call : n \in DOMAIN chan[p][q]}
  BY <1>1 DEF Cut
<1>5. /\ era \in [Peer -> [Peer -> Nat]] /\ pending \in [Peer -> [Peer -> SUBSET Entry]]
      /\ chan \in [Peer -> [Peer -> Seq(Message)]] /\ back \in [Peer -> [Peer -> Seq(Answer)]]
  BY DEF Inv, Typed, TypedLinks, TypedRequests, TypedCalls
<1>6. OneReply
  BY DEF Flow, Single
<1>7. ASSUME NEW x \in Peer, NEW y \in Peer, x = p, y = q
      PROVE  Severed(x, y) /\ back'[x][y] = <<>>
  <2>1. back'[x][y] = <<>>
    BY <1>4, <1>5, <1>7
  <2>2. Replies(x, y)' = {}
    <3>1. DOMAIN back'[x][y] = {}
      BY <2>1
    <3> QED
      BY <3>1 DEF Replies
  <2>3. \A e \in pending[x][y] : e.then.call \in lost'
    BY <1>4, <1>7
  <2>4. \A m \in Messages(x, y) : m.call \in lost'
    BY <1>4, <1>7 DEF Messages
  <2> QED
    BY <2>1, <2>2, <2>3, <2>4 DEF Severed
<1>8. ASSUME NEW x \in Peer, NEW y \in Peer, ~(x = p /\ y = q)
      PROVE  Spared(x, y) /\ back'[x][y] = back[x][y]
  <2>1. era'[x][y] = era[x][y] /\ back'[x][y] = back[x][y]
    BY <1>4, <1>5, <1>8
  <2>2. <<x, y>> \in up => <<x, y>> \in up'
    BY <1>4, <1>8
  <2>3. pending'[x][y] = pending[x][y]
    <3>1. CASE pending' = [pending EXCEPT ![p][q] = {}]
      BY <3>1, <1>5, <1>8
    <3> QED
      BY <3>1, <1>1
  <2>4. chan'[x][y] = chan[x][y]
    <3>1. PICK k \in 0 .. Len(chan[p][q]) : chan' = [chan EXCEPT ![p][q] = SubSeq(@, 1, k)]
      BY <1>1 DEF Cut
    <3> QED
      BY <3>1, <1>5, <1>8
  <2> QED
    BY <2>1, <2>2, <2>3, <2>4 DEF Spared, Messages, Replies
<1>9. ASSUME NEW x \in Peer, NEW y \in Peer
      PROVE  /\ Replies(x, y)' \subseteq Replies(x, y) /\ (Spared(x, y) \/ Severed(x, y))
             /\ \A k, l \in DOMAIN back'[x][y] : back'[x][y][k].id = back'[x][y][l].id => k = l
  <2>1. CASE x = p /\ y = q
    BY <2>1, <1>7 DEF Severed
  <2>2. CASE ~(x = p /\ y = q)
    BY <2>2, <1>6, <1>8 DEF OneReply, Replies
  <2> QED
    BY <2>1, <2>2
<1>10. Ebbing(b)
  BY <1>1, <1>3, <1>4, <1>9 DEF Ebbing
<1> QED
  BY <1>10, EbbingFlows

\* Nothing that is under way is touched.
LEMMA RestFlows ==
    ASSUME Inv, BoundsAssumption, Flow, up \subseteq up', UNCHANGED <<era, replies, runs, requests, chan, calls>>
    PROVE  Flow'
<1>1. UNCHANGED <<calls, answers, batch, work, handled>> /\ UNCHANGED <<era, pending, back, lost>>
  BY DEF replies, runs, requests
<1>2. PICK b : b = chan
  OBVIOUS
<1>3. Within(b) /\ chan' = b
  BY <1>2, WithinSelf DEF Inv
<1>4. OneReply
  BY DEF Flow, Single
<1>5. \A x, y \in Peer : Spared(x, y) /\ Replies(x, y)' = Replies(x, y)
  BY <1>1 DEF Spared, Messages, Replies
<1>6. Ebbing(b)
  BY <1>1, <1>3, <1>4, <1>5 DEF Ebbing, OneReply
<1> QED
  BY <1>6, EbbingFlows

\* The callback of a method that has run is the last of its kind.
LEMMA FinishFlows ==
    ASSUME Inv, BoundsAssumption, Flow, NEW w \in work, Finish(w)
    PROVE  Flow'
<1>1. /\ MessageAlone /\ ReplyAlone /\ OneHolder /\ OneReply /\ Rooted /\ Counted
  BY Counts DEF Flow, Single
<1>2. /\ work' = work \ {w} /\ Answered(w.at, w.then, {w.at}, back)
      /\ UNCHANGED <<links, handled, lost>> /\ UNCHANGED <<pending, chan, calls>>
  BY DEF Finish, requests
<1>3. PICK p, t : p = w.at /\ t = w.then /\ p \in Peer
  BY HoldsBy
<1>4. PICK before, b : before = back /\ b = chan
  OBVIOUS
<1>5. Known(p, t) /\ Root(p, t) /\ (t.to = "batch" => Many(t.call))
  BY <1>1, <1>3, HoldsBy DEF Rooted, Inv, Working, Callback
<1>6. t.call \in Call /\ t \in Then /\ (t.to = "peer" => t.peer \in Peer /\ t.id # 0 /\ t.era \in Nat)
  BY <1>5, ThenShape DEF Known
<1>7. Within(b) /\ chan' = b
  BY <1>2, <1>4, WithinSelf DEF Inv
<1>8. Unread(before)
  BY <1>1, <1>4 DEF Unread, Replies, OneReply, Inv, Typed, TypedCalls
<1>9. ASSUME t.to = "peer"
      PROVE  Last(p, t, before, b)
  <2>1. ~Unheld(p, t.peer, t.era, t.id)
    BY <1>3, <1>9 DEF Unheld, Keyed
  <2>2. Unheld(p, t.peer, t.era, t.id)'
    BY <1>1, <1>2, <1>3, <1>9 DEF Unheld, Keyed, OneHolder, SameKey
  <2>3. \A n \in DOMAIN b[t.peer][p] : ~(b[t.peer][p][n].era = t.era /\ b[t.peer][p][n].id = t.id)
    <3>1. ASSUME NEW n \in DOMAIN b[t.peer][p], b[t.peer][p][n].era = t.era, b[t.peer][p][n].id = t.id
          PROVE  FALSE
      <4>1. PICK m : m = chan[t.peer][p][n]
        OBVIOUS
      <4>2. m \in Messages(t.peer, p) /\ m.era = t.era /\ m.id = t.id
        BY <4>1, <3>1, <1>4 DEF Messages
      <4> QED
        BY <4>2, <2>1, <1>1, <1>3, <1>6, <1>9 DEF MessageAlone
    <3> QED
      BY <3>1
  <2>4. t.era = era[t.peer][p] => \A n \in DOMAIN before[t.peer][p] : before[t.peer][p][n].id # t.id
    <3>1. ASSUME t.era = era[t.peer][p], NEW n \in DOMAIN before[t.peer][p], before[t.peer][p][n].id = t.id
          PROVE  FALSE
      <4>1. PICK a : a = back[t.peer][p][n]
        OBVIOUS
      <4>2. a \in Replies(t.peer, p) /\ a.id = t.id
        BY <4>1, <3>1, <1>4 DEF Replies
      <4> QED
        BY <4>2, <3>1, <2>1, <1>1, <1>3, <1>6, <1>9 DEF ReplyAlone
    <3> QED
      BY <3>1
  <2> QED
    BY <2>2, <2>3, <2>4 DEF Last
<1>10. Freed(p, t)
  <2>1. work' \subseteq work /\ \A v \in work : v \in work' \/ v.then = t
    BY <1>2, <1>3
  <2>2. ASSUME NEW x \in Peer, NEW u, Holds(x, u), ~(x = p /\ u = t)
        PROVE  Holds(x, u)'
    BY <2>2, <1>2, <1>3 DEF Holds
  <2>3. \A x, y \in Peer : pending'[x][y] = pending[x][y] /\ Messages(x, y)' = Messages(x, y)
    BY <1>2 DEF Messages
  <2> QED
    BY <2>1, <2>2, <2>3 DEF Freed
<1>11. Grown /\ (Many(t.call)' <=> Many(t.call))
  BY <1>2 DEF Grown, Many, Inv, Typed, TypedCalls
<1>12. Answered(p, t, {p}, before)
  BY <1>2, <1>3, <1>4
<1>13. Homeward(p, t, {p}, before, b)
  BY <1>2, <1>5, <1>6, <1>7, <1>8, <1>9, <1>10, <1>11, <1>12 DEF Homeward
<1> QED
  BY <1>3, <1>13, HomewardFlows

\* But for `answer`, which p reads, all answers are left.
Remaining(p, q, rest, answer, x, y) ==
    /\ \A n \in DOMAIN rest[x][y] : rest[x][y][n] \in Replies(x, y)
    /\ \A k, l \in DOMAIN rest[x][y] : rest[x][y][k].id = rest[x][y][l].id => k = l
    /\ \A a \in Replies(x, y) : \/ \E n \in DOMAIN rest[x][y] : rest[x][y][n] = a
                                \/ x = p /\ y = q /\ a = answer

LEMMA RestAnswers ==
    ASSUME Inv, OneReply, NEW p \in Peer, NEW q \in Peer, back[p][q] # <<>>,
           NEW rest, rest = [back EXCEPT ![p][q] = Tail(@)], NEW answer, answer = Head(back[p][q])
    PROVE  /\ rest \in [Peer -> [Peer -> Seq(Answer)]] /\ answer \in Replies(p, q)
           /\ \A x, y \in Peer : Remaining(p, q, rest, answer, x, y)
<1>1. back \in [Peer -> [Peer -> Seq(Answer)]]
  BY DEF Inv, Typed, TypedCalls
<1>2. rest \in [Peer -> [Peer -> Seq(Answer)]] /\ answer \in Replies(p, q)
  BY RestLeft DEF Left
<1>3. rest[p][q] = Tail(back[p][q]) /\ \A x, y \in Peer : ~(x = p /\ y = q) => rest[x][y] = back[x][y]
  BY <1>1
<1>4. PICK s, r : s = back[p][q] /\ r = Tail(s)
  OBVIOUS
<1>5. s \in Seq(Answer) /\ s # <<>> /\ Len(s) \in Nat \ {0} /\ DOMAIN s = 1 .. Len(s) /\ answer = s[1]
  BY <1>1, <1>4, LenProperties, EmptySeq, HeadTailProperties
<1>6. r \in Seq(Answer) /\ DOMAIN r = 1 .. Len(s) - 1 /\ \A n \in 1 .. Len(s) - 1 : r[n] = s[n + 1]
  BY <1>4, <1>5, LenProperties, HeadTailProperties
<1>7. /\ \A n \in DOMAIN r : n + 1 \in DOMAIN s /\ r[n] = s[n + 1]
      /\ \A n \in DOMAIN s : n = 1 \/ (n - 1 \in DOMAIN r /\ r[n - 1] = s[n])
  BY <1>5, <1>6
<1>8. \A k, l \in DOMAIN s : s[k].id = s[l].id => k = l
  BY <1>4 DEF OneReply
<1>9. \A k, l \in DOMAIN r : r[k].id = r[l].id => k = l
  BY <1>6, <1>7, <1>8
<1>10. ASSUME NEW x \in Peer, NEW y \in Peer
       PROVE  Remaining(p, q, rest, answer, x, y)
  <2>1. CASE x = p /\ y = q
    <3>1. back[x][y] = s /\ rest[x][y] = r
      BY <2>1, <1>3, <1>4
    <3>2. \A n \in DOMAIN r : r[n] \in Replies(x, y)
      BY <3>1, <1>7 DEF Replies
    <3>3. ASSUME NEW a \in Replies(x, y), a # answer
          PROVE  \E n \in DOMAIN r : r[n] = a
      <4>1. PICK n \in DOMAIN s : s[n] = a
        BY <3>1 DEF Replies
      <4>2. n - 1 \in DOMAIN r /\ r[n - 1] = a
        BY <4>1, <3>3, <1>5, <1>7
      <4> QED
        BY <4>2
    <3>4. \A n \in DOMAIN rest[x][y] : rest[x][y][n] \in Replies(x, y)
      BY <3>1, <3>2
    <3>5. \A k, l \in DOMAIN rest[x][y] : rest[x][y][k].id = rest[x][y][l].id => k = l
      BY <3>1, <1>9
    <3>6. \A a \in Replies(x, y) : a = answer \/ \E n \in DOMAIN rest[x][y] : rest[x][y][n] = a
      BY <3>1, <3>3
    <3> QED
      BY <3>4, <3>5, <3>6, <2>1 DEF Remaining
  <2>2. CASE ~(x = p /\ y = q)
    <3>1. rest[x][y] = back[x][y]
      BY <2>2, <1>3
    <3>2. \A k, l \in DOMAIN back[x][y] : back[x][y][k].id = back[x][y][l].id => k = l
      BY DEF OneReply
    <3> QED
      BY <3>1, <3>2 DEF Replies, Remaining
  <2> QED
    BY <2>1, <2>2
<1> QED
  BY <1>2, <1>10

\* An answer finds the entry it belongs to, or none.
LEMMA AnswerFlows ==
    ASSUME Inv, BoundsAssumption, Flow, NEW p \in Peer, NEW q \in Peer, ReadAnswer(p, q)
    PROVE  Flow'
<1>1. /\ MessageAlone /\ ReplyAlone /\ OneHolder /\ OneReply /\ OneEntry /\ Rooted /\ Counted
  BY Counts DEF Flow, Single
<1>2. PICK answer, rest, Kept : /\ answer = Head(back[p][q]) /\ rest = [back EXCEPT ![p][q] = Tail(@)]
                                /\ Kept = {e \in pending[p][q] : e.id = answer.id}
  OBVIOUS
<1>3. /\ back[p][q] # <<>>
      /\ pending' = [pending EXCEPT ![p][q] = @ \ Kept]
      /\ \/ \E e \in Kept : Answered(p, e.then, answer.by, rest)
         \/ Kept = {} /\ back' = rest /\ UNCHANGED <<answers, batch>>
      /\ UNCHANGED <<links, handled, lost>> /\ UNCHANGED <<work, chan, calls>>
  BY <1>2 DEF ReadAnswer, runs
<1>4. /\ rest \in [Peer -> [Peer -> Seq(Answer)]] /\ answer \in Replies(p, q)
      /\ \A x, y \in Peer : Remaining(p, q, rest, answer, x, y)
  BY <1>1, <1>2, <1>3, RestAnswers
<1>5. \A x, y \in Peer : pending'[x][y] = IF x = p /\ y = q THEN pending[x][y] \ Kept ELSE pending[x][y]
  <2>1. pending \in [Peer -> [Peer -> SUBSET Entry]]
    BY DEF Inv, Typed, TypedRequests
  <2> QED
    BY <2>1, <1>3
<1>6. PICK b : b = chan
  OBVIOUS
<1>7. Within(b) /\ chan' = b /\ \A x, y \in Peer : Messages(x, y)' = Messages(x, y)
  BY <1>3, <1>6, WithinSelf DEF Inv, Messages
<1>8. ASSUME NEW e \in Kept, Answered(p, e.then, answer.by, rest)
      PROVE  Flow'
  <2>1. PICK t : t = e.then
    OBVIOUS
  <2>2. e \in pending[p][q] /\ e.id = answer.id /\ Kept = {e}
    BY <1>1, <1>2 DEF OneEntry
  <2>3. Holds(p, t) /\ Known(p, t) /\ Root(p, t)
    BY <2>1, <2>2, <1>1, HoldsBy DEF Rooted
  <2>4. t.to = "batch" => Many(t.call)
    BY <2>1, <2>2 DEF Inv, Waiting, Callback
  <2>5. t.call \in Call /\ t \in Then /\ (t.to = "peer" => t.peer \in Peer /\ t.id # 0 /\ t.era \in Nat)
    BY <2>3, ThenShape DEF Known
  <2>6. Unread(rest)
    <3>1. ASSUME NEW x \in Peer, NEW y \in Peer
          PROVE  /\ \A n \in DOMAIN rest[x][y] : rest[x][y][n] \in Replies(x, y)
                 /\ \A k, l \in DOMAIN rest[x][y] : rest[x][y][k].id = rest[x][y][l].id => k = l
      BY <1>4 DEF Remaining
    <3>2. ASSUME NEW x \in Peer, NEW y \in Peer, NEW a \in Replies(x, y), NEW f \in pending'[x][y], f.id = a.id
          PROVE  \E n \in DOMAIN rest[x][y] : rest[x][y][n] = a
      <4>1. ~(x = p /\ y = q /\ a = answer)
        BY <3>2, <1>2, <1>5
      <4> QED
        BY <4>1, <1>4 DEF Remaining
    <3>3. \A x, y \in Peer : \A a \in Replies(x, y) : \/ \E n \in DOMAIN rest[x][y] : rest[x][y][n] = a
                                                    \/ \A f \in pending'[x][y] : f.id # a.id
      BY <3>2
    <3>4. rest \in [Peer -> [Peer -> Seq(Answer)]]
      BY <1>4
    <3> QED
      BY <3>1, <3>3, <3>4 DEF Unread
  <2>7. ASSUME t.to = "peer"
        PROVE  Last(p, t, rest, b)
    <3>1. ~Unheld(p, t.peer, t.era, t.id)
      BY <2>3, <2>7 DEF Holds, Unheld, Keyed
    <3>2. \A v \in work : v.at = p => ~Keyed(v.then, t.peer, t.era, t.id)
      BY <2>1, <2>2, <2>7, <1>1 DEF OneHolder, SameKey, Keyed
    <3>3. \A y \in Peer : \A f \in pending[p][y] : Keyed(f.then, t.peer, t.era, t.id) => y = q /\ f = e
      BY <2>1, <2>2, <2>7, <1>1 DEF OneHolder, SameKey
    <3>4. Unheld(p, t.peer, t.era, t.id)'
      <4>1. \A v \in work' : v.at = p => ~Keyed(v.then, t.peer, t.era, t.id)
        BY <3>2, <1>3
      <4>2. ASSUME NEW y \in Peer, NEW f \in pending'[p][y]
            PROVE  ~Keyed(f.then, t.peer, t.era, t.id)
        BY <4>2, <3>3, <2>2, <1>5
      <4> QED
        BY <4>1, <4>2 DEF Unheld, Keyed
    <3>5. \A n \in DOMAIN b[t.peer][p] : ~(b[t.peer][p][n].era = t.era /\ b[t.peer][p][n].id = t.id)
      BY <3>1, <2>5, <2>7, <1>1, <1>6 DEF MessageAlone, Messages
    <3>6. t.era = era[t.peer][p] => \A n \in DOMAIN rest[t.peer][p] : rest[t.peer][p][n].id # t.id
      <4>1. ASSUME t.era = era[t.peer][p], NEW n \in DOMAIN rest[t.peer][p], rest[t.peer][p][n].id = t.id
            PROVE  FALSE
        <5>1. rest[t.peer][p][n] \in Replies(t.peer, p)
          BY <2>5, <2>7, <1>4 DEF Remaining
        <5> QED
          BY <5>1, <4>1, <3>1, <2>5, <2>7, <1>1 DEF ReplyAlone
      <4> QED
        BY <4>1
    <3> QED
      BY <3>4, <3>5, <3>6 DEF Last
  <2>8. Freed(p, t)
    <3>1. ASSUME NEW x \in Peer, NEW u, Holds(x, u), ~(x = p /\ u = t)
          PROVE  Holds(x, u)'
      <4>1. CASE \E v \in work : v.at = x /\ v.then = u
        BY <4>1, <1>3 DEF Holds
      <4>2. CASE \E y \in Peer : \E f \in pending[x][y] : f.then = u
        BY <4>2, <3>1, <2>1, <2>2, <1>5 DEF Holds
      <4> QED
        BY <4>1, <4>2, <3>1 DEF Holds
    <3>2. ASSUME NEW x \in Peer, NEW y \in Peer
          PROVE  /\ pending'[x][y] \subseteq pending[x][y]
                 /\ \A f \in pending[x][y] : f \notin pending'[x][y] =>
                      x = p /\ f.then = t /\ \E a \in Replies(x, y) : a.id = f.id
      BY <2>1, <2>2, <1>4, <1>5
    <3> QED
      BY <3>1, <3>2, <1>3, <1>7 DEF Freed
  <2>9. Grown /\ (Many(t.call)' <=> Many(t.call))
    BY <1>3 DEF Grown, Many, Inv, Typed, TypedCalls
  <2>10. Homeward(p, t, answer.by, rest, b)
    BY <2>1, <2>3, <2>4, <2>5, <2>6, <2>7, <2>8, <2>9, <1>3, <1>7, <1>8 DEF Homeward
  <2> QED
    BY <2>10, HomewardFlows
<1>9. CASE Kept = {} /\ back' = rest /\ UNCHANGED <<answers, batch>>
  <2>1. ASSUME NEW x \in Peer, NEW y \in Peer
        PROVE  /\ pending'[x][y] = pending[x][y] /\ Replies(x, y)' \subseteq Replies(x, y)
               /\ \A k, l \in DOMAIN back'[x][y] : back'[x][y][k].id = back'[x][y][l].id => k = l
               /\ \A a \in Replies(x, y) : a \in Replies(x, y)' \/ \A e \in pending[x][y] : e.id # a.id
    <3>1. pending'[x][y] = pending[x][y]
      BY <1>5, <1>9
    <3>2. Replies(x, y)' = {rest[x][y][n] : n \in DOMAIN rest[x][y]}
      BY <1>9 DEF Replies
    <3>3. Remaining(p, q, rest, answer, x, y)
      BY <1>4
    <3>4. Replies(x, y)' \subseteq Replies(x, y)
      BY <3>2, <3>3 DEF Remaining
    <3>5. \A a \in Replies(x, y) : a \in Replies(x, y)' \/ \A e \in pending[x][y] : e.id # a.id
      BY <3>2, <3>3, <1>2, <1>9 DEF Remaining
    <3>6. \A k, l \in DOMAIN back'[x][y] : back'[x][y][k].id = back'[x][y][l].id => k = l
      BY <3>3, <1>9 DEF Remaining
    <3> QED
      BY <3>1, <3>4, <3>5, <3>6
  <2>2. \A x, y \in Peer : Spared(x, y)
    BY <2>1, <1>3, <1>7 DEF Spared, links
  <2>3. Ebbing(b)
    BY <2>1, <2>2, <1>3, <1>7, <1>9 DEF Ebbing
  <2> QED
    BY <2>3, EbbingFlows
<1> QED
  BY <1>3, <1>8, <1>9

\* p has a call that is nowhere else, and handles it, sends it to q, or answers it.
Owned(p, q, c, t, b) ==
    /\ Grown /\ UNCHANGED links /\ c \in Call /\ Within(b)
    /\ t.call = c /\ (Asks(t) => t \in Then) /\ t.to # "batch"
    /\ t.to = "peer" => Fresh(p, t, b) /\ Root(p, t)
    /\ \A x, y \in Peer : \A m \in Messages(x, y) :
         \/ \E n \in DOMAIN b[x][y] : b[x][y][n] = m
         \/ y = p /\ m.call = c /\ t = BackTo(m, x) /\ (p \in calls[c].to => q = p)
    /\ \A d \in DOMAIN calls' : d \in DOMAIN calls \/ d = c
    /\ c \notin DOMAIN calls =>
         /\ calls'[c].to \subseteq {q} \cap (peers[p] \cup {p}) /\ ~Many(c)' /\ batch[c] = {}
         /\ calls'[c].kind \in {"lead", "host"} => calls'[c].to = {}
         /\ calls'[c].reply => calls'[c].by = p /\ t = ToCaller(c)

\* It goes on to one peer, or is handled by p.
LEMMA OwnedGoes ==
    ASSUME Inv, BoundsAssumption, Flow, NEW p \in Peer, NEW q, NEW c, NEW t, NEW b, Owned(p, q, c, t, b),
           NEW to, to \subseteq peers[p], NEW ran \in BOOLEAN, Having(p, to, ran) = {q},
           NEW then, then = [r \in Peer |-> t],
           Gained(p, to, c, then, b), UNCHANGED replies,
           work' = work \cup (IF ran /\ Asks(then[p]) THEN {[at |-> p, then |-> then[p]]} ELSE {}),
           \A d \in Call, y \in Peer :
             handled'[d][y] = IF ran /\ d = c /\ y = p THEN handled[d][y] + 1 ELSE handled[d][y]
    PROVE  Flow'
<1>1. /\ Grown /\ UNCHANGED links /\ c \in Call /\ Within(b)
      /\ t.call = c /\ (Asks(t) => t \in Then) /\ t.to # "batch"
      /\ t.to = "peer" => Fresh(p, t, b) /\ Root(p, t)
  BY DEF Owned
<1>2. q \in Peer /\ then[q] = t /\ (q = p => ran) /\ (\A y \in Having(p, to, ran) : then[y] = t)
  <2>1. p \notin peers[p] /\ peers[p] \subseteq Peer
    BY DEF Inv, Typed, TypedLinks
  <2>2. q \in Peer /\ (q = p => ran)
    BY <2>1 DEF Having
  <2> QED
    BY <2>2
<1>3. Handing(p, to, c, then, b, ran)
  BY <1>1, <1>2 DEF Handing
<1>4. Taking(p, to, c, then, b, ran)
  <2>1. ASSUME NEW x \in Peer, NEW y \in Peer, NEW m \in Messages(x, y), ~\E n \in DOMAIN b[x][y] : b[x][y][n] = m
        PROVE  /\ y = p /\ m.call = c /\ Having(p, to, ran) # {}
               /\ p \in calls[c].to => ran
               /\ \A z \in Having(p, to, ran) : then[z] = BackTo(m, x)
    <3>1. y = p /\ m.call = c /\ t = BackTo(m, x) /\ (p \in calls[c].to => q = p)
      BY <2>1 DEF Owned
    <3> QED
      BY <3>1, <1>2
  <2> QED
    BY <2>1 DEF Taking
<1>5. Beginning(p, to, c, then, ran)
  <2>1. batch' = batch /\ \A d \in DOMAIN calls' : d \in DOMAIN calls \/ d = c
    BY DEF Owned, replies
  <2>2. ASSUME c \notin DOMAIN calls
        PROVE  /\ calls'[c].to \subseteq {q} /\ ~Many(c)' /\ batch'[c] = {}
               /\ calls'[c].kind \in {"lead", "host"} => calls'[c].to = {}
               /\ calls'[c].reply => calls'[c].by = p /\ t = ToCaller(c)
    BY <2>1, <2>2 DEF Owned
  <2>3. ~Many(c)' => calls'[c].kind # "all"
    BY DEF Many
  <2> QED
    BY <2>1, <2>2, <2>3, <1>2 DEF Beginning
<1>6. back' = back /\ answers' = answers
  BY DEF replies
<1>7. Onward(p, to, c, then, b, ran)
  BY <1>1, <1>3, <1>4, <1>5, <1>6 DEF Onward
<1> QED
  BY <1>7, OnwardFlows

\* It is answered with defaults, or dropped.
LEMMA OwnedEnds ==
    ASSUME Inv, BoundsAssumption, Flow, NEW p \in Peer, NEW q, NEW c, NEW t, NEW b, Owned(p, q, c, t, b),
           q # p, q \notin peers[p], Answered(p, t, {}, back), chan' = b, UNCHANGED <<runs, requests>>
    PROVE  Flow'
<1>1. /\ Grown /\ UNCHANGED links /\ c \in Call /\ Within(b)
      /\ t.call = c /\ (Asks(t) => t \in Then) /\ t.to # "batch"
      /\ t.to = "peer" => Fresh(p, t, b) /\ Root(p, t)
  BY DEF Owned
<1>2. UNCHANGED <<work, handled, pending, lost>>
  BY DEF runs, requests
<1>3. PICK before : before = back
  OBVIOUS
<1>4. OneReply
  BY DEF Flow, Single
<1>5. Unread(before)
  BY <1>3, <1>4 DEF Unread, Replies, OneReply, Inv, Typed, TypedCalls
<1>6. ASSUME t.to = "peer"
      PROVE  Last(p, t, before, b)
  <2>1. Fresh(p, t, b)
    BY <1>1, <1>6
  <2>2. Unheld(p, t.peer, t.era, t.id)'
    BY <2>1, <1>2 DEF Fresh, Unheld, Keyed
  <2>3. t.era = era[t.peer][p] => \A n \in DOMAIN before[t.peer][p] : before[t.peer][p][n].id # t.id
    BY <2>1, <1>3 DEF Fresh, Replies
  <2> QED
    BY <2>1, <2>2, <2>3 DEF Fresh, Last
<1>7. Freed(p, t)
  <2>1. \A x \in Peer : \A u : Holds(x, u) => Holds(x, u)'
    BY <1>2 DEF Holds
  <2>2. ASSUME NEW x \in Peer, NEW y \in Peer, NEW m \in Messages(x, y), m \notin Messages(x, y)'
        PROVE  y = p /\ m.call = t.call /\ p \notin calls[t.call].to /\ t = BackTo(m, x)
    <3>1. ~\E n \in DOMAIN b[x][y] : b[x][y][n] = m
      BY <2>2 DEF Messages
    <3> QED
      BY <3>1, <1>1 DEF Owned
  <2> QED
    BY <2>1, <2>2, <1>2 DEF Freed
<1>8. Root(p, t)
  BY <1>1 DEF Root
<1>9. \A d \in DOMAIN calls' : d \notin DOMAIN calls =>
        /\ d = t.call /\ calls'[d].to = {} /\ ~Many(d)' /\ batch[d] = {}
        /\ calls'[d].reply => t.to = "caller"
  BY <1>1 DEF Owned, ToCaller
<1>10. t \in Then \/ t.to = "nowhere"
  BY <1>1 DEF Asks
<1>11. Answered(p, t, {}, before)
  BY <1>3
<1>12. Homeward(p, t, {}, before, b)
  BY <1>1, <1>2, <1>5, <1>6, <1>7, <1>8, <1>9, <1>10, <1>11 DEF Homeward
<1> QED
  BY <1>12, HomewardFlows

LEMMA OwnedFlows ==
    ASSUME Inv, BoundsAssumption, Flow, NEW p \in Peer, NEW q, NEW c, NEW t, NEW b, Owned(p, q, c, t, b),
           ToOne(p, q, c, t, b)
    PROVE  Flow'
<1>1. /\ c \in Call /\ Within(b) /\ t.call = c /\ (Asks(t) => t \in Then)
      /\ handled \in [Call -> [Peer -> Nat]] /\ peers[p] \subseteq Peer /\ p \notin peers[p]
  BY DEF Owned, Inv, Typed, TypedLinks, TypedCalls
<1>2. PICK then : then = [r \in Peer |-> t]
  OBVIOUS
<1>3. \A r \in Peer : then[r] = t
  BY <1>2
<1>4. CASE /\ q = p
           /\ Handled(p, c, t)
           /\ chan' = b
           /\ UNCHANGED <<requests, replies>>
  <2>1. PICK ran \in BOOLEAN, to \in SUBSET Peer : ran = TRUE /\ to = {}
    OBVIOUS
  <2>2. Gained(p, to, c, then, b)
    BY <2>1, <1>4, UnsentGains
  <2>3. work' = work \cup (IF ran /\ Asks(then[p]) THEN {[at |-> p, then |-> then[p]]} ELSE {})
    BY <2>1, <1>3, <1>4 DEF Handled
  <2>4. \A d \in Call, y \in Peer :
          handled'[d][y] = IF ran /\ d = c /\ y = p THEN handled[d][y] + 1 ELSE handled[d][y]
    BY <2>1, <1>1, <1>4 DEF Handled
  <2>5. Having(p, to, ran) = {q} /\ to \subseteq peers[p] /\ UNCHANGED replies
    BY <2>1, <1>4 DEF Having
  <2> QED
    BY <2>2, <2>3, <2>4, <2>5, <1>2, OwnedGoes
<1>5. CASE /\ q \in peers[p]
           /\ Sent(p, {q}, c, [r \in Peer |-> t], b)
           /\ UNCHANGED <<runs, replies>>
  <2>1. PICK ran \in BOOLEAN, to \in SUBSET Peer : ran = FALSE /\ to = {q}
    BY <1>1, <1>5
  <2>2. Gained(p, to, c, then, b)
    BY <2>1, <1>1, <1>2, <1>3, <1>5, SentGains
  <2>3. work' = work \cup (IF ran /\ Asks(then[p]) THEN {[at |-> p, then |-> then[p]]} ELSE {})
    BY <2>1, <1>5 DEF runs
  <2>4. \A d \in Call, y \in Peer :
          handled'[d][y] = IF ran /\ d = c /\ y = p THEN handled[d][y] + 1 ELSE handled[d][y]
    BY <2>1, <1>5 DEF runs
  <2>5. Having(p, to, ran) = {q} /\ to \subseteq peers[p] /\ UNCHANGED replies
    BY <2>1, <1>5 DEF Having
  <2> QED
    BY <2>2, <2>3, <2>4, <2>5, <1>2, OwnedGoes
<1>6. CASE /\ q # p /\ q \notin peers[p]
           /\ Answered(p, t, {}, back)
           /\ chan' = b
           /\ UNCHANGED <<runs, requests>>
  BY <1>6, OwnedEnds
<1> QED
  BY <1>4, <1>5, <1>6 DEF ToOne

\* A call to one peer, new and yet to be sent.
LEMMA CallOneFlows ==
    ASSUME Inv, BoundsAssumption, Flow, NEW p \in Peer, NEW kind \in {"one", "lead", "host"},
           NEW q, NEW to, to \subseteq {q} \cap (peers[p] \cup {p}), kind # "one" => to = {},
           NEW reply \in BOOLEAN, Record(p, kind, to, reply), UNCHANGED links,
           ToOne(p, q, NewCall, ToNew(reply), chan)
    PROVE  Flow'
<1>1. PICK c, b, t : c = NewCall /\ b = chan /\ t = ToNew(reply)
  OBVIOUS
<1>2. to \subseteq Peer
  BY DEF Inv, Typed, TypedLinks
<1>3. /\ Grown /\ c \in Call /\ c \notin DOMAIN calls
      /\ calls'[c].by = p /\ calls'[c].kind = kind /\ calls'[c].to = to /\ batch[c] = {}
  BY <1>1, <1>2, Records
<1>4. \A d \in DOMAIN calls' : d \in DOMAIN calls \/ d = c
  <2>1. calls \in Seq(Made)
    BY DEF Inv, Typed, TypedCalls
  <2>2. PICK made : made = [by |-> p, kind |-> kind, to |-> to, reply |-> reply]
    OBVIOUS
  <2>3. calls' = Append(calls, made) /\ made \in Made
    BY <2>2, <1>2 DEF Record, Made
  <2>4. DOMAIN calls' = 1 .. Len(calls) + 1 /\ DOMAIN calls = 1 .. Len(calls) /\ Len(calls) \in Nat
    BY <2>1, <2>3
  <2> QED
    BY <2>4, <1>1 DEF NewCall
<1>5. ~Many(c)'
  BY <1>3 DEF Many
<1>6. calls'[c].reply = reply
  <2>1. calls \in Seq(Made)
    BY DEF Inv, Typed, TypedCalls
  <2>2. PICK made : made = [by |-> p, kind |-> kind, to |-> to, reply |-> reply]
    OBVIOUS
  <2>3. calls' = Append(calls, made) /\ made \in Made
    BY <2>2, <1>2 DEF Record, Made
  <2>4. calls'[Len(calls) + 1] = made
    BY <2>1, <2>3
  <2> QED
    BY <2>2, <2>4, <1>1 DEF NewCall
<1>7. /\ t.call = c /\ (Asks(t) => t \in Then) /\ t.to \in {"caller", "nowhere"} /\ (reply => t = ToCaller(c))
  BY <1>1, <1>3, ThenMade DEF ToNew, Asks
<1>8. Within(b)
  BY <1>1, WithinSelf DEF Inv
<1>9. \A x, y \in Peer : \A m \in Messages(x, y) : \E n \in DOMAIN b[x][y] : b[x][y][n] = m
  BY <1>1 DEF Messages
<1>10. Owned(p, q, c, t, b)
  BY <1>3, <1>4, <1>5, <1>6, <1>7, <1>8, <1>9 DEF Owned
<1> QED
  BY <1>1, <1>10, OwnedFlows

\* A call to many, of which nothing is under way.
LEMMA CallManyFlows ==
    ASSUME Inv, BoundsAssumption, Flow, NEW p \in Peer, NEW here \in BOOLEAN, NEW reply \in BOOLEAN,
           CallMany(p, here, reply)
    PROVE  Flow'
<1>1. Typed /\ Counted
  BY Counts DEF Inv
<1>2. PICK c, b, to : c = NewCall /\ b = chan /\ to = peers[p]
  OBVIOUS
<1>3. PICK then : then = [q \in Peer |-> IF reply THEN ToBatch(c, q) ELSE Nowhere(c)]
  OBVIOUS
<1>4. PICK all : all = to \cup (IF here THEN {p} ELSE {})
  OBVIOUS
<1>5. PICK kind \in {"one", "lead", "host", "others", "all"} : kind = IF here THEN "all" ELSE "others"
  OBVIOUS
<1>6. /\ Record(p, kind, all, reply)
      /\ Sent(p, to, c, then, b)
      /\ batch' = IF reply THEN [batch EXCEPT ![c] = {[remaining |-> all, results |-> {}]}] ELSE batch
      /\ IF here THEN Handled(p, c, then[p]) ELSE UNCHANGED runs
      /\ UNCHANGED <<links, back, answers>>
  BY <1>2, <1>3, <1>4, <1>5 DEF CallMany, Awaited
<1>7. to \subseteq Peer /\ p \notin to /\ all \subseteq Peer /\ Having(p, to, here) = all
  BY <1>1, <1>2, <1>4 DEF Typed, TypedLinks, Having
<1>8. /\ Grown /\ c \in Call /\ c \notin DOMAIN calls
      /\ calls'[c].by = p /\ calls'[c].kind = kind /\ calls'[c].to = all /\ batch[c] = {}
  BY <1>2, <1>6, <1>7, Records
<1>9. (\A d \in DOMAIN calls' : d \in DOMAIN calls \/ d = c) /\ calls'[c].reply = reply
  <2>1. calls \in Seq(Made)
    BY <1>1 DEF Typed, TypedCalls
  <2>2. PICK made : made = [by |-> p, kind |-> kind, to |-> all, reply |-> reply]
    OBVIOUS
  <2>3. calls' = Append(calls, made) /\ made \in Made
    BY <2>2, <1>6, <1>7 DEF Record, Made
  <2>4. /\ DOMAIN calls' = 1 .. Len(calls) + 1 /\ DOMAIN calls = 1 .. Len(calls) /\ Len(calls) \in Nat
        /\ calls'[Len(calls) + 1] = made
    BY <2>1, <2>3
  <2> QED
    BY <2>2, <2>4, <1>2 DEF NewCall
<1>10. ASSUME NEW y \in Peer
       PROVE  /\ then[y].call = c /\ (Asks(then[y]) => then[y] \in Then) /\ then[y].to # "peer"
              /\ reply => then[y] = ToBatch(c, y)
  BY <1>3, <1>8, <1>10, ThenMade DEF Asks
<1>11. Within(b)
  BY <1>1, <1>2, WithinSelf
<1>12. Gained(p, to, c, then, b)
  BY <1>6, <1>7, <1>8, <1>10, <1>11, SentGains
<1>13. /\ work' = work \cup (IF here /\ Asks(then[p]) THEN {[at |-> p, then |-> then[p]]} ELSE {})
       /\ \A d \in Call, y \in Peer :
            handled'[d][y] = IF here /\ d = c /\ y = p THEN handled[d][y] + 1 ELSE handled[d][y]
  <2>1. CASE here
    <3>1. handled \in [Call -> [Peer -> Nat]]
      BY <1>1 DEF Typed, TypedCalls
    <3> QED
      BY <3>1, <2>1, <1>6, <1>8 DEF Handled
  <2>2. CASE ~here
    BY <2>2, <1>6 DEF runs
  <2> QED
    BY <2>1, <2>2
<1>14. Handing(p, to, c, then, b, here)
  BY <1>7, <1>10 DEF Handing
<1>15. Taking(p, to, c, then, b, here)
  BY <1>2 DEF Taking, Messages
<1>16. Beginning(p, to, c, then, here)
  <2>1. PICK r : r = [remaining |-> all, results |-> {}]
    OBVIOUS
  <2>2. r.remaining = all /\ batch \in [Call -> SUBSET Awaiting]
    BY <2>1, <1>1 DEF Typed, TypedRequests
  <2>3. batch' = IF reply THEN [batch EXCEPT ![c] = {r}] ELSE batch
    BY <2>1, <1>6
  <2>4. /\ \A d \in Call : d # c => batch'[d] = batch[d]
        /\ batch'[c] = IF reply THEN {r} ELSE {}
    BY <2>2, <2>3, <1>8
  <2>5. \A d \in DOMAIN calls : batch'[d] = batch[d]
    BY <2>4, <1>1, <1>8 DEF Counted
  <2>6. calls'[c].kind = "all" => calls'[c].to # {}
    BY <1>4, <1>5, <1>8
  <2>7. Many(c)' /\ calls'[c].kind \notin {"lead", "host"}
    BY <1>5, <1>8 DEF Many
  <2>8. reply => batch'[c] # {} /\ \A y \in Having(p, to, here) : then[y] = ToBatch(c, y)
    BY <2>4, <1>7, <1>10
  <2>9. \A s \in batch'[c] : s.remaining = calls'[c].to
    BY <2>2, <2>4, <1>8
  <2> QED
    BY <2>5, <2>6, <2>7, <2>8, <2>9, <1>7, <1>8, <1>9 DEF Beginning
<1>17. Onward(p, to, c, then, b, here)
  BY <1>2, <1>6, <1>8, <1>11, <1>12, <1>13, <1>14, <1>15, <1>16 DEF Onward
<1> QED
  BY <1>17, OnwardFlows

\* q reads a call of p, which with its channel's head is gone from it.
LEMMA ReadFlows ==
    ASSUME Inv, BoundsAssumption, Flow, NEW p \in Peer, NEW q \in Peer, ReadCall(p, q)
    PROVE  Flow'
<1>1. /\ Typed /\ Counted /\ OneMessage /\ MessageAlone /\ Rooted /\ Waited
  BY Counts DEF Inv, Flow, Single
<1>2. PICK m, b, c, t : /\ m = Head(chan[p][q]) /\ b = [chan EXCEPT ![p][q] = Tail(@)]
                        /\ c = m.call /\ t = BackTo(m, p)
  OBVIOUS
<1>3. PICK to : to = CASE calls[c].kind \in {"one", "others", "all"} -> q
                       [] calls[c].kind = "host" /\ m.id = 0 -> None
                       [] OTHER -> where[q]
  OBVIOUS
<1>4. /\ chan[p][q] # <<>> /\ ToOne(q, to, c, t, b)
      /\ UNCHANGED <<links, calls>>
  BY <1>2, <1>3 DEF ReadCall
<1>5. /\ Within(b) /\ \A x, y \in Peer : ~(x = p /\ y = q) => b[x][y] = chan[x][y]
  <2>1. Within(b)
    BY <1>1, <1>2, <1>4, WithinTail
  <2>2. \A x, y \in Peer : ~(x = p /\ y = q) => b[x][y] = chan[x][y]
    BY <1>1, <1>2, <1>4, WithinTail
  <2> QED
    BY <2>1, <2>2
<1>6. PICK s, r : s = chan[p][q] /\ r = b[p][q]
  OBVIOUS
<1>7. /\ s \in Seq(Message) /\ s # <<>> /\ Len(s) \in Nat \ {0} /\ DOMAIN s = 1 .. Len(s) /\ m = s[1]
      /\ r = Tail(s)
  <2>1. chan \in [Peer -> [Peer -> Seq(Message)]]
    BY <1>1 DEF Typed, TypedCalls
  <2> QED
    BY <2>1, <1>2, <1>4, <1>6, LenProperties, EmptySeq, HeadTailProperties
<1>8. DOMAIN r = 1 .. Len(s) - 1 /\ \A n \in 1 .. Len(s) - 1 : r[n] = s[n + 1]
  BY <1>7, LenProperties, HeadTailProperties
<1>9. /\ \A n \in DOMAIN r : n + 1 \in DOMAIN s /\ n + 1 # 1 /\ r[n] = s[n + 1]
      /\ \A n \in DOMAIN s : n = 1 \/ (n - 1 \in DOMAIN r /\ r[n - 1] = s[n])
      /\ 1 \in DOMAIN s
  BY <1>7, <1>8
<1>10. m \in Messages(p, q) /\ m \in Message
  BY <1>6, <1>7, <1>9, ElementOfSeq DEF Messages
<1>11. c \in Call /\ c \in DOMAIN calls /\ m.id \in 0 .. MaxId /\ m.era \in 0 .. MaxUpsets
  BY <1>1, <1>2, <1>10 DEF Message, Counted
<1>12. /\ t.call = c /\ (Asks(t) => t \in Then) /\ t.to # "batch"
       /\ t.to = "peer" => m.id # 0 /\ t.peer = p /\ t.era = m.era /\ t.id = m.id
  <2>1. CASE m.id = 0
    BY <2>1, <1>2, <1>11, ThenMade DEF BackTo, Asks
  <2>2. CASE m.id # 0
    <3>1. m.id \in 1 .. MaxId
      BY <2>2, <1>11
    <3> QED
      BY <2>2, <3>1, <1>2, <1>11, ThenMade DEF BackTo, Asks
  <2> QED
    BY <2>1, <2>2
<1>13. ASSUME t.to = "peer"
       PROVE  Fresh(q, t, b) /\ Root(q, t)
  <2>1. m.id # 0 /\ t.peer = p /\ t.era = m.era /\ t.id = m.id
    BY <1>12, <1>13
  <2>2. Unheld(q, p, m.era, m.id) /\ (m.era = era[p][q] => \A a \in Replies(p, q) : a.id # m.id)
    BY <2>1, <1>1, <1>10 DEF MessageAlone
  <2>3. ASSUME NEW n \in DOMAIN b[p][q], b[p][q][n].era = m.era, b[p][q][n].id = m.id
        PROVE  FALSE
    <3>1. n + 1 \in DOMAIN s /\ n + 1 # 1 /\ s[n + 1].era = m.era /\ s[n + 1].id = m.id
      BY <2>3, <1>6, <1>9
    <3>2. \A k, l \in DOMAIN s : s[k].id # 0 /\ s[k].id = s[l].id /\ s[k].era = s[l].era => k = l
      BY <1>1, <1>6 DEF OneMessage
    <3> QED
      BY <3>1, <3>2, <2>1, <1>7, <1>9
  <2>4. m.call \notin lost => Entered(p, q, m.era, m.id, m.call)
    BY <2>1, <1>1, <1>10 DEF Rooted
  <2> QED
    BY <2>1, <2>2, <2>3, <2>4, <1>2, <1>12 DEF Fresh, Root
<1>14. ASSUME NEW x \in Peer, NEW y \in Peer, NEW l \in Messages(x, y), ~\E n \in DOMAIN b[x][y] : b[x][y][n] = l
       PROVE  x = p /\ y = q /\ l = m
  <2>1. PICK n \in DOMAIN chan[x][y] : l = chan[x][y][n]
    BY DEF Messages
  <2>2. x = p /\ y = q
    BY <2>1, <1>5, <1>14
  <2>3. n = 1
    BY <2>1, <2>2, <1>6, <1>9, <1>14
  <2> QED
    BY <2>1, <2>2, <2>3, <1>6, <1>7
<1>15. q \in calls[c].to => to = q
  <2>1. calls[c].kind \in {"one", "lead", "host", "others", "all"}
    <3>1. calls \in Seq(Made)
      BY <1>1 DEF Typed, TypedCalls
    <3>2. calls[c] \in Made
      BY <3>1, <1>11, ElementOfSeq, LenProperties
    <3> QED
      BY <3>2 DEF Made
  <2>2. calls[c].kind \in {"lead", "host"} => calls[c].to = {}
    BY <1>1, <1>11 DEF Waited
  <2> QED
    BY <2>1, <2>2, <1>3
<1>16. Grown
  BY <1>1, <1>4 DEF Grown, Typed, TypedCalls
<1>17. Owned(q, to, c, t, b)
  BY <1>2, <1>4, <1>5, <1>11, <1>12, <1>13, <1>14, <1>15, <1>16 DEF Owned
<1> QED
  BY <1>4, <1>17, OwnedFlows

-----------------------------------------------------------------------------
(* The invariant holds, and what follows from it.                          *)

LEMMA FlowStarts ==
    ASSUME Init, BoundsAssumption
    PROVE  Flow
<1> USE DEF Init
<1>1. DOMAIN calls = {} /\ work = {}
  OBVIOUS
<1>2. \A p, q \in Peer : chan[p][q] = <<>> /\ back[p][q] = <<>> /\ pending[p][q] = {}
  OBVIOUS
<1>3. \A p, q \in Peer : DOMAIN chan[p][q] = {} /\ DOMAIN back[p][q] = {}
  BY <1>2
<1>4. \A p, q \in Peer : Messages(p, q) = {} /\ Replies(p, q) = {}
  BY <1>3 DEF Messages, Replies
<1>5. Single
  BY <1>1, <1>2, <1>3, <1>4
     DEF Single, OneMessage, OneReply, OneEntry, MessageAlone, ReplyAlone, OneHolder
<1>6. Rooted /\ Underway /\ Arriving /\ Waited
  BY <1>1, <1>2, <1>4 DEF Rooted, Underway, Arriving, Waited
<1>7. Expected /\ Moving
  BY <1>1 DEF Expected, Moving, Open
<1> QED
  BY <1>5, <1>6, <1>7 DEF Flow

LEMMA FlowSteps ==
    ASSUME Inv, BoundsAssumption, Flow, [Next]_vars
    PROVE  Flow'
<1>1. ASSUME NEW p \in Peer, NEW q \in Peer, NEW reply \in BOOLEAN, CallOne(p, q, reply)
      PROVE  Flow'
  <2>1. PICK to, kind : to = {q} \cap (peers[p] \cup {p}) /\ kind = "one"
    OBVIOUS
  <2>2. /\ Record(p, kind, to, reply) /\ UNCHANGED links
        /\ ToOne(p, q, NewCall, ToNew(reply), chan)
    BY <2>1, <1>1 DEF CallOne
  <2>3. to \subseteq {q} \cap (peers[p] \cup {p}) /\ (kind # "one" => to = {}) /\ kind \in {"one", "lead", "host"}
    BY <2>1
  <2> QED
    BY <2>2, <2>3, CallOneFlows
<1>2. ASSUME NEW p \in Peer, NEW kind \in {"lead", "host"}, NEW reply \in BOOLEAN, CallChased(p, kind, reply)
      PROVE  Flow'
  <2>1. PICK q, to : q = where[p] /\ to = {}
    OBVIOUS
  <2>2. /\ Record(p, kind, to, reply) /\ UNCHANGED links
        /\ ToOne(p, q, NewCall, ToNew(reply), chan)
    BY <2>1, <1>2 DEF CallChased
  <2>3. to \subseteq {q} \cap (peers[p] \cup {p}) /\ (kind # "one" => to = {}) /\ kind \in {"one", "lead", "host"}
    BY <2>1
  <2> QED
    BY <2>2, <2>3, CallOneFlows
<1>3. ASSUME NEW p \in Peer, NEW q \in Peer, GetThrough(p, q) \/ Hear(p, q)
      PROVE  Flow'
  BY <1>3, RestFlows DEF GetThrough, Hear
<1>4. ASSUME NEW p \in Peer, NEW q \in Peer \cup {None}, Move(p, q)
      PROVE  Flow'
  BY <1>4, RestFlows DEF Move, links
<1>5. CASE UNCHANGED vars
  BY <1>5, RestFlows DEF vars, links
<1> QED
  BY <1>1, <1>2, <1>3, <1>4, <1>5, CallManyFlows, FinishFlows, AnswerFlows, ReadFlows, CutFlows DEF Next

\* Whatever calls are made and passed on, however often links break: what is known by
\* the same peers, the same number of cuts and the same id is one thing, and whoever
\* is waited for is on the way to it (Peer::sendRequestMessage, Peer::handleResponse,
\* RequestMessage::handle, PeerConnection::sendResponse).
THEOREM FlowHolds == Spec => []Flow
<1>1. Init => Flow
  BY FlowStarts, BoundsAssumption
<1>2. Inv /\ Flow /\ [Next]_vars => Flow'
  BY FlowSteps, BoundsAssumption
<1> QED
  BY <1>1, <1>2, InvHolds, PTL DEF Spec

\* A set whose elements are all the same has one, or none.
LEMMA AtMostOne ==
    ASSUME NEW S, \A x, y \in S : x = y
    PROVE  Cardinality(S) = IF S = {} THEN 0 ELSE 1
<1>1. CASE S = {}
  BY <1>1, FS_EmptySet
<1>2. CASE S # {}
  <2>1. PICK x : S = {x}
    BY <1>2
  <2> QED
    BY <2>1, <1>2, FS_Singleton
<1> QED
  BY <1>1, <1>2

\* How many callbacks wait, if they wait at one place.
LEMMA HoldersCount ==
    ASSUME NEW x \in Peer, NEW t,
           \A w, v \in work : w.at = x /\ w.then = t /\ v.at = x /\ v.then = t => w = v,
           \A w \in work, y \in Peer : \A e \in pending[x][y] : w.at = x /\ w.then = t => e.then # t,
           \A y, z \in Peer : \A e \in pending[x][y], f \in pending[x][z] : e.then = t /\ f.then = t => y = z
    PROVE  Holders(x, t) = IF Holds(x, t) THEN 1 ELSE 0
<1>1. PICK W, P : /\ W = {w \in work : w.at = x /\ w.then = t}
                  /\ P = {q \in Peer : \E e \in pending[x][q] : e.then = t}
  OBVIOUS
<1>2. Cardinality(W) = (IF W = {} THEN 0 ELSE 1) /\ Cardinality(P) = (IF P = {} THEN 0 ELSE 1)
  <2>1. (\A w, v \in W : w = v) /\ (\A y, z \in P : y = z)
    BY <1>1
  <2> QED
    BY <2>1, AtMostOne
<1>3. W = {} \/ P = {}
  BY <1>1
<1>4. Holds(x, t) <=> W # {} \/ P # {}
  BY <1>1 DEF Holds
<1>5. Holders(x, t) = Cardinality(W) + Cardinality(P)
  BY <1>1 DEF Holders
<1> QED
  BY <1>2, <1>3, <1>4, <1>5

\* A request that lost nothing has one answer to come.
LEMMA OneWay ==
    ASSUME Inv, BoundsAssumption, Flow, NEW p \in Peer, NEW q \in Peer, NEW e \in pending[p][q],
           e.then.call \notin lost
    PROVE  Ways(p, q, e) = 1
<1>1. /\ OneMessage /\ OneReply /\ OneEntry /\ MessageAlone /\ ReplyAlone /\ OneHolder /\ Underway /\ Counted
  BY Counts DEF Flow, Single
<1>2. e.era = era[p][q] /\ OnWay(p, q, e) /\ e.id # 0 /\ e.id \in Nat /\ e.era \in Nat
  <2>1. e.era = era[p][q] /\ OnWay(p, q, e)
    BY <1>1 DEF Underway
  <2>2. e.id \in Nat \ {0} /\ era[p][q] \in Nat
    BY <1>1 DEF Counted
  <2> QED
    BY <2>1, <2>2
<1>3. PICK t : t = ToPeer(e.then.call, p, e.era, e.id)
  OBVIOUS
<1>4. t.to = "peer" /\ Keyed(t, p, e.era, e.id) /\ t.peer = p /\ t.era = e.era /\ t.id = e.id
  BY <1>3 DEF ToPeer, Keyed
<1>5. PICK A, B : /\ A = {n \in DOMAIN chan[p][q] : chan[p][q][n].id = e.id /\ chan[p][q][n].era = e.era}
                  /\ B = {n \in DOMAIN back[p][q] : back[p][q][n].id = e.id}
  OBVIOUS
<1>6. Cardinality(A) = (IF A = {} THEN 0 ELSE 1) /\ Cardinality(B) = (IF B = {} THEN 0 ELSE 1)
  <2>1. \A k, l \in A : k = l
    BY <1>1, <1>2, <1>5 DEF OneMessage
  <2>2. \A k, l \in B : k = l
    BY <1>1, <1>5 DEF OneReply
  <2> QED
    BY <2>1, <2>2, AtMostOne
<1>7. Holders(q, t) = IF Holds(q, t) THEN 1 ELSE 0
  <2>1. \A w, v \in work : w.at = q /\ w.then = t /\ v.at = q /\ v.then = t => w = v
    BY <1>1, <1>4 DEF OneHolder, SameKey, Keyed
  <2>2. \A w \in work, y \in Peer : \A f \in pending[q][y] : w.at = q /\ w.then = t => f.then # t
    BY <1>1, <1>4 DEF OneHolder, SameKey, Keyed
  <2>3. \A y, z \in Peer : \A f \in pending[q][y], g \in pending[q][z] : f.then = t /\ g.then = t => y = z
    BY <1>1, <1>4 DEF OneHolder, SameKey, Keyed
  <2> QED
    BY <2>1, <2>2, <2>3, HoldersCount
<1>8. A # {} <=> \E m \in Messages(p, q) : m.era = e.era /\ m.id = e.id
  BY <1>5 DEF Messages
<1>9. B # {} <=> \E a \in Replies(p, q) : a.id = e.id
  BY <1>5 DEF Replies
<1>10. Holds(q, t) => ~Unheld(q, p, e.era, e.id)
  BY <1>4 DEF Holds, Unheld
<1>11. A # {} => B = {} /\ Unheld(q, p, e.era, e.id)
  <2>1. ASSUME NEW m \in Messages(p, q), m.era = e.era, m.id = e.id
        PROVE  Unheld(q, p, e.era, e.id) /\ \A a \in Replies(p, q) : a.id # e.id
    BY <2>1, <1>1, <1>2 DEF MessageAlone
  <2> QED
    BY <2>1, <1>8, <1>9
<1>12. B # {} => Unheld(q, p, e.era, e.id)
  BY <1>1, <1>2, <1>9 DEF ReplyAlone
<1>13. A # {} \/ B # {} \/ Holds(q, t)
  BY <1>2, <1>3, <1>8, <1>9 DEF OnWay
<1>14. Ways(p, q, e) = Cardinality(A) + Holders(q, t) + Cardinality(B)
  BY <1>3, <1>5 DEF Ways
<1> QED
  BY <1>6, <1>7, <1>10, <1>11, <1>12, <1>13, <1>14

\* A callback to a caller, or to a batch, waits at one place.
LEMMA OneAnswer ==
    ASSUME Inv, BoundsAssumption, NEW x \in Peer, NEW t, Holds(x, t), t.to \in {"caller", "batch"}
    PROVE  Holders(x, t) = 1
<1>1. Typed /\ Counted /\ Working /\ Waiting /\ Sole
  BY Counts DEF Inv
<1>2. ASSUME NEW w \in work, NEW v \in work, w.at = x, w.then = t, v.at = x, v.then = t
      PROVE  w = v
  <2>1. w = [at |-> w.at, then |-> w.then] /\ v = [at |-> v.at, then |-> v.then]
    BY <1>1 DEF Counted, Request
  <2> QED
    BY <2>1, <1>2
<1>3. ASSUME NEW w \in work, NEW y \in Peer, NEW e \in pending[x][y], w.at = x, w.then = t, e.then = t
      PROVE  FALSE
  <2>1. CASE t.to = "caller"
    BY <2>1, <1>1, <1>3 DEF Sole
  <2>2. CASE t.to = "batch"
    <3>1. Many(t.call)
      BY <2>2, <1>1, <1>3 DEF Working, Callback
    <3>2. t.of = x /\ t.of = y
      BY <3>1, <2>2, <1>1, <1>3 DEF Working, Waiting
    <3> QED
      BY <3>2, <1>1, <1>3 DEF Counted
  <2> QED
    BY <2>1, <2>2
<1>4. ASSUME NEW y \in Peer, NEW z \in Peer, NEW e \in pending[x][y], NEW f \in pending[x][z], e.then = t, f.then = t
      PROVE  y = z
  <2>1. CASE t.to = "caller"
    BY <2>1, <1>1, <1>4 DEF Sole
  <2>2. CASE t.to = "batch"
    <3>1. Many(t.call)
      BY <2>2, <1>1, <1>4 DEF Waiting, Callback
    <3> QED
      BY <3>1, <2>2, <1>1, <1>4 DEF Waiting
  <2> QED
    BY <2>1, <2>2
<1>5. Holders(x, t) = IF Holds(x, t) THEN 1 ELSE 0
  BY <1>2, <1>3, <1>4, HoldersCount
<1> QED
  BY <1>5

\* No request is forgotten or doubled on its way (InFlight of RemoteCalls): of a call that
\* has lost nothing with a link, every entry of _pendingRequests has exactly one answer
\* to come, and so has a caller, and everyone a batch still waits for
\* (Peer::sendRequestMessage, RequestMessage::handle, PeerConnection::sendResponse).
THEOREM RequestsInFlight == Spec => []InFlight
<1>1. ASSUME Inv, Flow
      PROVE  InFlight
  <2> SUFFICES ASSUME NEW c \in DOMAIN calls \ lost
               PROVE  /\ \A p, q \in Peer : \A e \in pending[p][q] : e.then.call = c => Ways(p, q, e) = 1
                      /\ calls[c].reply /\ answers[c] = <<>> =>
                           IF calls[c].kind \in {"others", "all"}
                           THEN \E b \in batch[c] : \A q \in b.remaining : Holders(calls[c].by, ToBatch(c, q)) = 1
                           ELSE Holders(calls[c].by, ToCaller(c)) = 1
    BY DEF InFlight
  <2>1. Typed /\ Counted /\ Expected /\ c \in Call
    BY <1>1, Counts, BoundsAssumption DEF Inv, Flow, Counted
  <2>2. PICK u \in Peer : u = calls[c].by
    <3>1. calls \in Seq(Made)
      BY <2>1 DEF Typed, TypedCalls
    <3>2. calls[c] \in Made
      BY <3>1, ElementOfSeq, LenProperties
    <3> QED
      BY <3>2 DEF Made
  <2>3. ASSUME NEW p \in Peer, NEW q \in Peer, NEW e \in pending[p][q], e.then.call = c
        PROVE  Ways(p, q, e) = 1
    BY <2>3, <1>1, OneWay, BoundsAssumption
  <2>4. ASSUME calls[c].reply, answers[c] = <<>>, Many(c)
        PROVE  \E b \in batch[c] : \A q \in b.remaining : Holders(u, ToBatch(c, q)) = 1
    <3>1. PICK r \in batch[c] : \A q \in r.remaining : Holds(u, ToBatch(c, q))
      BY <2>1, <2>2, <2>4 DEF Expected, Open
    <3>2. ASSUME NEW q \in r.remaining
          PROVE  Holders(u, ToBatch(c, q)) = 1
      <4>1. PICK t : t = ToBatch(c, q)
        OBVIOUS
      <4>2. t.to = "batch" /\ Holds(u, t)
        BY <4>1, <3>1 DEF ToBatch
      <4>3. Holders(u, t) = 1
        BY <4>2, <1>1, OneAnswer, BoundsAssumption
      <4> QED
        BY <4>1, <4>3
    <3> QED
      BY <3>1, <3>2
  <2>5. ASSUME calls[c].reply, answers[c] = <<>>, ~Many(c)
        PROVE  Holders(u, ToCaller(c)) = 1
    <3>1. PICK t : t = ToCaller(c)
      OBVIOUS
    <3>2. t.to = "caller" /\ Holds(u, t)
      BY <3>1, <2>1, <2>2, <2>5 DEF Expected, Open, ToCaller
    <3>3. Holders(u, t) = 1
      BY <3>2, <1>1, OneAnswer, BoundsAssumption
    <3> QED
      BY <3>1, <3>3
  <2> QED
    BY <2>2, <2>3, <2>4, <2>5 DEF Many
<1> QED
  BY <1>1, InvHolds, FlowHolds, PTL

\* When nothing is left to read or to do (Served of RemoteCalls), every request that lost
\* nothing with a link has been answered, but for one to "the others" when there were
\* none, and a call has been handled by everyone it was for (PeerManager::requestOthers,
\* request, handleResponse).
THEOREM AllServed == Spec => []Served
<1>1. ASSUME Inv, Flow
      PROVE  Served
  <2> SUFFICES ASSUME AtRest, NEW c \in DOMAIN calls \ lost
               PROVE  /\ calls[c].reply => answers[c] # <<>> \/ (calls[c].kind = "others" /\ calls[c].to = {})
                      /\ \A q \in calls[c].to : handled[c][q] = 1
    BY DEF Served
  <2>1. /\ Typed /\ Counted /\ Waiting /\ Once
        /\ Underway /\ Expected /\ Arriving /\ Moving /\ Waited /\ c \in Call
    BY <1>1, Counts, BoundsAssumption DEF Inv, Flow, Counted
  <2>2. calls[c].by \in Peer /\ calls[c].to \subseteq Peer
    <3>1. calls \in Seq(Made)
      BY <2>1 DEF Typed, TypedCalls
    <3>2. calls[c] \in Made
      BY <3>1, ElementOfSeq, LenProperties
    <3> QED
      BY <3>2 DEF Made
  <2>3. /\ work = {}
        /\ \A x, y \in Peer : Messages(x, y) = {} /\ Replies(x, y) = {}
    <3>1. \A x, y \in Peer : DOMAIN chan[x][y] = {} /\ DOMAIN back[x][y] = {}
      BY DEF AtRest
    <3> QED
      BY <3>1 DEF AtRest, Messages, Replies
  <2>4. ASSUME calls[c].reply, answers[c] = <<>>
        PROVE  calls[c].kind = "others" /\ calls[c].to = {}
    <3>1. Open(c)
      BY <2>4 DEF Open
    <3>2. Many(c)
      BY <3>1, <2>1, <2>3 DEF Moving, Tip
    <3>3. PICK u \in Peer : u = calls[c].by
      BY <2>2
    <3>4. PICK r \in batch[c] : \A q \in r.remaining : Holds(u, ToBatch(c, q))
      BY <3>1, <3>2, <3>3, <2>1 DEF Expected
    <3>5. ASSUME NEW q \in r.remaining
          PROVE  FALSE
      <4>1. PICK t : t = ToBatch(c, q)
        OBVIOUS
      <4>2. t.call = c /\ Holds(u, t)
        BY <4>1, <3>4 DEF ToBatch
      <4>3. PICK y \in Peer : \E e \in pending[u][y] : e.then = t
        BY <4>2, <2>3 DEF Holds
      <4>4. PICK e \in pending[u][y] : e.then = t
        BY <4>3
      <4>5. OnWay(u, y, e)
        BY <4>2, <4>4, <2>1 DEF Underway
      <4>6. PICK v : v = ToPeer(e.then.call, u, e.era, e.id)
        OBVIOUS
      <4>7. Holds(y, v) /\ v.call = c /\ v.to = "peer"
        BY <4>2, <4>4, <4>5, <4>6, <2>3 DEF OnWay, ToPeer
      <4>8. PICK z \in Peer : \E f \in pending[y][z] : f.then = v
        BY <4>7, <2>3 DEF Holds
      <4>9. PICK f \in pending[y][z] : f.then = v
        BY <4>8
      <4> QED
        BY <4>7, <4>9, <3>2, <2>1 DEF Waiting
    <3> QED
      BY <3>2, <3>4, <3>5, <2>1 DEF Waited, Many
  <2>5. ASSUME NEW q \in calls[c].to
        PROVE  handled[c][q] = 1
    <3>1. q \in Peer
      BY <2>2
    <3>2. handled[c][q] > 0
      BY <3>1, <2>1, <2>3 DEF Arriving
    <3>3. handled[c][q] <= 1 /\ handled[c][q] \in Nat
      BY <3>1, <2>1 DEF Once, Typed, TypedCalls
    <3> QED
      BY <3>2, <3>3
  <2> QED
    BY <2>4, <2>5
<1> QED
  BY <1>1, InvHolds, FlowHolds, PTL

-----------------------------------------------------------------------------
(* What callers are promised.                                              *)

\* Only a request has a callback to a caller or a batch.
Wanted(t) == t.to \in {"caller", "batch"} => calls[t.call].reply

\* A call by name is on its way to, and run by, the one it names only.
Meant ==
    /\ \A x, y \in Peer : \A m \in Messages(x, y) :
         calls[m.call].kind = "one" => y \in calls[m.call].to
    /\ \A c \in DOMAIN calls : calls[c].kind = "one" => By(c) \subseteq calls[c].to
    /\ \A w \in work : Wanted(w.then)
    /\ \A x, y \in Peer : \A e \in pending[x][y] : Wanted(e.then)

\* What is in a channel or waited for and was not belongs to c, and so does what runs.
Coming(to, c, then) ==
    /\ \A x, y \in Peer : \A m \in Messages(x, y)' : m \in Messages(x, y) \/ (y \in to /\ m.call = c)
    /\ \A x, y \in Peer : \A e \in pending'[x][y] : e \in pending[x][y] \/ (y \in to /\ e.then = then[y])

Adding(p, to, c, then, ran) ==
    /\ Coming(to, c, then)
    /\ \A w \in work' : w \in work \/ (ran /\ w.then = then[p])
    /\ \A d \in Call, y \in Peer : handled'[d][y] > 0 => handled[d][y] > 0 \/ (ran /\ d = c /\ y = p)

\* It is for them, and asks for an answer if its caller does.
Fitting(p, to, c, then, ran) ==
    \A y \in to \cup (IF ran THEN {p} ELSE {}) :
      /\ c \in DOMAIN calls' /\ (calls'[c].kind = "one" => y \in calls'[c].to)
      /\ then[y].call = c /\ (then[y].to \in {"caller", "batch"} => calls'[c].reply)

LEMMA AddingMeant ==
    ASSUME Inv, BoundsAssumption, Meant, Grown, NEW p, NEW to, NEW c, NEW then, NEW ran \in BOOLEAN,
           Adding(p, to, c, then, ran), Fitting(p, to, c, then, ran)
    PROVE  Meant'
<1>1. /\ Counted /\ DOMAIN calls \subseteq DOMAIN calls' /\ \A d \in DOMAIN calls : calls'[d] = calls[d]
      /\ DOMAIN calls' \subseteq Call
  <2>1. /\ calls' \in Seq(Made) /\ Len(calls') <= MaxCalls /\ MaxCalls \in Nat
        /\ DOMAIN calls \subseteq DOMAIN calls' /\ \A d \in DOMAIN calls : calls'[d] = calls[d]
    BY DEF Grown, BoundsAssumption
  <2>2. DOMAIN calls' = 1 .. Len(calls') /\ Len(calls') \in Nat
    BY <2>1, LenProperties
  <2> QED
    BY <2>1, <2>2, Counts DEF Call
<1>2. ASSUME NEW x \in Peer, NEW y \in Peer, NEW m \in Messages(x, y)', calls'[m.call].kind = "one"
      PROVE  y \in calls'[m.call].to
  <2>1. CASE m \in Messages(x, y)
    BY <2>1, <1>1, <1>2 DEF Meant, Counted
  <2>2. CASE y \in to /\ m.call = c
    BY <2>2, <1>2 DEF Fitting
  <2> QED
    BY <2>1, <2>2 DEF Adding, Coming
<1>3. ASSUME NEW d \in DOMAIN calls', calls'[d].kind = "one", NEW y \in By(d)'
      PROVE  y \in calls'[d].to
  <2>1. d \in Call /\ y \in Peer /\ handled'[d][y] > 0
    BY <1>1 DEF By
  <2>2. CASE handled[d][y] > 0
    <3>1. d \in DOMAIN calls
      BY <2>1, <2>2 DEF Inv, Unmade
    <3> QED
      BY <3>1, <2>1, <2>2, <1>1, <1>3 DEF Meant, By
  <2>3. CASE ran /\ d = c /\ y = p
    BY <2>3, <1>3 DEF Fitting
  <2> QED
    BY <2>1, <2>2, <2>3 DEF Adding
<1>4. ASSUME NEW t, t.call \in DOMAIN calls, Wanted(t)
      PROVE  Wanted(t)'
  BY <1>1, <1>4 DEF Wanted
<1>5. ASSUME NEW w \in work'
      PROVE  Wanted(w.then)'
  <2>1. CASE w \in work
    BY <2>1, <1>4 DEF Meant, Inv, Working, Callback
  <2>2. CASE ran /\ w.then = then[p]
    BY <2>2 DEF Wanted, Fitting
  <2> QED
    BY <2>1, <2>2 DEF Adding
<1>6. ASSUME NEW x \in Peer, NEW y \in Peer, NEW e \in pending'[x][y]
      PROVE  Wanted(e.then)'
  <2>1. CASE e \in pending[x][y]
    BY <2>1, <1>4 DEF Meant, Inv, Waiting, Callback
  <2>2. CASE y \in to /\ e.then = then[y]
    BY <2>2 DEF Wanted, Fitting
  <2> QED
    BY <2>1, <2>2 DEF Adding, Coming
<1> QED
  BY <1>2, <1>3, <1>5, <1>6 DEF Meant

\* Nothing is made by what only reads or drops.
LEMMA LessMeant ==
    ASSUME Inv, BoundsAssumption, Meant, UNCHANGED <<calls, handled>>, work' \subseteq work,
           \A x, y \in Peer : pending'[x][y] \subseteq pending[x][y] /\ Messages(x, y)' \subseteq Messages(x, y)
    PROVE  Meant'
<1>1. PICK p, c, then : TRUE
  OBVIOUS
<1>2. Grown
  BY DEF Grown, Inv, Typed, TypedCalls
<1>3. Adding(p, {}, c, then, FALSE) /\ Fitting(p, {}, c, then, FALSE)
  BY DEF Adding, Coming, Fitting
<1> QED
  BY <1>2, <1>3, AddingMeant

\* A message that is there was there or was sent.
LEMMA SentMeant ==
    ASSUME Inv, BoundsAssumption, NEW p \in Peer, NEW to, to \subseteq Peer, NEW c \in Call, NEW then,
           NEW b, Within(b), Gained(p, to, c, then, b)
    PROVE  Coming(to, c, then)
<1>1. ASSUME NEW x \in Peer, NEW y \in Peer, NEW m \in Messages(x, y)'
      PROVE  m \in Messages(x, y) \/ (y \in to /\ m.call = c)
  <2>1. PICK n \in DOMAIN chan'[x][y] : m = chan'[x][y][n]
    BY DEF Messages
  <2>2. IF n \in DOMAIN b[x][y] THEN chan'[x][y][n] = b[x][y][n]
        ELSE /\ x = p /\ y \in to /\ <<x, y>> \in up /\ n = Len(b[x][y]) + 1
             /\ chan'[x][y][n] = NewMessage(c, then, x, y)
    BY GainedMessage
  <2>3. CASE n \in DOMAIN b[x][y]
    <3>1. b[x][y][n] \in Messages(x, y)
      BY <2>3, WithinMessages
    <3> QED
      BY <3>1, <2>1, <2>2, <2>3
  <2>4. CASE n \notin DOMAIN b[x][y]
    BY <2>1, <2>2, <2>4 DEF NewMessage
  <2> QED
    BY <2>3, <2>4
<1>2. ASSUME NEW x \in Peer, NEW y \in Peer, NEW e \in pending'[x][y], e \notin pending[x][y]
      PROVE  y \in to /\ e.then = then[y]
  <2>1. y \in to /\ e = NewEntry(then, x, y)
    BY <1>2 DEF Gained
  <2> QED
    BY <2>1 DEF NewEntry
<1> QED
  BY <1>1, <1>2 DEF Coming

\* A call to one peer is run, sent on, or there is nobody to run it.
LEMMA OneMeant ==
    ASSUME Inv, BoundsAssumption, Meant, Grown, NEW p \in Peer, NEW q, NEW c \in Call, NEW t, NEW b,
           Within(b), ToOne(p, q, c, t, b), c \in DOMAIN calls',
           t.call = c, Asks(t) => t \in Then, t.to \in {"caller", "batch"} => calls'[c].reply,
           calls'[c].kind = "one" /\ q \in peers[p] \cup {p} => q \in calls'[c].to
    PROVE  Meant'
<1>1. Typed /\ \A x, y \in Peer : \A n \in DOMAIN b[x][y] : b[x][y][n] \in Messages(x, y)
  BY WithinMessages DEF Inv
<1>2. PICK then : then = [r \in Peer |-> t]
  OBVIOUS
<1>3. CASE q = p /\ Handled(p, c, t) /\ chan' = b /\ UNCHANGED <<requests, replies>>
  <2>1. \A x, y \in Peer : \A m \in Messages(x, y)' : m \in Messages(x, y)
    BY <1>1, <1>3 DEF Messages
  <2>2. \A d \in Call, y \in Peer : handled'[d][y] > 0 => handled[d][y] > 0 \/ (d = c /\ y = p)
    BY <1>1, <1>3 DEF Handled, Typed, TypedCalls
  <2>3. \A w \in work' : w \in work \/ w.then = then[p]
    BY <1>2, <1>3 DEF Handled
  <2>4. PICK to, ran : to = {} /\ ran \in BOOLEAN /\ ran = TRUE
    OBVIOUS
  <2>5. Adding(p, to, c, then, ran)
    BY <2>1, <2>2, <2>3, <2>4, <1>3 DEF Adding, Coming, requests
  <2>6. Fitting(p, to, c, then, ran)
    BY <2>4, <1>2, <1>3 DEF Fitting
  <2> QED
    BY <2>4, <2>5, <2>6, AddingMeant
<1>4. CASE q \in peers[p] /\ Sent(p, {q}, c, [r \in Peer |-> t], b) /\ UNCHANGED <<runs, replies>>
  <2>1. q \in Peer
    BY <1>1, <1>4 DEF Typed, TypedLinks
  <2>2. PICK to, ran : to = {q} /\ ran \in BOOLEAN /\ ran = FALSE
    OBVIOUS
  <2>3. to \subseteq Peer /\ Sent(p, to, c, then, b) /\ \A y \in to : Asks(then[y]) => then[y] \in Then
    BY <2>1, <2>2, <1>2, <1>4
  <2>4. Gained(p, to, c, then, b)
    BY <2>3, SentGains
  <2>5. Coming(to, c, then)
    BY <2>3, <2>4, SentMeant
  <2>6. Adding(p, to, c, then, ran)
    BY <2>5, <1>4 DEF Adding, runs
  <2>7. Fitting(p, to, c, then, ran)
    BY <2>1, <2>2, <1>2, <1>4 DEF Fitting
  <2> QED
    BY <2>2, <2>6, <2>7, AddingMeant
<1>5. CASE chan' = b /\ UNCHANGED <<runs, requests>>
  <2>1. \A x, y \in Peer : \A m \in Messages(x, y)' : m \in Messages(x, y)
    BY <1>1, <1>5 DEF Messages
  <2>2. Adding(p, {}, c, then, FALSE) /\ Fitting(p, {}, c, then, FALSE)
    BY <2>1, <1>5 DEF Adding, Coming, Fitting, runs, requests
  <2> QED
    BY <2>2, AddingMeant
<1> QED
  BY <1>3, <1>4, <1>5 DEF ToOne

\* A call is made: the record of it.
LEMMA RecordsReply ==
    ASSUME Inv, NEW p \in Peer, NEW kind \in {"one", "lead", "host", "others", "all"},
           NEW to, to \subseteq Peer, NEW reply \in BOOLEAN, Record(p, kind, to, reply)
    PROVE  calls'[NewCall].reply = reply
<1>1. PICK made : made = [by |-> p, kind |-> kind, to |-> to, reply |-> reply]
  OBVIOUS
<1>2. calls' = Append(calls, made) /\ made \in Made /\ calls \in Seq(Made)
  BY <1>1 DEF Record, Made, Inv, Typed, TypedCalls
<1>3. calls'[Len(calls) + 1] = made
  BY <1>2, AppendProperties
<1> QED
  BY <1>1, <1>3 DEF NewCall

LEMMA CallOneMeant ==
    ASSUME Inv, BoundsAssumption, Meant, NEW p \in Peer, NEW kind \in {"one", "lead", "host"}, NEW q,
           NEW to, to = IF kind = "one" THEN {q} \cap (peers[p] \cup {p}) ELSE {},
           NEW reply \in BOOLEAN, Record(p, kind, to, reply), ToOne(p, q, NewCall, ToNew(reply), chan)
    PROVE  Meant'
<1>1. PICK c, b, t : c = NewCall /\ b = chan /\ t = ToNew(reply)
  OBVIOUS
<1>2. to \subseteq Peer
  BY DEF Inv, Typed, TypedLinks
<1>3. /\ Grown /\ c \in Call /\ c \in DOMAIN calls'
      /\ calls'[c].kind = kind /\ calls'[c].to = to /\ calls'[c].reply = reply
  <2>1. kind \in {"one", "lead", "host", "others", "all"}
    OBVIOUS
  <2>2. Grown /\ c \in Call /\ c \in DOMAIN calls' /\ calls'[c].kind = kind /\ calls'[c].to = to
    BY <2>1, <1>1, <1>2, Records
  <2>3. calls'[c].reply = reply
    BY <2>1, <1>1, <1>2, RecordsReply
  <2> QED
    BY <2>2, <2>3
<1>4. t.call = c /\ (Asks(t) => t \in Then) /\ (t.to \in {"caller", "batch"} => reply)
  BY <1>1, <1>3, ThenMade DEF ToNew, Asks
<1>5. Within(b)
  BY <1>1, WithinSelf DEF Inv
<1>6. ToOne(p, q, c, t, b)
  BY <1>1
<1> QED
  BY <1>3, <1>4, <1>5, <1>6, OneMeant

LEMMA CallManyMeant ==
    ASSUME Inv, BoundsAssumption, Meant, NEW p \in Peer, NEW here \in BOOLEAN, NEW reply \in BOOLEAN,
           CallMany(p, here, reply)
    PROVE  Meant'
<1>1. PICK c, b, to : c = NewCall /\ b = chan /\ to = peers[p]
  OBVIOUS
<1>2. PICK then : then = [q \in Peer |-> IF reply THEN ToBatch(c, q) ELSE Nowhere(c)]
  OBVIOUS
<1>3. PICK kind \in {"one", "lead", "host", "others", "all"} : kind = IF here THEN "all" ELSE "others"
  OBVIOUS
<1>4. PICK all : all = to \cup (IF here THEN {p} ELSE {})
  OBVIOUS
<1>5. /\ Record(p, kind, all, reply) /\ Sent(p, to, c, then, b)
      /\ IF here THEN Handled(p, c, then[p]) ELSE UNCHANGED runs
  BY <1>1, <1>2, <1>3, <1>4 DEF CallMany
<1>6. to \subseteq Peer /\ all \subseteq Peer
  BY <1>1, <1>4 DEF Inv, Typed, TypedLinks
<1>7. /\ Grown /\ c \in Call /\ c \in DOMAIN calls'
      /\ calls'[c].kind = kind /\ calls'[c].to = all /\ calls'[c].reply = reply
  <2>1. Grown /\ c \in Call /\ c \in DOMAIN calls' /\ calls'[c].kind = kind /\ calls'[c].to = all
    BY <1>1, <1>5, <1>6, Records
  <2>2. calls'[c].reply = reply
    BY <1>1, <1>5, <1>6, RecordsReply
  <2> QED
    BY <2>1, <2>2
<1>8. ASSUME NEW y \in Peer
      PROVE  then[y].call = c /\ (Asks(then[y]) => then[y] \in Then) /\ (then[y].to \in {"caller", "batch"} => reply)
  BY <1>2, <1>7, <1>8, ThenMade DEF Asks
<1>9. Gained(p, to, c, then, b)
  <2>1. Within(b)
    BY <1>1, WithinSelf DEF Inv
  <2> QED
    BY <2>1, <1>5, <1>6, <1>7, <1>8, SentGains
<1>10. /\ \A d \in Call, y \in Peer : handled'[d][y] > 0 => handled[d][y] > 0 \/ (here /\ d = c /\ y = p)
       /\ \A w \in work' : w \in work \/ (here /\ w.then = then[p])
  <2>1. CASE here
    <3>1. handled \in [Call -> [Peer -> Nat]]
      BY DEF Inv, Typed, TypedCalls
    <3> QED
      BY <3>1, <2>1, <1>5 DEF Handled
  <2>2. CASE ~here
    BY <2>2, <1>5 DEF runs
  <2> QED
    BY <2>1, <2>2
<1>11. Adding(p, to, c, then, here)
  <2>1. Within(b)
    BY <1>1, WithinSelf DEF Inv
  <2>2. Coming(to, c, then)
    BY <2>1, <1>6, <1>7, <1>9, SentMeant
  <2> QED
    BY <2>2, <1>10 DEF Adding
<1>12. Fitting(p, to, c, then, here)
  BY <1>3, <1>4, <1>6, <1>7, <1>8 DEF Fitting
<1> QED
  BY <1>7, <1>11, <1>12, AddingMeant

LEMMA ReadMeant ==
    ASSUME Inv, BoundsAssumption, Meant, NEW p \in Peer, NEW q \in Peer, ReadCall(p, q)
    PROVE  Meant'
<1>1. PICK m, b, c, t : /\ m = Head(chan[p][q]) /\ b = [chan EXCEPT ![p][q] = Tail(@)]
                        /\ c = m.call /\ t = BackTo(m, p)
  OBVIOUS
<1>2. PICK to : to = CASE calls[c].kind \in {"one", "others", "all"} -> q
                       [] calls[c].kind = "host" /\ m.id = 0 -> None
                       [] OTHER -> where[q]
  OBVIOUS
<1>3. chan[p][q] # <<>> /\ ToOne(q, to, c, t, b) /\ UNCHANGED calls
  BY <1>1, <1>2 DEF ReadCall
<1>4. Typed /\ Counted /\ Within(b)
  BY <1>1, <1>3, Counts, WithinTail DEF Inv
<1>5. m \in Messages(p, q) /\ m \in Message
  <2>1. chan[p][q] \in Seq(Message) /\ chan[p][q] # <<>>
    BY <1>3, <1>4 DEF Typed, TypedCalls
  <2>2. m = chan[p][q][1] /\ 1 \in DOMAIN chan[p][q]
    BY <2>1, <1>1, LenProperties, EmptySeq, HeadTailProperties
  <2> QED
    BY <2>1, <2>2, ElementOfSeq, LenProperties DEF Messages
<1>6. c \in Call /\ c \in DOMAIN calls /\ m.id \in 0 .. MaxId /\ m.era \in 0 .. MaxUpsets
  BY <1>1, <1>4, <1>5 DEF Message, Counted
<1>7. t.call = c /\ (Asks(t) => t \in Then) /\ t.to \in {"peer", "nowhere"}
  <2>1. CASE m.id = 0
    BY <2>1, <1>1, <1>6, ThenMade DEF BackTo, Asks
  <2>2. CASE m.id # 0
    <3>1. m.id \in 1 .. MaxId
      BY <2>2, <1>6
    <3> QED
      BY <2>2, <3>1, <1>1, <1>6, ThenMade DEF BackTo, Asks
  <2> QED
    BY <2>1, <2>2
<1>8. Grown
  BY <1>3, <1>4 DEF Grown, Typed, TypedCalls
<1>9. calls'[c].kind = "one" => to = q /\ q \in calls'[c].to
  BY <1>1, <1>2, <1>3, <1>5, <1>6 DEF Meant
<1> QED
  BY <1>3, <1>4, <1>6, <1>7, <1>8, <1>9, OneMeant

\* What a cut leaves of a channel was there.
LEMMA CutMeant ==
    ASSUME Inv, BoundsAssumption, Meant, NEW p \in Peer, NEW q \in Peer, Break(p, q) \/ Forget(p, q)
    PROVE  Meant'
<1>1. Cut(p, q) /\ UNCHANGED <<calls, handled, work>>
  BY DEF Break, Forget, runs
<1>2. \A x, y \in Peer : pending'[x][y] \subseteq pending[x][y]
  <2>1. pending \in [Peer -> [Peer -> SUBSET Entry]]
    BY DEF Inv, Typed, TypedRequests
  <2>2. pending' = pending \/ pending' = [pending EXCEPT ![p][q] = {}]
    BY DEF Break, Forget
  <2> QED
    BY <2>1, <2>2
<1>3. ASSUME NEW x \in Peer, NEW y \in Peer
      PROVE  Messages(x, y)' \subseteq Messages(x, y)
  <2>1. chan \in [Peer -> [Peer -> Seq(Message)]]
    BY DEF Inv, Typed, TypedCalls
  <2>2. PICK n \in 0 .. Len(chan[p][q]) : chan' = [chan EXCEPT ![p][q] = SubSeq(@, 1, n)]
    BY <1>1 DEF Cut
  <2>3. CASE x = p /\ y = q
    <3>1. chan'[p][q] = SubSeq(chan[p][q], 1, n)
      BY <2>1, <2>2
    <3>2. chan[p][q] \in Seq(Message) /\ Len(chan[p][q]) \in Nat
      BY <2>1, LenProperties
    <3>3. \A k \in DOMAIN chan'[p][q] : k \in DOMAIN chan[p][q] /\ chan'[p][q][k] = chan[p][q][k]
      BY <3>1, <3>2
    <3> QED
      BY <2>3, <3>3 DEF Messages
  <2>4. CASE ~(x = p /\ y = q)
    BY <2>1, <2>2, <2>4 DEF Messages
  <2> QED
    BY <2>3, <2>4
<1> QED
  BY <1>1, <1>2, <1>3, LessMeant

LEMMA MeantSteps ==
    ASSUME Inv, BoundsAssumption, Meant, [Next]_vars
    PROVE  Meant'
<1>1. ASSUME NEW p \in Peer, NEW q \in Peer, NEW reply \in BOOLEAN, CallOne(p, q, reply)
      PROVE  Meant'
  <2>1. PICK kind, to : kind = "one" /\ to = {q} \cap (peers[p] \cup {p})
    OBVIOUS
  <2>2. Record(p, kind, to, reply) /\ ToOne(p, q, NewCall, ToNew(reply), chan)
    BY <1>1, <2>1 DEF CallOne
  <2> QED
    BY <2>1, <2>2, CallOneMeant
<1>2. ASSUME NEW p \in Peer, NEW kind \in {"lead", "host"}, NEW reply \in BOOLEAN, CallChased(p, kind, reply)
      PROVE  Meant'
  <2>1. PICK q, to : q = where[p] /\ to = {}
    OBVIOUS
  <2>2. Record(p, kind, to, reply) /\ ToOne(p, q, NewCall, ToNew(reply), chan)
    BY <1>2, <2>1 DEF CallChased
  <2> QED
    BY <2>1, <2>2, CallOneMeant
<1>3. ASSUME NEW w \in work, Finish(w)
      PROVE  Meant'
  BY <1>3, LessMeant DEF Finish, requests, Messages
<1>4. ASSUME NEW p \in Peer, NEW q \in Peer, ReadAnswer(p, q)
      PROVE  Meant'
  <2>1. pending \in [Peer -> [Peer -> SUBSET Entry]]
    BY DEF Inv, Typed, TypedRequests
  <2>2. PICK Kept : pending' = [pending EXCEPT ![p][q] = @ \ Kept]
    BY <1>4 DEF ReadAnswer
  <2>3. \A x, y \in Peer : pending'[x][y] \subseteq pending[x][y]
    BY <2>1, <2>2
  <2> QED
    BY <2>3, <1>4, LessMeant DEF ReadAnswer, runs, Messages
<1>5. ASSUME NEW p \in Peer, NEW q \in Peer, GetThrough(p, q) \/ Hear(p, q)
      PROVE  Meant'
  BY <1>5, LessMeant DEF GetThrough, Hear, runs, requests, Messages
<1>6. ASSUME NEW p \in Peer, NEW q \in Peer \cup {None}, Move(p, q)
      PROVE  Meant'
  BY <1>6, LessMeant DEF Move, runs, requests, Messages
<1>7. CASE UNCHANGED vars
  BY <1>7, LessMeant DEF vars, runs, requests, Messages
<1> QED
  BY <1>1, <1>2, <1>3, <1>4, <1>5, <1>6, <1>7, CallManyMeant, ReadMeant, CutMeant DEF Next

\* A call by name never strays, and nobody answers what did not ask (PeerManager::execute
\* and request, RequestMessage::handle).
LEMMA MeantHolds == Spec => []Meant
<1>1. Init => Meant
  <2> SUFFICES ASSUME Init PROVE Meant
    OBVIOUS
  <2>1. \A x, y \in Peer : chan[x][y] = <<>> /\ pending[x][y] = {}
    BY DEF Init
  <2>2. \A x, y \in Peer : Messages(x, y) = {}
    BY <2>1 DEF Messages
  <2>3. DOMAIN calls = {} /\ work = {}
    BY DEF Init
  <2> QED
    BY <2>1, <2>2, <2>3 DEF Meant
<1>2. Inv /\ Meant /\ [Next]_vars => Meant'
  BY MeantSteps, BoundsAssumption
<1> QED
  BY <1>1, <1>2, InvHolds, PTL DEF Spec

\* Who has run each call, as callers see it.
Ran == [c \in Call |-> {q \in Peer : handled[c][q] > 0}]

\* What the promises rest on, before and after a step.
Sound == Inv /\ AtMostOnce /\ Truthful /\ Meant

\* p runs a call that it may.
LEMMA RunsIt ==
    ASSUME Sound, Sound', BoundsAssumption, Grown, NEW p \in Peer, NEW c \in Call, c \in DOMAIN calls',
           handled' = [handled EXCEPT ![c][p] = @ + 1], UNCHANGED answers,
           Many(c)' \/ By(c) = {}
    PROVE  Promise!Handled(c, p)
<1>1. /\ handled \in [Call -> [Peer -> Nat]] /\ calls \in Seq(Made)
      /\ \A d \in DOMAIN calls : d \in DOMAIN calls' /\ calls'[d] = calls[d]
      /\ answers \in [Call -> Seq(SUBSET Peer)]
  BY DEF Sound, Inv, Typed, TypedCalls, Grown
<1>2. /\ \A d \in Call, y \in Peer : handled'[d][y] = IF d = c /\ y = p THEN handled[d][y] + 1 ELSE handled[d][y]
      /\ handled[c][p] \in Nat
  BY <1>1
<1>3. handled[c][p] = 0
  <2>1. handled'[c][p] <= 1
    BY DEF Sound, AtMostOnce
  <2> QED
    BY <2>1, <1>2
<1>4. p \notin Ran[c] /\ Ran[c] = By(c) /\ Ran' = [Ran EXCEPT ![c] = @ \cup {p}]
  <2>1. p \notin Ran[c] /\ Ran[c] = By(c)
    BY <1>3 DEF Ran, By
  <2>2. Ran' = [d \in Call |-> {q \in Peer : handled'[d][q] > 0}]
    BY DEF Ran
  <2>3. ASSUME NEW d \in Call
        PROVE  {q \in Peer : handled'[d][q] > 0} = IF d = c THEN Ran[d] \cup {p} ELSE Ran[d]
    <3>1. Ran[d] = {q \in Peer : handled[d][q] > 0}
      BY DEF Ran
    <3> QED
      BY <3>1, <1>2, <1>3
  <2>4. [Ran EXCEPT ![c] = @ \cup {p}] = [d \in Call |-> IF d = c THEN Ran[d] \cup {p} ELSE Ran[d]]
    BY DEF Ran
  <2> QED
    BY <2>1, <2>2, <2>3, <2>4
<1>5. answers[c] = <<>>
  <2>1. ASSUME answers[c] # <<>>
        PROVE  FALSE
    <3>1. 1 \in DOMAIN answers[c]
      BY <2>1, <1>1, LenProperties, EmptySeq
    <3>2. c \in DOMAIN calls
      BY <2>1 DEF Sound, Inv, Unmade
    <3>3. answers[c][1] = {y \in Peer : handled[c][y] > 0}
      BY <3>1, <3>2 DEF Sound, Truthful
    <3>4. answers'[c][1] = {y \in Peer : handled'[c][y] > 0}
      BY <3>1 DEF Sound, Truthful
    <3>5. p \in {y \in Peer : handled'[c][y] > 0} /\ p \notin {y \in Peer : handled[c][y] > 0}
      BY <1>2, <1>3
    <3> QED
      BY <3>3, <3>4, <3>5
  <2> QED
    BY <2>1
<1>6. calls'[c].kind \in {"one", "others", "all"} => p \in calls'[c].to
  <2>1. p \in By(c)'
    BY <1>2, <1>3 DEF By
  <2>2. CASE calls'[c].kind = "one"
    BY <2>1, <2>2 DEF Sound, Meant
  <2>3. CASE Many(c)'
    BY <2>1, <2>3 DEF Sound, Inv, Batched
  <2> QED
    BY <2>2, <2>3 DEF Many
<1>7. calls'[c].kind \notin {"others", "all"} => Ran[c] = {}
  BY <1>4 DEF Many
<1> QED
  BY <1>4, <1>5, <1>6, <1>7 DEF Promise!Handled, Promise!ByName, Promise!ForAll, Ran

\* An answer is given.
LEMMA AnswersIt ==
    ASSUME Sound, Sound', BoundsAssumption, NEW c \in Call, c \in DOMAIN calls', NEW by,
           answers' = [answers EXCEPT ![c] = Append(@, by)], UNCHANGED handled, calls'[c].reply
    PROVE  Promise!Answered(c)
<1>1. answers \in [Call -> Seq(SUBSET Peer)] /\ answers' \in [Call -> Seq(SUBSET Peer)]
  BY DEF Sound, Inv, Typed, TypedCalls
<1>2. answers'[c] = Append(answers[c], by)
  BY <1>1
<1>3. Len(answers'[c]) <= 1 /\ Len(answers[c]) \in Nat
  BY <1>1, LenProperties DEF Sound, AtMostOnce
<1>4. answers[c] = <<>>
  <2>1. Len(answers'[c]) = Len(answers[c]) + 1
    BY <1>1, <1>2
  <2> QED
    BY <2>1, <1>1, <1>3, EmptySeq
<1>5. answers'[c] = <<by>> /\ 1 \in DOMAIN answers'[c] /\ answers'[c][1] = by
  BY <1>2, <1>4
<1>6. by = Ran[c] /\ (calls'[c].kind \in {"others", "all"} => by = calls'[c].to)
  <2>1. answers'[c][1] = {q \in Peer : handled'[c][q] > 0}
    BY <1>5 DEF Sound, Truthful
  <2>2. calls'[c].kind \in {"others", "all"} => answers'[c][1] = calls'[c].to
    BY <1>5 DEF Sound, Truthful
  <2> QED
    BY <2>1, <2>2, <1>5 DEF Ran
<1>7. answers' = [answers EXCEPT ![c] = <<Ran[c]>>]
  BY <1>1, <1>5, <1>6
<1> QED
  BY <1>4, <1>6, <1>7 DEF Promise!Answered, Promise!ForAll, Ran

\* A call is made: it goes out, its caller runs it, or there is nobody to run it.
LEMMA OneMade ==
    ASSUME Sound, Sound', BoundsAssumption, NEW p \in Peer, NEW kind \in {"one", "lead", "host"}, NEW q,
           NEW to, to \subseteq Peer, NEW reply \in BOOLEAN, Record(p, kind, to, reply),
           ToOne(p, q, NewCall, ToNew(reply), chan)
    PROVE  Promise!Next
<1>1. PICK made, c, t : /\ made = [by |-> p, kind |-> kind, to |-> to, reply |-> reply]
                        /\ c = NewCall /\ t = ToNew(reply)
  OBVIOUS
<1>2. /\ made \in Promise!Made /\ c = Len(calls) + 1 /\ c \in Call /\ calls' = Append(calls, made)
      /\ made.by = p /\ calls' # calls
  <2>1. calls \in Seq(Made) /\ made \in Made /\ calls' = Append(calls, made)
    BY <1>1 DEF Sound, Inv, Typed, TypedCalls, Made, Record
  <2>2. Len(calls') = Len(calls) + 1 /\ Len(calls) \in Nat
    BY <2>1, AppendProperties, LenProperties
  <2> QED
    BY <2>1, <2>2, <1>1 DEF Promise!Made, Record, NewCall, Made
<1>3. /\ Grown /\ c \in DOMAIN calls' /\ By(c) = {} /\ calls'[c].reply = reply
  <2>1. Inv /\ kind \in {"one", "lead", "host", "others", "all"}
    BY DEF Sound
  <2>2. /\ Grown /\ c \in DOMAIN calls' /\ By(c) = {}
    BY <2>1, <1>1, Records
  <2>3. calls'[c].reply = reply
    BY <2>1, <1>1, RecordsReply
  <2> QED
    BY <2>2, <2>3
<1>4. t = IF reply THEN ToCaller(c) ELSE Nowhere(c)
  BY <1>1 DEF ToNew
<1>5. ToOne(p, q, c, t, chan)
  BY <1>1
<1>6. Promise!Make(made)
  <2>1. CASE Handled(p, c, t) /\ UNCHANGED replies
    <3>1. handled' = [handled EXCEPT ![c][p] = @ + 1] /\ UNCHANGED answers
      BY <2>1 DEF Handled, replies
    <3>2. Promise!Handled(c, p)
      BY <3>1, <1>2, <1>3, RunsIt
    <3> QED
      BY <3>1, <3>2, <1>2 DEF Promise!Make, Promise!Handled
  <2>2. CASE UNCHANGED <<runs, replies>>
    BY <2>2, <1>2 DEF Promise!Make, runs, replies
  <2>3. CASE Answered(p, t, {}, back) /\ UNCHANGED runs
    <3>1. CASE reply
      <4>1. t.to = "caller" /\ t.call = c
        BY <3>1, <1>4 DEF ToCaller
      <4>2. PICK by : answers' = [answers EXCEPT ![c] = Append(@, by)]
        BY <4>1, <2>3 DEF Answered
      <4>3. UNCHANGED handled
        BY <2>3 DEF runs
      <4>4. Promise!Answered(c)
        BY <3>1, <4>2, <4>3, <1>2, <1>3, AnswersIt
      <4> QED
        BY <4>3, <4>4, <1>2 DEF Promise!Make
    <3>2. CASE ~reply
      <4>1. t.to = "nowhere"
        BY <3>2, <1>4 DEF Nowhere
      <4>2. UNCHANGED <<answers, handled>>
        BY <4>1, <2>3 DEF Answered, runs
      <4> QED
        BY <4>2, <1>2 DEF Promise!Make
    <3> QED
      BY <3>1, <3>2
  <2> QED
    BY <2>1, <2>2, <2>3, <1>5 DEF ToOne
<1> QED
  BY <1>2, <1>6 DEF Promise!Next

LEMMA ManyMade ==
    ASSUME Sound, Sound', BoundsAssumption, NEW p \in Peer, NEW here \in BOOLEAN, NEW reply \in BOOLEAN,
           CallMany(p, here, reply)
    PROVE  Promise!Next
<1>1. PICK kind \in {"one", "lead", "host", "others", "all"} : kind = IF here THEN "all" ELSE "others"
  OBVIOUS
<1>2. PICK to : to = peers[p] \cup (IF here THEN {p} ELSE {})
  OBVIOUS
<1>3. PICK made, c : made = [by |-> p, kind |-> kind, to |-> to, reply |-> reply] /\ c = NewCall
  OBVIOUS
<1>4. Record(p, kind, to, reply) /\ to \subseteq Peer
  BY <1>1, <1>2 DEF CallMany, Sound, Inv, Typed, TypedLinks
<1>5. /\ made \in Promise!Made /\ c = Len(calls) + 1 /\ c \in Call /\ calls' = Append(calls, made)
      /\ made.by = p /\ calls' # calls
  <2>1. calls \in Seq(Made) /\ made \in Made /\ calls' = Append(calls, made)
    BY <1>3, <1>4 DEF Sound, Inv, Typed, TypedCalls, Made, Record
  <2>2. Len(calls') = Len(calls) + 1 /\ Len(calls) \in Nat
    BY <2>1, AppendProperties, LenProperties
  <2> QED
    BY <2>1, <2>2, <1>3, <1>4 DEF Promise!Made, Record, NewCall, Made
<1>6. Grown /\ c \in DOMAIN calls' /\ By(c) = {}
  <2>1. Inv
    BY DEF Sound
  <2> QED
    BY <2>1, <1>3, <1>4, Records
<1>7. Promise!Make(made)
  <2>1. CASE here
    <3>1. handled' = [handled EXCEPT ![c][p] = @ + 1] /\ UNCHANGED answers
      BY <2>1, <1>3 DEF CallMany, Handled
    <3>2. Promise!Handled(c, p)
      BY <3>1, <1>5, <1>6, RunsIt
    <3> QED
      BY <3>1, <3>2, <1>5 DEF Promise!Make, Promise!Handled
  <2>2. CASE ~here
    <3>1. UNCHANGED <<handled, answers>>
      BY <2>2 DEF CallMany, runs
    <3> QED
      BY <3>1, <1>5 DEF Promise!Make
  <2> QED
    BY <2>1, <2>2
<1> QED
  BY <1>5, <1>7 DEF Promise!Next

\* A call that is read is run, or nothing is to be seen of it.
LEMMA ReadSeen ==
    ASSUME Sound, Sound', BoundsAssumption, NEW p \in Peer, NEW q \in Peer, ReadCall(p, q)
    PROVE  Promise!Next \/ UNCHANGED Promise!vars
<1>1. PICK m, b, c, t : /\ m = Head(chan[p][q]) /\ b = [chan EXCEPT ![p][q] = Tail(@)]
                        /\ c = m.call /\ t = BackTo(m, p)
  OBVIOUS
<1>2. PICK to : to = CASE calls[c].kind \in {"one", "others", "all"} -> q
                       [] calls[c].kind = "host" /\ m.id = 0 -> None
                       [] OTHER -> where[q]
  OBVIOUS
<1>3. chan[p][q] # <<>> /\ ToOne(q, to, c, t, b) /\ UNCHANGED calls
  BY <1>1, <1>2 DEF ReadCall
<1>4. /\ Inv /\ Counted /\ chan[p][q] \in Seq(Message)
  BY Counts DEF Sound, Counted
<1>5. m \in Messages(p, q)
  <2>1. m = chan[p][q][1] /\ 1 \in DOMAIN chan[p][q]
    BY <1>1, <1>3, <1>4, LenProperties, EmptySeq, HeadTailProperties
  <2> QED
    BY <2>1 DEF Messages
<1>6. c \in Call /\ c \in DOMAIN calls /\ (Many(c) \/ By(c) = {})
  BY <1>1, <1>4, <1>5 DEF Counted, Inv, Carried
<1>7. t.to \in {"peer", "nowhere"}
  BY <1>1 DEF BackTo, ToPeer, Nowhere
<1>8. Grown
  BY <1>3, <1>4 DEF Grown, Inv, Typed, TypedCalls
<1>9. CASE Handled(q, c, t) /\ UNCHANGED replies
  <2>1. handled' = [handled EXCEPT ![c][q] = @ + 1] /\ UNCHANGED answers
    BY <1>9 DEF Handled, replies
  <2>2. c \in DOMAIN calls' /\ (Many(c)' \/ By(c) = {})
    BY <1>3, <1>6 DEF Many
  <2>3. Promise!Handled(c, q)
    BY <2>1, <2>2, <1>6, <1>8, RunsIt
  <2> QED
    BY <2>1, <2>3, <1>3, <1>6 DEF Promise!Next, Promise!Handle
<1>10. CASE UNCHANGED <<runs, replies>>
  BY <1>3, <1>10 DEF runs, replies, Promise!vars
<1>11. CASE Answered(q, t, {}, back) /\ UNCHANGED runs
  BY <1>3, <1>7, <1>11 DEF Answered, runs, Promise!vars
<1> QED
  BY <1>3, <1>9, <1>10, <1>11 DEF ToOne

\* A callback that is invoked answers its caller, or is one of many, or of a peer.
LEMMA AnsweredSeen ==
    ASSUME Sound, Sound', BoundsAssumption, NEW p \in Peer, NEW t, NEW by, NEW before,
           Answered(p, t, by, before), UNCHANGED <<calls, handled>>, t.call \in DOMAIN calls, Wanted(t)
    PROVE  Promise!Next \/ UNCHANGED Promise!vars
<1>1. t.call \in Call /\ t.call \in DOMAIN calls'
  BY Counts DEF Sound, Counted
<1>2. ASSUME NEW all, answers' = [answers EXCEPT ![t.call] = Append(@, all)], t.to \in {"caller", "batch"}
      PROVE  Promise!Next
  <2>1. calls'[t.call].reply
    BY <1>2 DEF Wanted
  <2>2. Promise!Answered(t.call)
    BY <2>1, <1>1, <1>2, AnswersIt
  <2> QED
    BY <2>2, <1>1 DEF Promise!Next, Promise!Answer
<1>3. CASE t.to = "caller"
  BY <1>2, <1>3 DEF Answered
<1>4. CASE t.to = "batch"
  <2>1. Collected(t.call, t.of)
    BY <1>4 DEF Answered
  <2>2. UNCHANGED answers \/ \E all : answers' = [answers EXCEPT ![t.call] = Append(@, all)]
    BY <2>1 DEF Collected
  <2> QED
    BY <2>2, <1>2, <1>4 DEF Promise!vars
<1>5. CASE t.to \notin {"caller", "batch"}
  BY <1>5 DEF Answered, Promise!vars
<1> QED
  BY <1>3, <1>4, <1>5

LEMMA StepsSeen ==
    ASSUME Sound, Sound', BoundsAssumption, [Next]_vars
    PROVE  Promise!Next \/ UNCHANGED Promise!vars
<1>1. ASSUME NEW p \in Peer, NEW q \in Peer, NEW reply \in BOOLEAN, CallOne(p, q, reply)
      PROVE  Promise!Next
  <2>1. PICK kind, to : kind = "one" /\ to = {q} \cap (peers[p] \cup {p})
    OBVIOUS
  <2>2. Record(p, kind, to, reply) /\ ToOne(p, q, NewCall, ToNew(reply), chan)
    BY <1>1, <2>1 DEF CallOne
  <2> QED
    BY <2>1, <2>2, OneMade
<1>2. ASSUME NEW p \in Peer, NEW kind \in {"lead", "host"}, NEW reply \in BOOLEAN, CallChased(p, kind, reply)
      PROVE  Promise!Next
  <2>1. PICK q, to : q = where[p] /\ to = {}
    OBVIOUS
  <2>2. Record(p, kind, to, reply) /\ ToOne(p, q, NewCall, ToNew(reply), chan)
    BY <1>2, <2>1 DEF CallChased
  <2> QED
    BY <2>1, <2>2, OneMade
<1>3. ASSUME NEW w \in work, Finish(w)
      PROVE  Promise!Next \/ UNCHANGED Promise!vars
  <2>1. Answered(w.at, w.then, {w.at}, back) /\ UNCHANGED <<calls, handled>>
    BY <1>3 DEF Finish
  <2>2. w.at \in Peer /\ w.then.call \in DOMAIN calls /\ Wanted(w.then)
    BY Counts DEF Sound, Meant, Inv, Working, Callback, Counted, Request
  <2> QED
    BY <2>1, <2>2, AnsweredSeen
<1>4. ASSUME NEW p \in Peer, NEW q \in Peer, ReadAnswer(p, q)
      PROVE  Promise!Next \/ UNCHANGED Promise!vars
  <2>1. PICK answer, rest, Kept : /\ answer = Head(back[p][q]) /\ rest = [back EXCEPT ![p][q] = Tail(@)]
                                  /\ Kept = {e \in pending[p][q] : e.id = answer.id}
    OBVIOUS
  <2>2. /\ (\E e \in Kept : Answered(p, e.then, answer.by, rest)) \/ UNCHANGED answers
        /\ UNCHANGED <<calls, handled>>
    BY <2>1, <1>4 DEF ReadAnswer, runs
  <2>3. ASSUME NEW e \in Kept, Answered(p, e.then, answer.by, rest)
        PROVE  Promise!Next \/ UNCHANGED Promise!vars
    <3>1. e.then.call \in DOMAIN calls /\ Wanted(e.then)
      BY <2>1 DEF Sound, Meant, Inv, Waiting, Callback
    <3> QED
      BY <3>1, <2>2, <2>3, AnsweredSeen
  <2> QED
    BY <2>2, <2>3 DEF Promise!vars
<1>5. ASSUME NEW p \in Peer, NEW q \in Peer, Break(p, q) \/ GetThrough(p, q) \/ Forget(p, q) \/ Hear(p, q)
      PROVE  UNCHANGED Promise!vars
  BY <1>5 DEF Break, GetThrough, Forget, Hear, runs, replies, Promise!vars
<1>6. ASSUME NEW p \in Peer, NEW q \in Peer \cup {None}, Move(p, q)
      PROVE  UNCHANGED Promise!vars
  BY <1>6 DEF Move, runs, replies, Promise!vars
<1>7. CASE UNCHANGED vars
  BY <1>7 DEF vars, runs, replies, Promise!vars
<1> QED
  BY <1>1, <1>2, <1>3, <1>4, <1>5, <1>6, <1>7, ManyMade, ReadSeen DEF Next

\* Seen from the callers (Implements of RemoteCalls), the peers do what PeerCalls promises:
\* every step of theirs runs a call that may be run, answers a request once and with
\* all who have run it, makes a call, or is not to be seen (PeerManager::execute*,
\* request*, handleResponse).
THEOREM CallsImplement == Spec => Implements
<1>1. Init => Promise!Init
  <2> SUFFICES ASSUME Init PROVE Promise!Init
    OBVIOUS
  <2>1. \A c \in Call : {q \in Peer : handled[c][q] > 0} = {}
    BY DEF Init
  <2> QED
    BY <2>1 DEF Init, Promise!Init
<1>2. Sound /\ Sound' /\ [Next]_vars => [Promise!Next]_Promise!vars
  BY StepsSeen, BoundsAssumption
<1>3. Inv /\ AtMostOnce /\ Truthful /\ Meant => Sound
  BY DEF Sound
<1> QED
  BY <1>1, <1>2, <1>3, InvHolds, CallsAtMostOnce, AnswersTruthful, MeantHolds, PTL
     DEF Spec, Implements, Promise!Spec

=============================================================================
