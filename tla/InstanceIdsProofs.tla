------------------------- MODULE InstanceIdsProofs -------------------------
(* Proofs about InstanceIds, for every set of peers, any number of ids,    *)
(* requests, breaks and restarts.                                          *)
EXTENDS InstanceIds, PeerLinksProofs, FiniteSetTheorems

-----------------------------------------------------------------------------
(* What the definitions give.                                              *)

LEMMA Ids == Id \subseteq AnyId /\ 0 \in AnyId \ Id
  BY IdsAssumption DEF Id, AnyId

LEMMA MsgKinds ==
    /\ Kinds(Msg)
    /\ \A m \in Msg : /\ m.op = "instance" => Plain(m) /\ m.id \in AnyId /\ m = [op |-> "instance", id |-> m.id]
                      /\ m.op = "ask" => Plain(m) /\ m.for \in Peer /\ m.route \in Route
    /\ \A i \in AnyId : [op |-> "instance", id |-> i] \in Msg /\ Plain([op |-> "instance", id |-> i])
    /\ \A p \in Peer, w \in Route :
         [op |-> "ask", for |-> p, route |-> w] \in Msg /\ Plain([op |-> "ask", for |-> p, route |-> w])
<1>1. \A m \in Msg : m.op = "hello" => m = Hello
  BY DEF Msg, Hello
<1>2. \A m \in Msg : m.op = "eof" => m = Eof
  BY DEF Msg, Eof
<1>3. \A m \in Msg : m.op = "instance" => Plain(m) /\ m.id \in AnyId /\ m = [op |-> "instance", id |-> m.id]
  BY DEF Msg, Plain, Hello, Eof
<1>4. \A m \in Msg : m.op = "ask" => Plain(m) /\ m.for \in Peer /\ m.route \in Route
  BY DEF Msg, Plain, Hello, Eof
<1>5. \A m \in Msg : m.op \notin {"hello", "eof"} => m.op \in {"instance", "ask"}
  BY DEF Msg
<1>6. Hello \in Msg /\ Eof \in Msg
  BY DEF Msg, Hello, Eof
<1>7. Kinds(Msg)
  BY <1>1, <1>2, <1>3, <1>4, <1>5, <1>6 DEF Kinds
<1>8. ASSUME NEW i \in AnyId
      PROVE  [op |-> "instance", id |-> i] \in Msg /\ Plain([op |-> "instance", id |-> i])
  <2>1. [op |-> "instance", id |-> i] \in Msg
    BY DEF Msg
  <2>2. [op |-> "instance", id |-> i].op = "instance"
    OBVIOUS
  <2> QED
    BY <1>3, <2>1, <2>2
<1>9. ASSUME NEW p \in Peer, NEW w \in Route
      PROVE  [op |-> "ask", for |-> p, route |-> w] \in Msg /\ Plain([op |-> "ask", for |-> p, route |-> w])
  <2>1. [op |-> "ask", for |-> p, route |-> w] \in Msg
    BY DEF Msg
  <2>2. [op |-> "ask", for |-> p, route |-> w].op = "ask"
    OBVIOUS
  <2> QED
    BY <1>4, <2>1, <2>2
<1> QED
  BY <1>3, <1>4, <1>7, <1>8, <1>9

\* What a channel speaks of as messages come and go.
LEMMA SpokenAppend ==
    ASSUME NEW S, NEW c \in Seq(S), NEW m \in S, NEW i \in Spoken(Append(c, m))
    PROVE  i \in Spoken(c) \/ m = [op |-> "instance", id |-> i]
<1>1. PICK n \in DOMAIN Append(c, m) : Append(c, m)[n] = [op |-> "instance", id |-> i]
  BY DEF Spoken
<1>2. CASE n = Len(c) + 1
  BY <1>1, <1>2
<1>3. CASE n # Len(c) + 1
  <2>1. n \in DOMAIN c /\ c[n] = [op |-> "instance", id |-> i]
    BY <1>1, <1>3
  <2> QED
    BY <2>1 DEF Spoken
<1> QED
  BY <1>2, <1>3

LEMMA SpokenTail ==
    ASSUME NEW S, NEW c \in Seq(S), c # <<>>, NEW i \in Spoken(Tail(c))
    PROVE  i \in Spoken(c)
<1>1. PICK n \in DOMAIN Tail(c) : Tail(c)[n] = [op |-> "instance", id |-> i]
  BY DEF Spoken
<1>2. n + 1 \in DOMAIN c /\ c[n + 1] = [op |-> "instance", id |-> i]
  BY <1>1
<1> QED
  BY <1>2 DEF Spoken

LEMMA SpokenCut ==
    ASSUME NEW S, NEW c \in Seq(S), NEW n \in 0 .. Len(c), NEW i \in Spoken(SubSeq(c, 1, n))
    PROVE  i \in Spoken(c)
<1>1. PICK k \in DOMAIN SubSeq(c, 1, n) : SubSeq(c, 1, n)[k] = [op |-> "instance", id |-> i]
  BY DEF Spoken
<1>2. k \in DOMAIN c /\ c[k] = [op |-> "instance", id |-> i]
  BY <1>1
<1> QED
  BY <1>2 DEF Spoken

LEMMA SpokenHead ==
    ASSUME NEW c \in Seq(Msg), c # <<>>, Head(c).op = "instance"
    PROVE  Head(c).id \in Spoken(c)
<1>1. Head(c) \in Msg /\ Head(c) = c[1] /\ 1 \in DOMAIN c
  OBVIOUS
<1>2. Head(c) = [op |-> "instance", id |-> Head(c).id] /\ Head(c).id \in AnyId
  BY <1>1, MsgKinds
<1> QED
  BY <1>1, <1>2 DEF Spoken

LEMMA SpokenNews ==
    ASSUME NEW news \in Seq(Msg), NEW i \in Spoken(<<Hello>> \o news)
    PROVE  \E n \in DOMAIN news : news[n] = [op |-> "instance", id |-> i]
<1>1. PICK n \in DOMAIN (<<Hello>> \o news) : (<<Hello>> \o news)[n] = [op |-> "instance", id |-> i]
  BY DEF Spoken
<1>2. n # 1
  BY <1>1 DEF Hello
<1>3. n - 1 \in DOMAIN news /\ news[n - 1] = [op |-> "instance", id |-> i]
  BY <1>1, <1>2
<1> QED
  BY <1>3

-----------------------------------------------------------------------------
(* The maps.                                                               *)

MapsOK ==
    /\ known \in [Peer -> [AnyId -> Peer \cup {None}]]
    /\ local \in [Peer -> SUBSET AnyId]
    /\ brought \in [Peer -> [Peer -> SUBSET AnyId]]
    /\ reserved \in [Peer -> SUBSET Id]
    /\ held \in [Peer -> [Peer -> SUBSET Id]]

\* The variables that are neither maps nor links.
RestOK ==
    /\ cuts \in [Peer -> [Peer -> 0 .. MaxBreaks]]
    /\ stored \subseteq Peer
    /\ lead \in [Peer -> Peer]
    /\ peers \in [Peer -> SUBSET Peer]
    /\ replies \subseteq [to : Peer, by : Peer, id : AnyId, route : Route]
    /\ asks \in 0 .. MaxAsks
    /\ insts \in [Peer -> SUBSET AnyId]
    /\ gave \subseteq [to : Peer, by : Peer, id : Id]
    /\ parted \subseteq Peer \X Peer

LEMMA TypeParts == TypeOK <=> LinksOK(Msg) /\ AllFramed /\ MapsOK /\ RestOK
  BY DEF TypeOK, MapsOK, RestOK

LEMMA AddedFacts ==
    ASSUME MapsOK, NEW q \in Peer, NEW p \in Peer, NEW i \in AnyId, Added(q, i, p)
    PROVE  /\ MapsOK'
           /\ \A r \in Peer, t \in AnyId : known'[r][t] = IF r = q /\ t = i THEN p ELSE known[r][t]
           /\ \A r \in Peer, t \in AnyId : t \in reserved'[r] <=> t \in reserved[r] /\ ~(r = q /\ t = i)
           /\ \A r \in Peer, t \in AnyId : t \in local'[r] <=> t \in local[r] \/ (r = q /\ t = i /\ p = q)
           /\ \A r, u \in Peer, t \in AnyId :
                t \in brought'[r][u] <=> t \in brought[r][u] \/ (r = q /\ u = p /\ t = i /\ p # q)
           /\ \A r, u \in Peer, t \in AnyId :
                t \in held'[r][u] <=> t \in held[r][u] /\ ~(r = q /\ u = p /\ t = i /\ p # q)
<1>1. /\ known' \in [Peer -> [AnyId -> Peer \cup {None}]]
      /\ \A r \in Peer, t \in AnyId : known'[r][t] = IF r = q /\ t = i THEN p ELSE known[r][t]
  BY DEF Added, MapsOK
<1>2. /\ reserved' \in [Peer -> SUBSET Id]
      /\ \A r \in Peer, t \in AnyId : t \in reserved'[r] <=> t \in reserved[r] /\ ~(r = q /\ t = i)
  BY DEF Added, MapsOK
<1>3. CASE p = q
  <2>1. /\ brought' = brought /\ held' = held
        /\ local' = [local EXCEPT ![q] = @ \cup {i}]
    BY <1>3 DEF Added
  <2>2. /\ local' \in [Peer -> SUBSET AnyId]
        /\ \A r \in Peer, t \in AnyId : t \in local'[r] <=> t \in local[r] \/ (r = q /\ t = i)
    BY <2>1 DEF MapsOK
  <2> QED
    BY <1>1, <1>2, <1>3, <2>1, <2>2 DEF MapsOK
<1>4. CASE p # q
  <2>1. /\ brought' = [brought EXCEPT ![q][p] = @ \cup {i}]
        /\ held' = [held EXCEPT ![q][p] = @ \ {i}]
        /\ local' = local
    BY <1>4 DEF Added
  <2>2. brought' \in [Peer -> [Peer -> SUBSET AnyId]] /\ held' \in [Peer -> [Peer -> SUBSET Id]]
    BY <2>1 DEF MapsOK
  <2>3. ASSUME NEW r \in Peer, NEW u \in Peer, NEW t \in AnyId
        PROVE  /\ t \in brought'[r][u] <=> t \in brought[r][u] \/ (r = q /\ u = p /\ t = i)
               /\ t \in held'[r][u] <=> t \in held[r][u] /\ ~(r = q /\ u = p /\ t = i)
    <3>1. CASE r = q /\ u = p
      <4>1. brought'[r][u] = brought[r][u] \cup {i} /\ held'[r][u] = held[r][u] \ {i}
        BY <2>1, <3>1 DEF MapsOK
      <4> QED
        BY <3>1, <4>1
    <3>2. CASE ~(r = q /\ u = p)
      BY <2>1, <3>2 DEF MapsOK
    <3> QED
      BY <3>1, <3>2
  <2> QED
    BY <1>1, <1>2, <1>4, <2>1, <2>2, <2>3 DEF MapsOK
<1> QED
  BY <1>3, <1>4

LEMMA ForgetFacts ==
    ASSUME MapsOK, conn \in [Peer -> SUBSET Peer], NEW p \in Peer, NEW q \in Peer, Forget(p, q)
    PROVE  /\ MapsOK'
           /\ \A r \in Peer, t \in AnyId : known'[r][t] = IF r = q /\ t \in brought[q][p] THEN None ELSE known[r][t]
           /\ \A r \in Peer, t \in AnyId : t \in reserved'[r] <=> t \in reserved[r] /\ ~(r = q /\ t \in held[q][p])
           /\ \A r \in Peer, t \in AnyId : t \in local'[r] <=>
                t \in local[r] /\ ~(r = q /\ t \in brought[q][p] /\ known[q][t] = q)
           /\ \A r, u \in Peer, t \in AnyId : t \in brought'[r][u] <=>
                t \in brought[r][u] /\ ~(r = q /\ (u = p \/ (t \in brought[q][p] /\ known[q][t] = u)))
           /\ \A r, u \in Peer, t \in AnyId : t \in held'[r][u] <=> t \in held[r][u] /\ ~(r = q /\ u = p)
           /\ \A r, u \in Peer : u \in conn'[r] <=> u \in conn[r] /\ ~(r = q /\ u = p)
<1>1. /\ known' \in [Peer -> [AnyId -> Peer \cup {None}]]
      /\ \A r \in Peer, t \in AnyId : known'[r][t] = IF r = q /\ t \in brought[q][p] THEN None ELSE known[r][t]
  <2>1. [t \in AnyId |-> IF t \in brought[q][p] THEN None ELSE known[q][t]] \in [AnyId -> Peer \cup {None}]
    BY DEF MapsOK
  <2>2. known' = [known EXCEPT ![q] = [t \in AnyId |-> IF t \in brought[q][p] THEN None ELSE known[q][t]]]
    BY DEF Forget, MapsOK
  <2> QED
    BY <2>1, <2>2 DEF MapsOK
<1>2. /\ reserved' \in [Peer -> SUBSET Id]
      /\ \A r \in Peer, t \in AnyId : t \in reserved'[r] <=> t \in reserved[r] /\ ~(r = q /\ t \in held[q][p])
  BY DEF Forget, MapsOK
<1>3. /\ local' \in [Peer -> SUBSET AnyId]
      /\ \A r \in Peer, t \in AnyId : t \in local'[r] <=>
           t \in local[r] /\ ~(r = q /\ t \in brought[q][p] /\ known[q][t] = q)
  BY DEF Forget, MapsOK
<1>4. /\ brought' \in [Peer -> [Peer -> SUBSET AnyId]]
      /\ \A r, u \in Peer, t \in AnyId : t \in brought'[r][u] <=>
           t \in brought[r][u] /\ ~(r = q /\ (u = p \/ (t \in brought[q][p] /\ known[q][t] = u)))
  <2> DEFINE row == [r \in Peer |-> IF r = p THEN {} ELSE
                       {i \in brought[q][r] : i \notin brought[q][p] \/ known[q][i] # r}]
  <2>1. brought' = [brought EXCEPT ![q] = row]
    BY DEF Forget, MapsOK
  <2>2. /\ row \in [Peer -> SUBSET AnyId]
        /\ \A u \in Peer, t \in AnyId : t \in row[u] <=>
             t \in brought[q][u] /\ ~(u = p \/ (t \in brought[q][p] /\ known[q][t] = u))
    BY DEF MapsOK
  <2> HIDE DEF row
  <2>3. brought'[q] = row /\ \A r \in Peer : r # q => brought'[r] = brought[r]
    BY <2>1 DEF MapsOK
  <2>4. brought' \in [Peer -> [Peer -> SUBSET AnyId]]
    BY <2>1, <2>2 DEF MapsOK
  <2>5. ASSUME NEW r \in Peer, NEW u \in Peer, NEW t \in AnyId
        PROVE  t \in brought'[r][u] <=>
                 t \in brought[r][u] /\ ~(r = q /\ (u = p \/ (t \in brought[q][p] /\ known[q][t] = u)))
    BY <2>2, <2>3
  <2> QED
    BY <2>4, <2>5
<1>5. /\ held' \in [Peer -> [Peer -> SUBSET Id]]
      /\ \A r, u \in Peer, t \in AnyId : t \in held'[r][u] <=> t \in held[r][u] /\ ~(r = q /\ u = p)
  BY DEF Forget, MapsOK
<1>6. \A r, u \in Peer : u \in conn'[r] <=> u \in conn[r] /\ ~(r = q /\ u = p)
  BY DEF Forget, ReadEnd
<1> QED
  BY <1>1, <1>2, <1>3, <1>4, <1>5, <1>6 DEF MapsOK

-----------------------------------------------------------------------------
(* How the parts of the invariant carry over.                              *)

LEMMA CleanBefore ==
    ASSUME gave \subseteq gave', parted \subseteq parted', NEW i, Clean(i)'
    PROVE  Clean(i)
  BY DEF Clean

LEMMA OneGrantKept ==
    ASSUME OneGrant, gave' = gave, parted \subseteq parted'
    PROVE  OneGrant'
<1> SUFFICES ASSUME NEW i \in Id, Clean(i)', NEW g \in gave', NEW h \in gave', g.id = i, h.id = i
             PROVE  g = h
  BY DEF OneGrant
<1>1. Clean(i)
  BY CleanBefore
<1> QED
  BY <1>1 DEF OneGrant

\* An id that is free at a peer which alone gives it out was never given out.
LEMMA OneGrantMore ==
    ASSUME OneGrant, Accounted, NEW p \in Peer, NEW q \in Peer, NEW i \in Id, i \in Free(q),
           gave' = gave \cup {[to |-> p, by |-> q, id |-> i]}, parted' = parted
    PROVE  OneGrant'
<1> DEFINE new == [to |-> p, by |-> q, id |-> i]
<1>1. new \in gave' /\ new.by = q /\ new.id = i
  OBVIOUS
<1>2. gave' = gave \cup {new}
  OBVIOUS
<1> HIDE DEF new
<1> SUFFICES ASSUME NEW j \in Id, Clean(j)', NEW g \in gave', NEW h \in gave', g.id = j, h.id = j
             PROVE  g = h
  BY DEF OneGrant
<1>3. Clean(j)
  BY <1>2, CleanBefore
<1>4. CASE j # i
  <2>1. g \in gave /\ h \in gave
    BY <1>1, <1>2, <1>4
  <2> QED
    BY <1>3, <2>1 DEF OneGrant
<1>5. CASE j = i
  <2>1. \A f \in gave' : f.id = i => f.by = q
    BY <1>1, <1>5 DEF Clean
  <2>2. \A f \in gave : f.id # i
    <3> SUFFICES ASSUME NEW f \in gave, f.id = i PROVE FALSE
      OBVIOUS
    <3>1. f.by = q
      BY <1>2, <2>1
    <3>2. i \in reserved[q] \/ known[q][i] # None
      BY <1>3, <1>5, <3>1 DEF Accounted
    <3> QED
      BY <3>2 DEF Free
  <2> QED
    BY <1>2, <1>5, <2>2
<1> QED
  BY <1>4, <1>5

LEMMA AccountedKept ==
    ASSUME Accounted, gave' = gave, parted \subseteq parted',
           \A g \in gave : Clean(g.id)' /\ (g.id \in reserved[g.by] \/ known[g.by][g.id] # None)
             => g.id \in reserved'[g.by] \/ known'[g.by][g.id] # None
    PROVE  Accounted'
<1> SUFFICES ASSUME NEW g \in gave, Clean(g.id)'
             PROVE  g.id \in reserved'[g.by] \/ known'[g.by][g.id] # None
  BY DEF Accounted
<1>1. Clean(g.id)
  BY CleanBefore
<1> QED
  BY <1>1 DEF Accounted

LEMMA TracedKept ==
    ASSUME Traced, MapsOK', gave \subseteq gave',
           \A r \in replies' : r \in replies \/ r.id \notin Id \/ [to |-> r.to, by |-> r.by, id |-> r.id] \in gave',
           \A p, q \in Peer, i \in AnyId :
             /\ i \in held'[q][p] => i \in held[q][p] \/ [to |-> p, by |-> q, id |-> i] \in gave'
             /\ i \in brought'[q][p] => i \in brought[q][p] \/ Given(p, i)'
             /\ i \in Spoken(chan'[p][q]) => i \in Spoken(chan[p][q]) \/ Given(p, i)',
           \A p \in Peer, i \in AnyId : i \in local'[p] => i \in local[p] \/ Given(p, i)'
    PROVE  Traced'
<1>1. \A p \in Peer, i \in AnyId : Given(p, i) => Given(p, i)'
  BY DEF Given
<1>2. \A r \in replies' : r.id \in Id => [to |-> r.to, by |-> r.by, id |-> r.id] \in gave'
  BY DEF Traced
<1>3. ASSUME NEW p \in Peer, NEW q \in Peer
      PROVE  /\ \A i \in held'[q][p] : [to |-> p, by |-> q, id |-> i] \in gave'
             /\ \A i \in brought'[q][p] : Given(p, i)'
             /\ \A i \in Spoken(chan'[p][q]) : Given(p, i)'
  <2>1. held'[q][p] \subseteq AnyId /\ brought'[q][p] \subseteq AnyId /\ Spoken(chan'[p][q]) \subseteq AnyId
    BY Ids DEF MapsOK, Spoken
  <2>2. ASSUME NEW i \in held'[q][p] PROVE [to |-> p, by |-> q, id |-> i] \in gave'
    BY <2>1 DEF Traced
  <2>3. ASSUME NEW i \in brought'[q][p] PROVE Given(p, i)'
    BY <1>1, <2>1 DEF Traced
  <2>4. ASSUME NEW i \in Spoken(chan'[p][q]) PROVE Given(p, i)'
    BY <1>1, <2>1 DEF Traced
  <2> QED
    BY <2>2, <2>3, <2>4
<1>4. ASSUME NEW p \in Peer, NEW i \in local'[p] PROVE Given(p, i)'
  <2>1. i \in AnyId
    BY DEF MapsOK
  <2> QED
    BY <1>1, <2>1 DEF Traced
<1> QED
  BY <1>2, <1>3, <1>4 DEF Traced

LEMMA NoLeakKept ==
    ASSUME NoLeak, MapsOK, MapsOK',
           \A q \in Peer, i \in AnyId : i \in reserved'[q] =>
             /\ i \in reserved[q]
             /\ \A p \in conn[q] : i \in held[q][p] => p \in conn'[q] /\ i \in held'[q][p]
    PROVE  NoLeak'
<1> SUFFICES ASSUME NEW q \in Peer, NEW i \in reserved'[q]
             PROVE  \E p \in conn'[q] : i \in held'[q][p]
  BY DEF NoLeak
<1>1. i \in AnyId
  BY Ids DEF MapsOK
<1>2. i \in reserved[q]
  BY <1>1
<1>3. PICK p \in conn[q] : i \in held[q][p]
  BY <1>2 DEF NoLeak
<1> QED
  BY <1>1, <1>3

-----------------------------------------------------------------------------
(* The invariant, action by action.                                        *)

LEMMA PartsOf ==
    ASSUME IInv
    PROVE  LinksOK(Msg) /\ AllFramed /\ MapsOK /\ RestOK /\ conn \in [Peer -> SUBSET Peer]
  BY TypeParts DEF IInv, LinksOK

\* Init, and a step that changes neither the maps nor what was given.
LEMMA QuietKeeps ==
    ASSUME IInv, LinksOK(Msg)', AllFramed', RestOK', CutsCounted',
           UNCHANGED <<maps, gave>>, parted \subseteq parted', \A r \in replies' : r \in replies \/ r.id \notin Id,
           \A p \in Peer : conn[p] \subseteq conn'[p],
           \A p, q \in Peer, i \in AnyId : i \in Spoken(chan'[p][q]) => i \in Spoken(chan[p][q]) \/ Given(p, i)'
    PROVE  IInv'
<1> USE DEF maps
<1>1. MapsOK /\ MapsOK'
  BY PartsOf DEF MapsOK
<1>2. Traced'
  BY <1>1, TracedKept DEF IInv
<1>3. NoLeak'
  BY <1>1, NoLeakKept DEF IInv
<1>4. Accounted'
  BY AccountedKept DEF IInv
<1>5. OneGrant'
  BY OneGrantKept DEF IInv
<1>6. TypeOK'
  BY <1>1 DEF TypeOK, MapsOK, RestOK
<1> QED
  BY <1>2, <1>3, <1>4, <1>5, <1>6 DEF IInv

LEMMA CreatedKeeps ==
    ASSUME IInv, NEW p \in Peer, NEW i \in AnyId, Created(p, i), gave \subseteq gave', Given(p, i)',
           replies' \subseteq replies, UNCHANGED <<cuts, parted>>
    PROVE  /\ LinksOK(Msg)' /\ AllFramed' /\ MapsOK'
           /\ insts' \in [Peer -> SUBSET AnyId]
           /\ CutsCounted' /\ NoLeak' /\ Traced'
<1> DEFINE m == [op |-> "instance", id |-> i]
<1>1. LinksOK(Msg) /\ AllFramed /\ MapsOK /\ RestOK
  BY PartsOf
<1>2. m \in Msg /\ Plain(m) /\ Kinds(Msg)
  BY MsgKinds
<1>3. chan' = ToOthers(p, m) /\ UNCHANGED <<link, conn, breaks>>
  BY DEF Created
<1> HIDE DEF m
<1>4. LinksOK(Msg)' /\ AllFramed'
  BY <1>1, <1>2, <1>3, LinksToOthers
<1>5. Added(p, i, p) /\ insts' = [insts EXCEPT ![p] = @ \cup {i}]
  BY DEF Created
<1>6. MapsOK' /\ insts' \in [Peer -> SUBSET AnyId]
  BY <1>1, <1>5, AddedFacts DEF RestOK
<1>7. CutsCounted'
  BY <1>3 DEF IInv, CutsCounted
<1>8. NoLeak'
  <2>1. \A r \in Peer, t \in AnyId : t \in reserved'[r] => t \in reserved[r]
    BY <1>1, <1>5, AddedFacts
  <2>2. \A r, u \in Peer, t \in AnyId : t \in held'[r][u] <=> t \in held[r][u]
    BY <1>1, <1>5, AddedFacts
  <2>3. conn \in [Peer -> SUBSET Peer]
    BY <1>1 DEF LinksOK
  <2> QED
    BY <1>1, <1>3, <1>6, <2>1, <2>2, <2>3, NoLeakKept DEF IInv
<1>9. Traced'
  <2>1. ASSUME NEW r \in Peer, NEW u \in Peer, NEW t \in AnyId
        PROVE  /\ t \in held'[u][r] => t \in held[u][r]
               /\ t \in brought'[u][r] => t \in brought[u][r]
               /\ t \in local'[r] => t \in local[r] \/ Given(r, t)'
    BY <1>1, <1>5, AddedFacts
  <2>2. ASSUME NEW r \in Peer, NEW u \in Peer, NEW t \in AnyId, t \in Spoken(chan'[r][u])
        PROVE  t \in Spoken(chan[r][u]) \/ Given(r, t)'
    <3>1. CASE r = p /\ link[p][u] = "up"
      <4>1. chan'[r][u] = Append(chan[r][u], m) /\ chan[r][u] \in Seq(Msg)
        BY <1>1, <1>3, <3>1 DEF ToOthers, LinksOK
      <4>2. t \in Spoken(chan[r][u]) \/ m = [op |-> "instance", id |-> t]
        BY <1>2, <2>2, <4>1, SpokenAppend
      <4>3. m = [op |-> "instance", id |-> t] => t = i
        BY DEF m
      <4> QED
        BY <3>1, <4>2, <4>3
    <3>2. CASE ~(r = p /\ link[p][u] = "up")
      <4>1. chan'[r][u] = chan[r][u]
        BY <1>1, <1>3, <3>2 DEF ToOthers, LinksOK
      <4> QED
        BY <2>2, <4>1
    <3> QED
      BY <3>1, <3>2
  <2> QED
    BY <1>6, <2>1, <2>2, TracedKept DEF IInv
<1> QED
  BY <1>4, <1>6, <1>7, <1>8, <1>9

LEMMA AskSelfKeeps ==
    ASSUME IInv, NEW p \in Peer, AskSelf(p)
    PROVE  IInv'
<1>1. PICK i \in Id : /\ IsFirstFree(i, p)
                   /\ Created(p, i)
                   /\ gave' = gave \cup {[to |-> p, by |-> p, id |-> i]}
  BY DEF AskSelf
<1>2. UNCHANGED <<cuts, stored, lead, peers, replies, parted>> /\ asks' = asks + 1 /\ asks < MaxAsks
  BY DEF AskSelf
<1>3. MapsOK /\ RestOK
  BY PartsOf
<1>4. Given(p, i)'
  <2>1. [to |-> p, by |-> p, id |-> i] \in gave'
    BY <1>1
  <2> QED
    BY <2>1 DEF Given
<1>5. /\ LinksOK(Msg)' /\ AllFramed' /\ MapsOK'
      /\ insts' \in [Peer -> SUBSET AnyId]
      /\ CutsCounted' /\ NoLeak' /\ Traced'
  BY <1>1, <1>2, <1>4, Ids, CreatedKeeps
<1>6. gave' \subseteq [to : Peer, by : Peer, id : Id]
  BY <1>1, <1>3 DEF RestOK
<1>7. RestOK'
  BY <1>2, <1>3, <1>5, <1>6, IdsAssumption DEF RestOK
<1>8. i \in Free(p) /\ OneGrant /\ Accounted
  BY <1>1 DEF IsFirstFree, IInv
<1>9. OneGrant'
  BY <1>1, <1>2, <1>8, OneGrantMore
<1>10. Accounted'
  <2>1. /\ \A r \in Peer, t \in AnyId : known'[r][t] = IF r = p /\ t = i THEN p ELSE known[r][t]
        /\ \A r \in Peer, t \in AnyId : t \in reserved'[r] <=> t \in reserved[r] /\ ~(r = p /\ t = i)
    BY <1>1, <1>3, Ids, AddedFacts DEF Created
  <2> SUFFICES ASSUME NEW g \in gave', Clean(g.id)'
               PROVE  g.id \in reserved'[g.by] \/ known'[g.by][g.id] # None
    BY DEF Accounted
  <2>2. g.by \in Peer /\ g.id \in AnyId
    BY <1>6, Ids
  <2>3. CASE g.by = p /\ g.id = i
    BY <2>1, <2>2, <2>3, NoneAssumption
  <2>4. CASE ~(g.by = p /\ g.id = i)
    <3>1. g \in gave
      BY <1>1, <2>4
    <3>2. Clean(g.id)
      BY <1>1, <1>2, CleanBefore
    <3>3. g.id \in reserved[g.by] \/ known[g.by][g.id] # None
      BY <1>8, <3>1, <3>2 DEF Accounted
    <3> QED
      BY <2>1, <2>2, <2>4, <3>3
  <2> QED
    BY <2>3, <2>4
<1>11. TypeOK'
  BY <1>5, <1>7 DEF TypeOK, MapsOK, RestOK
<1> QED
  BY <1>5, <1>9, <1>10, <1>11 DEF IInv

\* Accounted, where an instance is added and nothing is given.
LEMMA AccountedAdded ==
    ASSUME MapsOK, RestOK, Accounted, NEW q \in Peer, NEW p \in Peer, NEW i \in AnyId, Added(q, i, p),
           UNCHANGED <<gave, parted>>
    PROVE  Accounted'
<1>1. /\ \A r \in Peer, t \in AnyId : known'[r][t] = IF r = q /\ t = i THEN p ELSE known[r][t]
      /\ \A r \in Peer, t \in AnyId : t \in reserved'[r] <=> t \in reserved[r] /\ ~(r = q /\ t = i)
  BY AddedFacts
<1>2. ASSUME NEW g \in gave, g.id \in reserved[g.by] \/ known[g.by][g.id] # None
      PROVE  g.id \in reserved'[g.by] \/ known'[g.by][g.id] # None
  <2>1. g.by \in Peer /\ g.id \in AnyId
    BY Ids DEF RestOK
  <2>2. CASE g.by = q /\ g.id = i
    BY <1>1, <2>1, <2>2, NoneAssumption
  <2>3. CASE ~(g.by = q /\ g.id = i)
    BY <1>1, <1>2, <2>1, <2>3
  <2> QED
    BY <2>2, <2>3
<1> QED
  BY <1>2, AccountedKept

LEMMA ReadReplyKeeps ==
    ASSUME IInv, NEW r \in replies, ReadReply(r)
    PROVE  IInv'
<1>1. MapsOK /\ RestOK
  BY PartsOf
<1>2. r.to \in Peer /\ r.id \in AnyId /\ r.by \in Peer
  BY <1>1 DEF RestOK
<1>3. Created(r.to, r.id) /\ replies' = replies \ {r} /\ UNCHANGED <<cuts, stored, lead, peers, asks, gave, parted>>
  BY DEF ReadReply
<1>4. Given(r.to, r.id)'
  <2>1. CASE r.id = 0
    BY <2>1 DEF Given
  <2>2. CASE r.id # 0
    <3>1. r.id \in Id
      BY <1>2, <2>2, IdsAssumption DEF Id, AnyId
    <3>2. [to |-> r.to, by |-> r.by, id |-> r.id] \in gave
      BY <3>1 DEF IInv, Traced
    <3> QED
      BY <1>3, <3>2 DEF Given
  <2> QED
    BY <2>1, <2>2
<1>5. /\ LinksOK(Msg)' /\ AllFramed' /\ MapsOK'
      /\ insts' \in [Peer -> SUBSET AnyId]
      /\ CutsCounted' /\ NoLeak' /\ Traced'
  BY <1>2, <1>3, <1>4, CreatedKeeps
<1>6. RestOK'
  BY <1>1, <1>3, <1>5 DEF RestOK
<1>7. Accounted'
  BY <1>1, <1>2, <1>3, AccountedAdded DEF IInv, Created
<1>8. OneGrant'
  BY <1>3, OneGrantKept DEF IInv
<1>9. TypeOK'
  BY <1>5, <1>6 DEF TypeOK, MapsOK, RestOK
<1> QED
  BY <1>5, <1>7, <1>8, <1>9 DEF IInv

LEMMA AskNobodyKeeps ==
    ASSUME IInv, NEW p \in Peer, AskNobody(p)
    PROVE  IInv'
<1>1. MapsOK /\ RestOK
  BY PartsOf
<1>2. Created(p, 0) /\ UNCHANGED <<cuts, stored, lead, peers, replies, gave, parted>>
      /\ asks < MaxAsks /\ asks' = asks + 1
  BY DEF AskNobody
<1>3. Given(p, 0)'
  BY DEF Given
<1>4. /\ LinksOK(Msg)' /\ AllFramed' /\ MapsOK'
      /\ insts' \in [Peer -> SUBSET AnyId]
      /\ CutsCounted' /\ NoLeak' /\ Traced'
  BY <1>2, <1>3, Ids, CreatedKeeps
<1>5. RestOK'
  BY <1>1, <1>2, <1>4, IdsAssumption DEF RestOK
<1>6. Accounted'
  BY <1>1, <1>2, Ids, AccountedAdded DEF IInv, Created
<1>7. OneGrant'
  BY <1>2, OneGrantKept DEF IInv
<1>8. TypeOK'
  BY <1>4, <1>5 DEF TypeOK, MapsOK, RestOK
<1> QED
  BY <1>4, <1>6, <1>7, <1>8 DEF IInv

LEMMA ReadInstanceKeeps ==
    ASSUME IInv, NEW p \in Peer, NEW q \in Peer, ReadInstance(p, q)
    PROVE  IInv'
<1>1. LinksOK(Msg) /\ AllFramed /\ MapsOK /\ RestOK /\ conn \in [Peer -> SUBSET Peer]
  BY PartsOf
<1>2. /\ Reading(p, q, "instance") /\ Taken(p, q) /\ UNCHANGED <<link, conn, breaks>>
      /\ Added(q, Head(chan[p][q]).id, p)
      /\ UNCHANGED <<cuts, stored, lead, peers, replies, asks, record, parted>>
  BY DEF ReadInstance
<1>3. /\ LinksOK(Msg)' /\ AllFramed' /\ p # q /\ p \in conn[q]
      /\ Head(chan[p][q]) \in Msg /\ Head(chan[p][q]).op = "instance"
  BY <1>1, <1>2, LinksPlain, MsgKinds
<1>4. PICK i \in AnyId : i = Head(chan[p][q]).id /\ Added(q, i, p)
  BY <1>2, <1>3, MsgKinds
<1>5. /\ chan[p][q] \in Seq(Msg) /\ chan[p][q] # <<>>
      /\ chan'[p][q] = Tail(chan[p][q])
      /\ \A r, t \in Peer : <<r, t>> # <<p, q>> => chan'[r][t] = chan[r][t]
  BY <1>1, <1>2, TakenFacts, MsgKinds DEF Reading
<1>6. Given(p, i)
  <2>1. i \in Spoken(chan[p][q])
    BY <1>3, <1>4, <1>5, SpokenHead
  <2> QED
    BY <2>1 DEF IInv, Traced
<1>7. MapsOK'
  BY <1>1, <1>2, <1>4, AddedFacts
<1>8. RestOK' /\ CutsCounted'
  BY <1>1, <1>2 DEF RestOK, CutsCounted, record, IInv
<1>9. NoLeak'
  <2>1. \A r \in Peer, t \in AnyId : t \in reserved'[r] <=> t \in reserved[r] /\ ~(r = q /\ t = i)
    BY <1>1, <1>2, <1>4, AddedFacts
  <2>2. \A r, u \in Peer, t \in AnyId :
          t \in held'[r][u] <=> t \in held[r][u] /\ ~(r = q /\ u = p /\ t = i /\ p # q)
    BY <1>1, <1>2, <1>4, AddedFacts
  <2>3. ASSUME NEW r \in Peer, NEW t \in AnyId, t \in reserved'[r]
        PROVE  /\ t \in reserved[r]
               /\ \A u \in conn[r] : t \in held[r][u] => u \in conn'[r] /\ t \in held'[r][u]
    BY <1>1, <1>2, <2>1, <2>2, <2>3
  <2> QED
    BY <1>1, <1>7, <2>3, NoLeakKept DEF IInv
<1>10. Traced'
  <2>1. \A r, u \in Peer, t \in AnyId : t \in held'[u][r] => t \in held[u][r]
    BY <1>1, <1>2, <1>4, AddedFacts
  <2>2. \A r \in Peer, t \in AnyId : t \in local'[r] => t \in local[r]
    BY <1>1, <1>2, <1>3, <1>4, AddedFacts
  <2>3. \A r, u \in Peer, t \in AnyId :
          t \in brought'[u][r] => t \in brought[u][r] \/ (r = p /\ t = i)
    BY <1>1, <1>2, <1>4, AddedFacts
  <2>4. gave' = gave /\ replies' = replies
    BY <1>2 DEF record
  <2>5. Given(p, i)'
    BY <1>6, <2>4 DEF Given
  <2>6. ASSUME NEW r \in Peer, NEW u \in Peer, NEW t \in AnyId, t \in Spoken(chan'[r][u])
        PROVE  t \in Spoken(chan[r][u])
    <3>1. CASE <<r, u>> = <<p, q>>
      BY <1>5, <2>6, <3>1, SpokenTail
    <3>2. CASE <<r, u>> # <<p, q>>
      <4>1. chan'[r][u] = chan[r][u]
        BY <1>5, <3>2
      <4> QED
        BY <2>6, <4>1
    <3> QED
      BY <3>1, <3>2
  <2> QED
    BY <1>7, <2>1, <2>2, <2>3, <2>4, <2>5, <2>6, TracedKept DEF IInv
<1>11. Accounted'
  BY <1>1, <1>2, <1>4, AccountedAdded DEF IInv, record
<1>12. OneGrant'
  BY <1>2, OneGrantKept DEF IInv, record
<1>13. TypeOK'
  BY <1>3, <1>7, <1>8 DEF TypeOK, MapsOK, RestOK
<1> QED
  BY <1>8, <1>9, <1>10, <1>11, <1>12, <1>13 DEF IInv

\* A request is read: what was on the channel is still there.
LEMMA SpokenTaken ==
    ASSUME LinksOK(Msg), NEW p \in Peer, NEW q \in Peer, chan[p][q] # <<>>, Taken(p, q),
           NEW r \in Peer, NEW u \in Peer, NEW i \in Spoken(chan'[r][u])
    PROVE  i \in Spoken(chan[r][u])
<1>1. /\ chan[p][q] \in Seq(Msg)
      /\ chan'[p][q] = Tail(chan[p][q])
      /\ \A s, t \in Peer : <<s, t>> # <<p, q>> => chan'[s][t] = chan[s][t]
  BY TakenFacts, MsgKinds
<1>2. CASE <<r, u>> = <<p, q>>
  BY <1>1, <1>2, SpokenTail
<1>3. CASE <<r, u>> # <<p, q>>
  <2>1. chan'[r][u] = chan[r][u]
    BY <1>1, <1>3
  <2> QED
    BY <2>1
<1> QED
  BY <1>2, <1>3

LEMMA GiveKeeps ==
    ASSUME IInv, NEW p \in Peer, NEW q \in Peer, Give(p, q)
    PROVE  IInv'
<1> DEFINE m == Head(chan[p][q])
<1>1. LinksOK(Msg) /\ AllFramed /\ MapsOK /\ RestOK /\ conn \in [Peer -> SUBSET Peer]
  BY PartsOf
<1>2. /\ Reading(p, q, "ask") /\ Taken(p, q)
      /\ UNCHANGED <<link, conn, breaks, cuts, stored, lead, peers, known, local, brought, asks, insts, parted>>
  BY DEF Give
<1>3. /\ LinksOK(Msg)' /\ AllFramed' /\ m \in Msg /\ m.op = "ask"
  BY <1>1, <1>2, LinksPlain, MsgKinds
<1>4. m.for \in Peer /\ m.route \in Route
  BY <1>3, MsgKinds
<1>5. chan[p][q] # <<>>
  BY <1>2 DEF Reading
<1>6. PICK i \in Id :
        /\ IsFirstFree(i, q)
        /\ m.for \in conn[q]
        /\ reserved' = [reserved EXCEPT ![q] = @ \cup {i}]
        /\ held' = [held EXCEPT ![q][m.for] = @ \cup {i}]
        /\ replies' = IF Intact(m.route, cuts)
                      THEN replies \cup {[to |-> m.for, by |-> q, id |-> i, route |-> m.route]}
                      ELSE replies
        /\ gave' = gave \cup {[to |-> m.for, by |-> q, id |-> i]}
  BY DEF Give
<1> DEFINE f == m.for
           w == m.route
           new == [to |-> f, by |-> q, id |-> i]
<1> HIDE DEF m
<1>7. /\ reserved' \in [Peer -> SUBSET Id]
      /\ \A r \in Peer, t \in AnyId : t \in reserved'[r] <=> t \in reserved[r] \/ (r = q /\ t = i)
  BY <1>1, <1>6 DEF MapsOK
<1>8. /\ held' \in [Peer -> [Peer -> SUBSET Id]]
      /\ \A r, u \in Peer, t \in AnyId : t \in held'[r][u] <=> t \in held[r][u] \/ (r = q /\ u = f /\ t = i)
  <2>1. held' = [held EXCEPT ![q][f] = @ \cup {i}]
    BY <1>6
  <2>2. held' \in [Peer -> [Peer -> SUBSET Id]]
    BY <1>1, <1>4, <2>1 DEF MapsOK
  <2>3. ASSUME NEW r \in Peer, NEW u \in Peer, NEW t \in AnyId
        PROVE  t \in held'[r][u] <=> t \in held[r][u] \/ (r = q /\ u = f /\ t = i)
    <3>1. CASE r = q /\ u = f
      <4>1. held'[r][u] = held[r][u] \cup {i}
        BY <1>1, <1>4, <2>1, <3>1 DEF MapsOK
      <4> QED
        BY <3>1, <4>1
    <3>2. CASE ~(r = q /\ u = f)
      <4>1. held'[r][u] = held[r][u]
        BY <1>1, <1>4, <2>1, <3>2 DEF MapsOK
      <4> QED
        BY <3>2, <4>1
    <3> QED
      BY <3>1, <3>2
  <2> QED
    BY <2>2, <2>3
<1>9. MapsOK'
  BY <1>1, <1>2, <1>7, <1>8 DEF MapsOK
<1>10. new \in gave' /\ gave' = gave \cup {new} /\ new \in [to : Peer, by : Peer, id : Id]
  BY <1>4, <1>6
<1>11. \A r \in replies' : r \in replies \/ (r.to = f /\ r.by = q /\ r.id = i /\ r \in [to : Peer, by : Peer, id : AnyId, route : Route])
  <2>1. CASE Intact(m.route, cuts)
    <3>1. replies' = replies \cup {[to |-> f, by |-> q, id |-> i, route |-> w]}
      BY <1>6, <2>1
    <3>2. [to |-> f, by |-> q, id |-> i, route |-> w] \in [to : Peer, by : Peer, id : AnyId, route : Route]
      BY <1>4, Ids
    <3> QED
      BY <3>1, <3>2
  <2>2. CASE ~Intact(m.route, cuts)
    BY <1>6, <2>2
  <2> QED
    BY <2>1, <2>2
<1>12. replies' \subseteq [to : Peer, by : Peer, id : AnyId, route : Route]
  BY <1>1, <1>11 DEF RestOK
<1>13. RestOK' /\ CutsCounted'
  BY <1>1, <1>2, <1>10, <1>12 DEF RestOK, CutsCounted, IInv
<1>14. NoLeak'
  <2> SUFFICES ASSUME NEW r \in Peer, NEW t \in reserved'[r]
               PROVE  \E u \in conn'[r] : t \in held'[r][u]
    BY DEF NoLeak
  <2>1. t \in AnyId
    BY <1>7, Ids
  <2>2. CASE r = q /\ t = i
    <3>1. f \in conn'[r] /\ t \in held'[r][f]
      BY <1>2, <1>4, <1>6, <1>8, <2>1, <2>2
    <3> QED
      BY <3>1
  <2>3. CASE ~(r = q /\ t = i)
    <3>1. t \in reserved[r]
      BY <1>7, <2>1, <2>3
    <3>2. PICK u \in conn[r] : t \in held[r][u]
      BY <3>1 DEF IInv, NoLeak
    <3>3. u \in conn'[r] /\ t \in held'[r][u]
      BY <1>1, <1>2, <1>8, <2>1, <3>2
    <3> QED
      BY <3>3
  <2> QED
    BY <2>2, <2>3
<1>15. Traced'
  <2>1. \A r \in replies' : r \in replies \/ [to |-> r.to, by |-> r.by, id |-> r.id] \in gave'
    BY <1>10, <1>11
  <2>2. \A r, u \in Peer, t \in AnyId :
          t \in held'[u][r] => t \in held[u][r] \/ [to |-> r, by |-> u, id |-> t] \in gave'
    BY <1>8, <1>10
  <2>3. \A r, u \in Peer, t \in AnyId : t \in Spoken(chan'[r][u]) => t \in Spoken(chan[r][u])
    BY <1>1, <1>2, <1>5, SpokenTaken
  <2> HIDE DEF new
  <2> QED
    BY <1>2, <1>9, <1>10, <2>1, <2>2, <2>3, TracedKept DEF IInv
<1>16. i \in Free(q) /\ OneGrant /\ Accounted
  BY <1>6 DEF IsFirstFree, IInv
<1>17. OneGrant'
  BY <1>2, <1>4, <1>10, <1>16, OneGrantMore
<1>18. Accounted'
  <2> SUFFICES ASSUME NEW g \in gave', Clean(g.id)'
               PROVE  g.id \in reserved'[g.by] \/ known'[g.by][g.id] # None
    BY DEF Accounted
  <2>1. CASE g = new
    <3>1. i \in reserved'[q]
      BY <1>7, Ids
    <3> QED
      BY <2>1, <3>1
  <2>2. CASE g # new
    <3>1. g \in gave
      BY <1>10, <2>2
    <3>2. Clean(g.id)
      BY <1>2, <1>10, CleanBefore
    <3>3. g.id \in reserved[g.by] \/ known[g.by][g.id] # None
      BY <1>16, <3>1, <3>2 DEF Accounted
    <3>4. g.by \in Peer /\ g.id \in AnyId
      BY <1>1, <3>1, Ids DEF RestOK
    <3> QED
      BY <1>2, <1>7, <3>3, <3>4
  <2> QED
    BY <2>1, <2>2
<1>19. TypeOK'
  BY <1>3, <1>9, <1>13 DEF TypeOK, MapsOK, RestOK
<1> QED
  BY <1>13, <1>14, <1>15, <1>17, <1>18, <1>19 DEF IInv

LEMMA ForgetKeeps ==
    ASSUME IInv, NEW p \in Peer, NEW q \in Peer, Forget(p, q)
    PROVE  IInv'
<1>1. LinksOK(Msg) /\ AllFramed /\ MapsOK /\ RestOK /\ conn \in [Peer -> SUBSET Peer]
  BY PartsOf
<1>2. /\ ReadEnd(p, q) /\ parted' = parted \cup {<<p, q>>}
      /\ UNCHANGED <<cuts, stored, lead, peers, replies, asks, record>>
  BY DEF Forget
<1>3. LinksOK(Msg)' /\ AllFramed'
  BY <1>1, <1>2, LinksEnd, MsgKinds
<1>4. /\ MapsOK'
      /\ \A r \in Peer, t \in AnyId : known'[r][t] = IF r = q /\ t \in brought[q][p] THEN None ELSE known[r][t]
      /\ \A r \in Peer, t \in AnyId : t \in reserved'[r] <=> t \in reserved[r] /\ ~(r = q /\ t \in held[q][p])
      /\ \A r \in Peer, t \in AnyId : t \in local'[r] => t \in local[r]
      /\ \A r, u \in Peer, t \in AnyId : t \in brought'[r][u] => t \in brought[r][u]
      /\ \A r, u \in Peer, t \in AnyId : t \in held'[r][u] <=> t \in held[r][u] /\ ~(r = q /\ u = p)
      /\ \A r, u \in Peer : u \in conn'[r] <=> u \in conn[r] /\ ~(r = q /\ u = p)
  BY <1>1, ForgetFacts
<1>5. RestOK' /\ CutsCounted'
  BY <1>1, <1>2 DEF RestOK, CutsCounted, record, IInv, ReadEnd
<1>6. NoLeak'
  <2>1. ASSUME NEW r \in Peer, NEW t \in AnyId, t \in reserved'[r]
        PROVE  /\ t \in reserved[r]
               /\ \A u \in conn[r] : t \in held[r][u] => u \in conn'[r] /\ t \in held'[r][u]
    <3>1. t \in reserved[r] /\ ~(r = q /\ t \in held[q][p])
      BY <1>4, <2>1
    <3>2. ASSUME NEW u \in conn[r], t \in held[r][u] PROVE u \in conn'[r] /\ t \in held'[r][u]
      <4>1. u \in Peer /\ ~(r = q /\ u = p)
        BY <1>1, <3>1, <3>2
      <4> QED
        BY <1>4, <3>2, <4>1
    <3> QED
      BY <3>1, <3>2
  <2> QED
    BY <1>1, <1>4, <2>1, NoLeakKept DEF IInv
<1>7. gave' = gave
  BY <1>2 DEF record
<1>8. Traced'
  <2>1. Reading(p, q, "eof") /\ Taken(p, q) /\ chan[p][q] # <<>>
    BY <1>2 DEF ReadEnd, Reading
  <2>2. \A r, u \in Peer, t \in AnyId : t \in Spoken(chan'[r][u]) => t \in Spoken(chan[r][u])
    BY <1>1, <2>1, SpokenTaken
  <2> QED
    BY <1>2, <1>4, <1>7, <2>2, TracedKept DEF IInv
<1>9. Accounted'
  <2>1. ASSUME NEW g \in gave, Clean(g.id)', g.id \in reserved[g.by] \/ known[g.by][g.id] # None
        PROVE  g.id \in reserved'[g.by] \/ known'[g.by][g.id] # None
    <3>1. g.by \in Peer /\ g.id \in AnyId /\ g.to \in Peer
      BY <1>1, Ids DEF RestOK
    <3>2. \A h \in gave : h.id = g.id => h.by = g.by /\ <<h.to, h.by>> \notin parted'
      BY <1>7, <2>1 DEF Clean
    <3>3. CASE g.by # q
      BY <1>4, <2>1, <3>1, <3>3
    <3>4. CASE g.by = q
      <4>1. g.id \notin held[q][p]
        <5> SUFFICES ASSUME g.id \in held[q][p] PROVE FALSE
          OBVIOUS
        <5>1. [to |-> p, by |-> q, id |-> g.id] \in gave
          BY DEF IInv, Traced
        <5>2. <<p, q>> \notin parted'
          BY <3>2, <5>1
        <5> QED
          BY <1>2, <5>2
      <4>2. g.id \notin brought[q][p]
        <5> SUFFICES ASSUME g.id \in brought[q][p] PROVE FALSE
          OBVIOUS
        <5>1. PICK h \in gave : h.to = p /\ h.id = g.id
          BY <2>1, Ids DEF IInv, Traced, Given, Clean
        <5>2. <<p, q>> \notin parted'
          BY <3>2, <3>4, <5>1
        <5> QED
          BY <1>2, <5>2
      <4> QED
        BY <1>4, <2>1, <3>1, <3>4, <4>1, <4>2
    <3> QED
      BY <3>3, <3>4
  <2> QED
    BY <1>2, <1>7, <2>1, AccountedKept DEF IInv
<1>10. OneGrant'
  BY <1>2, <1>7, OneGrantKept DEF IInv
<1>11. TypeOK'
  BY <1>3, <1>4, <1>5 DEF TypeOK, MapsOK, RestOK
<1> QED
  BY <1>5, <1>6, <1>8, <1>9, <1>10, <1>11 DEF IInv

LEMMA CrashKeeps ==
    ASSUME IInv, NEW p \in Peer, Crash(p)
    PROVE  IInv'
<1>1. LinksOK(Msg) /\ AllFramed /\ MapsOK /\ RestOK /\ conn \in [Peer -> SUBSET Peer]
  BY PartsOf
<1>2. Restart(p) /\ UNCHANGED <<asks, gave>>
  BY DEF Crash
<1>3. LinksOK(Msg)' /\ AllFramed'
  BY <1>1, <1>2, LinksRestart, MsgKinds
<1>4. /\ \A r \in Peer, t \in AnyId : known'[r][t] = IF r = p THEN None ELSE known[r][t]
      /\ \A r \in Peer : local'[r] = IF r = p THEN {} ELSE local[r]
      /\ \A r, u \in Peer : brought'[r][u] = IF r = p THEN {} ELSE brought[r][u]
      /\ \A r \in Peer : reserved'[r] = IF r = p THEN {} ELSE reserved[r]
      /\ \A r, u \in Peer : held'[r][u] = IF r = p THEN {} ELSE held[r][u]
      /\ \A r \in Peer : conn'[r] = IF r = p THEN {} ELSE conn[r]
  BY <1>1 DEF Crash, Restart, MapsOK
<1>5. MapsOK'
  BY <1>1 DEF Crash, MapsOK
<1>6. parted' = parted \cup (Peer \X {p})
  BY DEF Crash
<1>7. /\ cuts' \in [Peer -> [Peer -> 0 .. MaxBreaks]]
      /\ CutsCounted'
  <2>1. breaks < MaxBreaks /\ breaks' = breaks + 1 /\ breaks \in Nat /\ MaxBreaks \in Nat
    BY <1>1, <1>2, BreaksAssumption DEF Restart, LinksOK
  <2>2. cuts' = [q \in Peer |-> [r \in Peer |-> IF p \in {q, r} THEN cuts[q][r] + 1 ELSE cuts[q][r]]]
    BY DEF Crash
  <2>3. \A q, r \in Peer : cuts[q][r] <= breaks /\ cuts[q][r] \in Nat
    BY <1>1 DEF RestOK, CutsCounted, IInv
  <2>4. \A q, r \in Peer : cuts'[q][r] = IF p \in {q, r} THEN cuts[q][r] + 1 ELSE cuts[q][r]
    BY <2>2
  <2>5. \A q, r \in Peer : cuts'[q][r] \in 0 .. MaxBreaks /\ cuts'[q][r] <= breaks'
    BY <2>1, <2>3, <2>4
  <2>6. cuts' \in [Peer -> [Peer -> 0 .. MaxBreaks]]
    BY <2>2, <2>4, <2>5
  <2> QED
    BY <2>5, <2>6 DEF CutsCounted
<1>8. RestOK'
  <2>1. stored' \subseteq Peer /\ lead' \in [Peer -> Peer] /\ insts' \in [Peer -> SUBSET AnyId]
    BY <1>1 DEF Crash, RestOK
  <2>2. replies' \subseteq replies
    BY DEF Crash
  <2>3. peers' \in [Peer -> SUBSET Peer]
    <3>1. PICK told \in SUBSET {q \in Peer : link[q][p] = "up"} :
            peers' = [q \in Peer |-> IF q = p THEN {} ELSE IF q \in told THEN peers[q] \ {p} ELSE peers[q]]
      BY DEF Crash
    <3> QED
      BY <1>1, <3>1 DEF RestOK
  <2> QED
    BY <1>1, <1>2, <1>6, <1>7, <2>1, <2>2, <2>3 DEF RestOK
<1>9. NoLeak'
  <2>1. ASSUME NEW r \in Peer, NEW t \in AnyId, t \in reserved'[r]
        PROVE  /\ t \in reserved[r]
               /\ \A u \in conn[r] : t \in held[r][u] => u \in conn'[r] /\ t \in held'[r][u]
    <3>1. r # p
      BY <1>4, <2>1
    <3> QED
      BY <1>1, <1>4, <2>1, <3>1
  <2> QED
    BY <1>1, <1>5, <2>1, NoLeakKept DEF IInv
<1>10. Traced'
  <2>1. replies' \subseteq replies
    BY DEF Crash
  <2>2. ASSUME NEW r \in Peer, NEW u \in Peer, NEW t \in AnyId, t \in Spoken(chan'[r][u])
        PROVE  t \in Spoken(chan[r][u])
    <3>1. chan'[r][u] = IF r = p /\ link[r][u] = "up" THEN Append(chan[r][u], Eof)
                        ELSE IF u = p THEN <<>> ELSE chan[r][u]
      BY <1>2 DEF Restart
    <3>2. chan[r][u] \in Seq(Msg) /\ Eof \in Msg
      BY <1>1, MsgKinds DEF LinksOK, Kinds
    <3>3. CASE r = p /\ link[r][u] = "up"
      <4>1. t \in Spoken(Append(chan[r][u], Eof))
        BY <2>2, <3>1, <3>3
      <4>2. Eof # [op |-> "instance", id |-> t]
        BY DEF Eof
      <4> QED
        BY <3>2, <4>1, <4>2, SpokenAppend
    <3>4. CASE ~(r = p /\ link[r][u] = "up") /\ u = p
      BY <2>2, <3>1, <3>4 DEF Spoken
    <3>5. CASE ~(r = p /\ link[r][u] = "up") /\ u # p
      BY <2>2, <3>1, <3>5
    <3> QED
      BY <3>3, <3>4, <3>5
  <2> QED
    BY <1>2, <1>4, <1>5, <2>1, <2>2, TracedKept DEF IInv
<1>11. Accounted'
  <2>1. ASSUME NEW g \in gave, Clean(g.id)', g.id \in reserved[g.by] \/ known[g.by][g.id] # None
        PROVE  g.id \in reserved'[g.by] \/ known'[g.by][g.id] # None
    <3>1. g.by \in Peer /\ g.id \in AnyId /\ g.to \in Peer
      BY <1>1, Ids DEF RestOK
    <3>2. <<g.to, g.by>> \notin parted'
      BY <1>2, <2>1 DEF Clean
    <3>3. g.by # p
      BY <1>6, <3>1, <3>2
    <3> QED
      BY <1>4, <2>1, <3>1, <3>3
  <2> QED
    BY <1>2, <1>6, <2>1, AccountedKept DEF IInv
<1>12. OneGrant'
  BY <1>2, <1>6, OneGrantKept DEF IInv
<1>13. TypeOK'
  BY <1>3, <1>5, <1>8 DEF TypeOK, MapsOK, RestOK
<1> QED
  BY <1>7, <1>9, <1>10, <1>11, <1>12, <1>13 DEF IInv

LEMMA AskLeadKeeps ==
    ASSUME IInv, NEW p \in Peer, AskLead(p)
    PROVE  IInv'
<1>1. LinksOK(Msg) /\ AllFramed /\ MapsOK /\ RestOK /\ conn \in [Peer -> SUBSET Peer]
  BY PartsOf
<1>2. PICK l \in Peer : l = lead[p]
  BY <1>1 DEF RestOK
<1>3. PICK w \in Route : w = {<<p, l, cuts[p][l]>>}
  <2>1. cuts[p][l] \in 0 .. MaxBreaks
    BY <1>1 DEF RestOK
  <2>2. {<<p, l, cuts[p][l]>>} \in Route
    BY <2>1 DEF Route
  <2> QED
    BY <2>2
<1>4. PICK m \in Msg : m = [op |-> "ask", for |-> p, route |-> w]
  BY MsgKinds
<1>5. Plain(m) /\ \A i \in AnyId : m # [op |-> "instance", id |-> i]
  BY <1>4, MsgKinds
<1>6. /\ link[p][l] = "up"
      /\ chan' = [chan EXCEPT ![p][l] = Append(@, m)]
      /\ UNCHANGED <<link, conn, breaks>>
      /\ UNCHANGED <<cuts, stored, lead, peers, maps, replies, record, parted>>
      /\ asks' = asks + 1 /\ asks < MaxAsks
  BY <1>2, <1>3, <1>4 DEF AskLead, Sent
<1>7. LinksOK(Msg)' /\ AllFramed'
  BY <1>1, <1>5, <1>6, LinksToOne, MsgKinds
<1>8. RestOK' /\ CutsCounted'
  <2>1. asks' \in 0 .. MaxAsks
    BY <1>1, <1>6, IdsAssumption DEF RestOK
  <2>2. RestOK'
    BY <1>1, <1>6, <2>1 DEF RestOK, record
  <2> QED
    BY <1>6, <2>2 DEF CutsCounted, IInv
<1>9. ASSUME NEW r \in Peer, NEW u \in Peer, NEW i \in AnyId, i \in Spoken(chan'[r][u])
      PROVE  i \in Spoken(chan[r][u])
  <2>1. chan[p][l] \in Seq(Msg)
    BY <1>1 DEF LinksOK
  <2>2. CASE r = p /\ u = l
    <3>1. chan'[r][u] = Append(chan[p][l], m)
      BY <1>1, <1>6, <2>2 DEF LinksOK
    <3> QED
      BY <1>5, <1>9, <2>1, <2>2, <3>1, SpokenAppend
  <2>3. CASE ~(r = p /\ u = l)
    <3>1. chan'[r][u] = chan[r][u]
      BY <1>1, <1>6, <2>3 DEF LinksOK
    <3> QED
      BY <1>9, <3>1
  <2> QED
    BY <2>2, <2>3
<1> QED
  BY <1>6, <1>7, <1>8, <1>9, QuietKeeps DEF record

LEMMA PassOnKeeps ==
    ASSUME IInv, NEW p \in Peer, NEW q \in Peer, PassOn(p, q)
    PROVE  IInv'
<1>1. LinksOK(Msg) /\ AllFramed /\ MapsOK /\ RestOK /\ conn \in [Peer -> SUBSET Peer]
  BY PartsOf
<1>2. /\ Reading(p, q, "ask") /\ lead[q] # q
      /\ UNCHANGED <<link, conn, breaks>>
      /\ UNCHANGED <<cuts, stored, lead, peers, maps, replies, asks, record, parted>>
  BY DEF PassOn
<1>3. PICK l \in Peer : l = lead[q]
  BY <1>1 DEF RestOK
<1>4. PICK h \in Msg : h = Head(chan[p][q]) /\ h.op = "ask"
  BY <1>1, <1>2 DEF Reading, LinksOK
<1>5. h.for \in Peer /\ h.route \in Route
  BY <1>4, MsgKinds
<1>6. PICK m : m = [h EXCEPT !.route = @ \cup {<<q, l, cuts[q][l]>>}]
  OBVIOUS
<1>7. m \in Msg /\ m.op = "ask"
  <2>1. h \in [op : {"ask"}, for : Peer, route : Route]
    BY <1>4 DEF Msg
  <2>2. cuts[q][l] \in 0 .. MaxBreaks
    BY <1>1 DEF RestOK
  <2>3. h.route \cup {<<q, l, cuts[q][l]>>} \in Route
    BY <1>5, <2>2 DEF Route
  <2>4. m \in [op : {"ask"}, for : Peer, route : Route]
    BY <1>6, <2>1, <2>3
  <2> QED
    BY <2>4 DEF Msg
<1>8. Plain(m) /\ \A i \in AnyId : m # [op |-> "instance", id |-> i]
  BY <1>7, MsgKinds
<1>9. RestOK' /\ CutsCounted'
  BY <1>1, <1>2 DEF RestOK, CutsCounted, record, IInv
<1>10. chan' = Sent([chan EXCEPT ![p][q] = Tail(@)], q, l, m)
  BY <1>3, <1>4, <1>6 DEF PassOn
<1>11. CASE link[q][l] = "up"
  <2>1. chan' = [[chan EXCEPT ![p][q] = Tail(@)] EXCEPT ![q][l] = Append(@, m)]
    BY <1>10, <1>11 DEF Sent
  <2>2. LinksOK(Msg)' /\ AllFramed'
    BY <1>1, <1>2, <1>3, <1>7, <1>8, <1>11, <2>1, LinksForward, MsgKinds
  <2>3. ASSUME NEW r \in Peer, NEW u \in Peer, NEW i \in AnyId, i \in Spoken(chan'[r][u])
        PROVE  i \in Spoken(chan[r][u])
    <3>1. PICK e : e = [chan EXCEPT ![p][q] = Tail(@)]
      OBVIOUS
    <3>2. /\ e \in [Peer -> [Peer -> Seq(Msg)]]
          /\ e[p][q] = Tail(chan[p][q])
          /\ \A s, t \in Peer : <<s, t>> # <<p, q>> => e[s][t] = chan[s][t]
      <4>1. chan \in [Peer -> [Peer -> Seq(Msg)]] /\ chan[p][q] # <<>>
        BY <1>1, <1>2 DEF LinksOK, Reading
      <4>2. Tail(chan[p][q]) \in Seq(Msg)
        BY <4>1
      <4> QED
        BY <3>1, <4>1, <4>2
    <3>3. \A s, t \in Peer, j \in AnyId : j \in Spoken(e[s][t]) => j \in Spoken(chan[s][t])
      <4> SUFFICES ASSUME NEW s \in Peer, NEW t \in Peer, NEW j \in AnyId, j \in Spoken(e[s][t])
                   PROVE  j \in Spoken(chan[s][t])
        OBVIOUS
      <4>1. CASE <<s, t>> = <<p, q>>
        <5>1. chan[p][q] \in Seq(Msg) /\ chan[p][q] # <<>>
          BY <1>1, <1>2 DEF LinksOK, Reading
        <5> QED
          BY <3>2, <4>1, <5>1, SpokenTail
      <4>2. CASE <<s, t>> # <<p, q>>
        <5>1. e[s][t] = chan[s][t]
          BY <3>2, <4>2
        <5> QED
          BY <5>1
      <4> QED
        BY <4>1, <4>2
    <3>4. chan' = [e EXCEPT ![q][l] = Append(@, m)]
      BY <2>1, <3>1
    <3>5. CASE r = q /\ u = l
      <4>1. chan'[r][u] = Append(e[q][l], m) /\ e[q][l] \in Seq(Msg)
        BY <3>2, <3>4, <3>5
      <4>2. i \in Spoken(e[r][u])
        BY <1>7, <1>8, <2>3, <3>5, <4>1, SpokenAppend
      <4> QED
        BY <3>3, <4>2
    <3>6. CASE ~(r = q /\ u = l)
      <4>1. chan'[r][u] = e[r][u]
        BY <3>2, <3>4, <3>6
      <4> QED
        BY <2>3, <3>3, <4>1
    <3> QED
      BY <3>5, <3>6
  <2> QED
    BY <1>2, <1>9, <2>2, <2>3, QuietKeeps DEF record
<1>12. CASE link[q][l] # "up"
  <2>1. Taken(p, q) /\ chan[p][q] # <<>>
    BY <1>2, <1>10, <1>12 DEF Sent, Taken, Reading
  <2>2. LinksOK(Msg)' /\ AllFramed'
    BY <1>1, <1>2, <2>1, LinksPlain, MsgKinds
  <2>3. \A r, u \in Peer, i \in AnyId : i \in Spoken(chan'[r][u]) => i \in Spoken(chan[r][u])
    BY <1>1, <2>1, SpokenTaken
  <2> QED
    BY <1>2, <1>9, <2>2, <2>3, QuietKeeps DEF record
<1> QED
  BY <1>11, <1>12

LEMMA PassOnToNobodyKeeps ==
    ASSUME IInv, NEW p \in Peer, NEW q \in Peer, PassOnToNobody(p, q)
    PROVE  IInv'
<1>1. LinksOK(Msg) /\ AllFramed /\ MapsOK /\ RestOK /\ conn \in [Peer -> SUBSET Peer]
  BY PartsOf
<1>2. /\ Reading(p, q, "ask") /\ Taken(p, q) /\ UNCHANGED <<link, conn, breaks>>
      /\ UNCHANGED <<cuts, stored, lead, peers, maps, asks, record, parted>>
  BY DEF PassOnToNobody
<1>3. PICK m \in Msg : m = Head(chan[p][q]) /\ m.op = "ask"
  BY <1>1, <1>2 DEF Reading, LinksOK
<1>4. m.for \in Peer /\ m.route \in Route
  BY <1>3, MsgKinds
<1>5. PICK d : d = [to |-> m.for, by |-> q, id |-> 0, route |-> m.route]
  OBVIOUS
<1>6. replies' \subseteq replies \cup {d}
  BY <1>3, <1>5 DEF PassOnToNobody
<1>7. d \in [to : Peer, by : Peer, id : AnyId, route : Route] /\ d.id \notin Id
  BY <1>4, <1>5, Ids
<1>8. LinksOK(Msg)' /\ AllFramed'
  BY <1>1, <1>2, LinksPlain, MsgKinds
<1>9. RestOK' /\ CutsCounted'
  <2>1. replies' \subseteq [to : Peer, by : Peer, id : AnyId, route : Route]
    BY <1>1, <1>6, <1>7 DEF RestOK
  <2> QED
    BY <1>1, <1>2, <2>1 DEF RestOK, CutsCounted, record, IInv
<1>10. \A r, u \in Peer, i \in AnyId : i \in Spoken(chan'[r][u]) => i \in Spoken(chan[r][u])
  BY <1>1, <1>2, SpokenTaken DEF Reading
<1> QED
  BY <1>2, <1>6, <1>7, <1>8, <1>9, <1>10, QuietKeeps DEF record

LEMMA ListingPlain ==
    ASSUME IInv, NEW p \in Peer, NEW news \in Listing(p)
    PROVE  /\ news \in Seq(Msg)
           /\ \A n \in DOMAIN news : Plain(news[n]) /\ news[n].op = "instance" /\ news[n].id \in local[p]
<1>1. local[p] \subseteq AnyId
  BY PartsOf DEF MapsOK
<1>2. IsFiniteSet(AnyId)
  BY IdsAssumption, FS_Interval DEF AnyId
<1>3. Cardinality(local[p]) \in Nat
  BY <1>1, <1>2, FS_Subset, FS_CardinalityType
<1>4. news \in [1 .. Cardinality(local[p]) -> [op : {"instance"}, id : local[p]]]
  BY DEF Listing
<1>5. ASSUME NEW n \in 1 .. Cardinality(local[p])
      PROVE  news[n] \in Msg /\ Plain(news[n]) /\ news[n].op = "instance" /\ news[n].id \in local[p]
  <2>1. news[n] \in [op : {"instance"}, id : local[p]]
    BY <1>4
  <2>2. news[n] \in Msg /\ news[n].op = "instance" /\ news[n].id \in local[p]
    BY <1>1, <2>1 DEF Msg
  <2> QED
    BY <2>2, MsgKinds
<1>6. DOMAIN news = 1 .. Cardinality(local[p]) /\ news \in [1 .. Cardinality(local[p]) -> Msg]
  BY <1>4, <1>5
<1> QED
  BY <1>3, <1>5, <1>6, SeqDef

LEMMA ConnectKeeps ==
    ASSUME IInv, NEW p \in Peer, NEW q \in Peer, Connect(p, q)
    PROVE  IInv'
<1>1. LinksOK(Msg) /\ AllFramed /\ MapsOK /\ RestOK /\ conn \in [Peer -> SUBSET Peer]
  BY PartsOf
<1>2. PICK news \in Listing(p) : GetThrough(p, q, news)
  BY DEF Connect
<1>3. UNCHANGED <<cuts, stored, lead, peers, maps, replies, asks, record, parted>>
  BY DEF Connect
<1>4. /\ news \in Seq(Msg)
      /\ \A n \in DOMAIN news : Plain(news[n]) /\ news[n].op = "instance" /\ news[n].id \in local[p]
  BY <1>2, ListingPlain
<1>5. LinksOK(Msg)' /\ AllFramed'
  BY <1>1, <1>2, <1>4, LinksThrough, MsgKinds
<1>6. RestOK' /\ CutsCounted'
  BY <1>1, <1>2, <1>3 DEF RestOK, CutsCounted, record, IInv, GetThrough
<1>7. ASSUME NEW r \in Peer, NEW u \in Peer, NEW i \in AnyId, i \in Spoken(chan'[r][u])
      PROVE  i \in Spoken(chan[r][u]) \/ Given(r, i)'
  <2>1. chan' = [chan EXCEPT ![p][q] = <<Hello>> \o news]
    BY <1>2 DEF GetThrough
  <2>2. CASE r = p /\ u = q
    <3>1. chan'[r][u] = <<Hello>> \o news
      BY <1>1, <2>1, <2>2 DEF LinksOK
    <3>2. PICK n \in DOMAIN news : news[n] = [op |-> "instance", id |-> i]
      BY <1>4, <1>7, <3>1, SpokenNews
    <3>3. i \in local[p]
      BY <1>4, <3>2
    <3>4. Given(p, i)
      BY <3>3 DEF IInv, Traced
    <3> QED
      BY <1>3, <2>2, <3>4 DEF Given, record
  <2>3. CASE ~(r = p /\ u = q)
    <3>1. chan'[r][u] = chan[r][u]
      BY <1>1, <2>1, <2>3 DEF LinksOK
    <3> QED
      BY <1>7, <3>1
  <2> QED
    BY <2>2, <2>3
<1>8. \A r \in Peer : conn[r] \subseteq conn'[r]
  BY <1>2 DEF GetThrough
<1> QED
  BY <1>3, <1>5, <1>6, <1>7, <1>8, QuietKeeps DEF record

LEMMA CutKeeps ==
    ASSUME IInv, NEW p \in Peer, NEW q \in Peer, Cut(p, q)
    PROVE  IInv'
<1>1. LinksOK(Msg) /\ AllFramed /\ MapsOK /\ RestOK /\ conn \in [Peer -> SUBSET Peer]
  BY PartsOf
<1>2. /\ Break(p, q)
      /\ cuts' = [cuts EXCEPT ![p][q] = @ + 1]
      /\ replies' \subseteq replies
      /\ UNCHANGED <<stored, lead, peers, maps, asks, record, parted>>
  BY DEF Cut
<1>3. LinksOK(Msg)' /\ AllFramed'
  BY <1>1, <1>2, LinksBreak, MsgKinds
<1>4. cuts' \in [Peer -> [Peer -> 0 .. MaxBreaks]] /\ CutsCounted'
  <2>1. breaks < MaxBreaks /\ breaks' = breaks + 1 /\ breaks \in Nat /\ MaxBreaks \in Nat
    BY <1>1, <1>2, BreaksAssumption DEF Break, LinksOK
  <2>2. \A r, t \in Peer : cuts[r][t] <= breaks /\ cuts[r][t] \in Nat
    BY <1>1 DEF RestOK, CutsCounted, IInv
  <2>3. \A r, t \in Peer : cuts'[r][t] = IF r = p /\ t = q THEN cuts[r][t] + 1 ELSE cuts[r][t]
    BY <1>1, <1>2 DEF RestOK
  <2>4. \A r, t \in Peer : cuts'[r][t] \in 0 .. MaxBreaks /\ cuts'[r][t] <= breaks'
    BY <2>1, <2>2, <2>3
  <2>5. [cuts[p] EXCEPT ![q] = @ + 1] \in [Peer -> 0 .. MaxBreaks]
    BY <1>1, <2>1, <2>2 DEF RestOK
  <2>6. cuts' \in [Peer -> [Peer -> 0 .. MaxBreaks]]
    BY <1>1, <1>2, <2>5 DEF RestOK
  <2> QED
    BY <2>4, <2>6 DEF CutsCounted
<1>5. RestOK'
  BY <1>1, <1>2, <1>4 DEF RestOK, record
<1>6. ASSUME NEW r \in Peer, NEW u \in Peer, NEW i \in AnyId, i \in Spoken(chan'[r][u])
      PROVE  i \in Spoken(chan[r][u])
  <2>1. PICK n \in 0 .. Len(chan[p][q]) : chan' = [chan EXCEPT ![p][q] = Append(SubSeq(@, 1, n), Eof)]
    BY <1>2 DEF Break
  <2>2. chan[p][q] \in Seq(Msg) /\ Eof \in Msg /\ SubSeq(chan[p][q], 1, n) \in Seq(Msg)
    BY <1>1, MsgKinds DEF LinksOK, Kinds
  <2>3. CASE r = p /\ u = q
    <3>1. chan'[r][u] = Append(SubSeq(chan[p][q], 1, n), Eof)
      BY <1>1, <2>1, <2>3 DEF LinksOK
    <3>2. Eof # [op |-> "instance", id |-> i]
      BY DEF Eof
    <3>3. i \in Spoken(SubSeq(chan[p][q], 1, n))
      BY <1>6, <2>2, <3>1, <3>2, SpokenAppend
    <3> QED
      BY <2>2, <2>3, <3>3, SpokenCut
  <2>4. CASE ~(r = p /\ u = q)
    <3>1. chan'[r][u] = chan[r][u]
      BY <1>1, <2>1, <2>4 DEF LinksOK
    <3> QED
      BY <1>6, <3>1
  <2> QED
    BY <2>3, <2>4
<1>7. \A r \in Peer : conn[r] \subseteq conn'[r]
  BY <1>2 DEF Break
<1> QED
  BY <1>2, <1>3, <1>4, <1>5, <1>6, <1>7, QuietKeeps DEF record

LEMMA InitHolds == Init => IInv
<1> SUFFICES ASSUME Init PROVE IInv
  OBVIOUS
<1> USE DEF Init, LinksInit
<1>1. LinksOK(Msg)
  BY BreaksAssumption DEF LinksOK
<1>2. AllFramed
  BY DEF AllFramed, Framed, FramedAs
<1>3. MapsOK
  BY DEF MapsOK
<1>4. RestOK
  BY BreaksAssumption, IdsAssumption DEF RestOK
<1>5. CutsCounted /\ NoLeak
  BY DEF CutsCounted, NoLeak
<1>6. Traced
  <2>1. Spoken(<<>>) = {}
    BY DEF Spoken
  <2> QED
    BY <2>1 DEF Traced
<1>7. Accounted /\ OneGrant
  BY DEF Accounted, OneGrant
<1> QED
  BY <1>1, <1>2, <1>3, <1>4, <1>5, <1>6, <1>7, TypeParts DEF IInv

LEMMA StepHolds == IInv /\ [Next]_vars => IInv'
<1> SUFFICES ASSUME IInv, [Next]_vars PROVE IInv'
  OBVIOUS
<1>1. LinksOK(Msg) /\ AllFramed /\ MapsOK /\ RestOK /\ conn \in [Peer -> SUBSET Peer]
  BY PartsOf
<1>2. ASSUME NEW p \in Peer, Boot(p) PROVE IInv'
  <2>1. LinksOK(Msg)' /\ AllFramed'
    BY <1>1, <1>2, LinksUntouched, MsgKinds DEF Boot
  <2>2. RestOK' /\ CutsCounted'
    BY <1>1, <1>2 DEF Boot, RestOK, CutsCounted, record, links, IInv
  <2> QED
    BY <1>2, <2>1, <2>2, QuietKeeps DEF Boot, record, links
<1>3. ASSUME NEW p \in Peer, UpdatePeers(p) PROVE IInv'
  <2>1. LinksOK(Msg)' /\ AllFramed'
    BY <1>1, <1>3, LinksUntouched, MsgKinds DEF UpdatePeers
  <2>2. lead' \in [Peer -> Peer]
    <3>1. PICK l \in stored : lead' = [lead EXCEPT ![p] = l]
      BY <1>3 DEF UpdatePeers
    <3> QED
      BY <1>1, <3>1 DEF RestOK
  <2>3. RestOK' /\ CutsCounted'
    BY <1>1, <1>3, <2>2 DEF UpdatePeers, RestOK, CutsCounted, record, links, IInv
  <2> QED
    BY <1>3, <2>1, <2>3, QuietKeeps DEF UpdatePeers, record, links
<1>4. ASSUME NEW p \in Peer, NEW q \in Peer, ReadHello(p, q) PROVE IInv'
  <2>1. ReadHeader(p, q) /\ UNCHANGED <<cuts, stored, lead, peers, maps, replies, asks, record, parted>>
    BY <1>4 DEF ReadHello
  <2>2. LinksOK(Msg)' /\ AllFramed'
    BY <1>1, <2>1, LinksHello, MsgKinds
  <2>3. RestOK' /\ CutsCounted'
    BY <1>1, <2>1 DEF RestOK, CutsCounted, record, ReadHeader, IInv
  <2>4. \A r \in Peer : conn[r] \subseteq conn'[r]
    BY <1>1, <2>1 DEF ReadHeader
  <2>5. Taken(p, q) /\ chan[p][q] # <<>>
    BY <2>1 DEF ReadHeader, Reading
  <2>6. \A r, u \in Peer, i \in AnyId : i \in Spoken(chan'[r][u]) => i \in Spoken(chan[r][u])
    BY <1>1, <2>5, SpokenTaken
  <2> QED
    BY <2>1, <2>2, <2>3, <2>4, <2>6, QuietKeeps DEF record
<1>5. ASSUME UNCHANGED vars PROVE IInv'
  <2>1. LinksOK(Msg)' /\ AllFramed'
    BY <1>1, <1>5, LinksUntouched, MsgKinds DEF vars
  <2>2. RestOK' /\ CutsCounted'
    BY <1>1, <1>5 DEF vars, RestOK, CutsCounted, record, links, IInv
  <2> QED
    BY <1>5, <2>1, <2>2, QuietKeeps DEF vars, record, links
<1>6. ASSUME NEW p \in Peer, AskSelf(p) \/ AskLead(p) \/ AskNobody(p) \/ Crash(p) PROVE IInv'
  BY <1>6, AskSelfKeeps, AskLeadKeeps, AskNobodyKeeps, CrashKeeps
<1>7. ASSUME NEW p \in Peer, NEW q \in Peer, Connect(p, q) \/ Cut(p, q) \/ Forget(p, q) PROVE IInv'
  BY <1>7, ConnectKeeps, CutKeeps, ForgetKeeps
<1>8. ASSUME NEW p \in Peer, NEW q \in Peer,
             Give(p, q) \/ PassOn(p, q) \/ PassOnToNobody(p, q) \/ ReadInstance(p, q)
      PROVE  IInv'
  BY <1>8, GiveKeeps, PassOnKeeps, PassOnToNobodyKeeps, ReadInstanceKeeps
<1>9. ASSUME NEW r \in replies, ReadReply(r) PROVE IInv'
  BY <1>9, ReadReplyKeeps
<1> QED
  BY <1>2, <1>3, <1>4, <1>5, <1>6, <1>7, <1>8, <1>9 DEF Next

(* The invariant holds in every reachable state.                           *)
THEOREM Invariance == Spec => []IInv
<1> QED
  BY InitHolds, StepHolds, PTL DEF Spec

(* Type correctness; no message is ever read but over a connection that    *)
(* has been named by its header.                                           *)
THEOREM TypeCorrect == Spec => []TypeOK
<1>1. IInv => TypeOK
  BY DEF IInv
<1> QED
  BY <1>1, Invariance, PTL

(* No id stays reserved for a peer whose connection is gone                *)
(* (PeerConnection::~PeerConnection frees what it held).                   *)
THEOREM NoLeakHolds == Spec => []NoLeak
<1>1. IInv => NoLeak
  BY DEF IInv
<1> QED
  BY <1>1, Invariance, PTL

(* PeerManager::reserveInstanceId gives an id out once, as long as one     *)
(* peer alone gives it out and stays connected to whom it gave it.         *)
THEOREM OneGrantHolds == Spec => []OneGrant
<1>1. IInv => OneGrant
  BY DEF IInv
<1> QED
  BY <1>1, Invariance, PTL

-----------------------------------------------------------------------------
(* Everyone learns of every instance.                                      *)

\* What the announcements in a channel are, when one is read or written.
LEMMA SpokenGrows ==
    ASSUME NEW S, NEW c \in Seq(S), NEW m, NEW i \in AnyId,
           i \in Spoken(c) \/ m = [op |-> "instance", id |-> i]
    PROVE  i \in Spoken(Append(c, m))
<1>1. CASE i \in Spoken(c)
  <2>1. PICK n \in DOMAIN c : c[n] = [op |-> "instance", id |-> i]
    BY <1>1 DEF Spoken
  <2>2. n \in DOMAIN Append(c, m) /\ Append(c, m)[n] = c[n]
    BY <2>1, AppendParts
  <2> QED
    BY <2>1, <2>2 DEF Spoken
<1>2. CASE m = [op |-> "instance", id |-> i]
  <2>1. Len(c) + 1 \in DOMAIN Append(c, m) /\ Append(c, m)[Len(c) + 1] = m
    BY AppendParts
  <2> QED
    BY <1>2, <2>1 DEF Spoken
<1> QED
  BY <1>1, <1>2

LEMMA SpokenRest ==
    ASSUME NEW S, NEW c \in Seq(S), c # <<>>, NEW i \in Spoken(c),
           Head(c) # [op |-> "instance", id |-> i]
    PROVE  i \in Spoken(Tail(c))
<1>1. PICK n \in DOMAIN c : c[n] = [op |-> "instance", id |-> i]
  BY DEF Spoken
<1>2. n # 1
  BY <1>1, TailParts
<1>3. n - 1 \in DOMAIN Tail(c) /\ Tail(c)[n - 1] = c[n]
  BY <1>2, TailParts
<1>4. i \in AnyId
  BY DEF Spoken
<1> QED
  BY <1>1, <1>3, <1>4 DEF Spoken

LEMMA SpokenListed ==
    ASSUME NEW S, NEW news \in Seq(S), NEW n \in DOMAIN news, NEW i \in AnyId,
           news[n] = [op |-> "instance", id |-> i]
    PROVE  i \in Spoken(<<Hello>> \o news)
<1>1. n + 1 \in DOMAIN (<<Hello>> \o news) /\ (<<Hello>> \o news)[n + 1] = news[n]
  OBVIOUS
<1> QED
  BY <1>1 DEF Spoken

\* Over an open connection no close is on the way.
LEMMA OpenUnclosed ==
    ASSUME LinksOK(Msg), AllFramed, NEW p \in Peer, NEW q \in Peer, link[p][q] = "up"
    PROVE  ~Closing(chan[p][q]) /\ p # q
<1>1. FramedAs(chan[p][q], TRUE, p \in conn[q]) /\ p # q
  BY DEF AllFramed, Framed
<1>2. chan[p][q] \in Seq(Msg)
  BY DEF LinksOK
<1> SUFFICES ASSUME Closing(chan[p][q]) PROVE FALSE
  BY <1>1
<1>3. Len(chan[p][q]) \in DOMAIN chan[p][q] /\ chan[p][q][Len(chan[p][q])] = Eof
  BY <1>2, TailParts DEF Closing
<1> QED
  BY <1>1, <1>3 DEF FramedAs

\* Of a connection that is over, the close is on the way.
Broken(p, q) ==
    link[p][q] = "dialing" /\ (p \in conn[q] \/ chan[p][q] # <<>>) => Closing(chan[p][q])

\* q's entry for p's instance i, and what is on the way of it: whoever is said to
\* have i has it, or the connection that said so is about to end, with what it
\* brought; and of an instance that is there, the entry or the announcement is.
Placed(p, q, i) ==
    /\ known[q][i] = p \/ i \in Spoken(chan[p][q]) => i \in insts[p] \/ Closing(chan[p][q])
    /\ known[q][i] = p /\ p # q => i \in brought[q][p]
    /\ i \in brought[q][p] => p \in conn[q]
    /\ i \in local[p] => i \in insts[p]
    /\ i \in insts[p] => Given(p, i)
    /\ i \in insts[p] /\ Clean(i) => known[p][i] = p /\ i \in local[p]
    /\ i \in insts[p] /\ Clean(i) /\ link[p][q] = "up" => i \in Spoken(chan[p][q]) \/ known[q][i] = p

Knowing == \A p, q \in Peer : Broken(p, q) /\ \A i \in AnyId : Placed(p, q, i)

\* Of a clean id, one peer has the instance and nobody else is said to have it.
LEMMA SoleHolder ==
    ASSUME OneGrant, NEW i \in AnyId, Clean(i), NEW p \in Peer, NEW q \in Peer, Given(p, i), Given(q, i)
    PROVE  p = q
<1>0. i \in Id /\ i # 0
  BY Ids DEF Clean
<1>1. PICK g \in gave : g.to = p /\ g.id = i
  BY <1>0 DEF Given
<1>2. PICK h \in gave : h.to = q /\ h.id = i
  BY <1>0 DEF Given
<1>3. g = h
  BY <1>0, <1>1, <1>2 DEF OneGrant
<1> QED
  BY <1>1, <1>2, <1>3

LEMMA GivenStill ==
    ASSUME gave \subseteq gave', NEW p, NEW i, Given(p, i)
    PROVE  Given(p, i)'
  BY DEF Given

\* What a channel says of instances stays the same.
Passing(p, q) ==
    /\ Closing(chan[p][q]) => Closing(chan'[p][q])
    /\ \A i \in AnyId : i \in Spoken(chan'[p][q]) <=> i \in Spoken(chan[p][q])
    /\ Broken(p, q) => Broken(p, q)'

LEMMA KnowingQuietly ==
    ASSUME Knowing, \A p, q \in Peer : Passing(p, q),
           UNCHANGED <<link, known, brought, local, insts>>,
           \A p \in Peer : conn[p] \subseteq conn'[p],
           gave \subseteq gave', parted \subseteq parted'
    PROVE  Knowing'
<1> SUFFICES ASSUME NEW p \in Peer, NEW q \in Peer
             PROVE  Broken(p, q)' /\ \A i \in AnyId : Placed(p, q, i)'
  BY DEF Knowing
<1>1. Passing(p, q) /\ Broken(p, q)
  BY DEF Knowing
<1>2. Broken(p, q)'
  BY <1>1 DEF Passing
<1>3. ASSUME NEW i \in AnyId PROVE Placed(p, q, i)'
  <2>1. Placed(p, q, i)
    BY DEF Knowing
  <2>2. Given(p, i) => Given(p, i)'
    BY GivenStill
  <2>3. Clean(i)' => Clean(i)
    BY CleanBefore
  <2>4. /\ Closing(chan[p][q]) => Closing(chan'[p][q])
        /\ i \in Spoken(chan'[p][q]) <=> i \in Spoken(chan[p][q])
    BY <1>1 DEF Passing
  <2>5. p \in conn[q] => p \in conn'[q]
    OBVIOUS
  <2> HIDE DEF Closing
  <2> QED
    BY <2>1, <2>2, <2>3, <2>4, <2>5 DEF Placed
<1> QED
  BY <1>2, <1>3

\* A message that is not about instances is read or written.
LEMMA PassingBy ==
    ASSUME LinksOK(Msg), AllFramed, NEW p \in Peer, NEW q \in Peer, link'[p][q] = link[p][q],
           \/ chan'[p][q] = chan[p][q] /\ (p \in conn'[q] => p \in conn[q])
           \/ /\ chan[p][q] # <<>> /\ Head(chan[p][q]).op \in {"hello", "ask"}
              /\ chan'[p][q] = Tail(chan[p][q])
           \/ /\ link[p][q] = "up"
              /\ \E m \in Msg : m.op = "ask" /\ chan'[p][q] = Append(chan[p][q], m)
    PROVE  Passing(p, q)
<1>1. chan[p][q] \in Seq(Msg)
  BY DEF LinksOK
<1>2. CASE chan'[p][q] = chan[p][q] /\ (p \in conn'[q] => p \in conn[q])
  BY <1>2 DEF Passing, Broken, Closing
<1>3. CASE /\ chan[p][q] # <<>> /\ Head(chan[p][q]).op \in {"hello", "ask"}
           /\ chan'[p][q] = Tail(chan[p][q])
  <2>1. Head(chan[p][q]) # Eof /\ \A i \in AnyId : Head(chan[p][q]) # [op |-> "instance", id |-> i]
    <3>1. Eof.op = "eof" /\ \A i \in AnyId : [op |-> "instance", id |-> i].op = "instance"
      BY DEF Eof
    <3> QED
      BY <1>3, <3>1
  <2>2. Closing(chan[p][q]) => Closing(chan'[p][q])
    BY <1>1, <1>3, <2>1, ClosingTail
  <2>3. ASSUME NEW i \in AnyId PROVE i \in Spoken(chan'[p][q]) <=> i \in Spoken(chan[p][q])
    BY <1>1, <1>3, <2>1, SpokenTail, SpokenRest
  <2>4. Broken(p, q) => Broken(p, q)'
    BY <1>3, <2>2 DEF Broken
  <2> QED
    BY <2>2, <2>3, <2>4 DEF Passing
<1>4. CASE /\ link[p][q] = "up"
           /\ \E m \in Msg : m.op = "ask" /\ chan'[p][q] = Append(chan[p][q], m)
  <2>1. PICK m \in Msg : m.op = "ask" /\ chan'[p][q] = Append(chan[p][q], m)
    BY <1>4
  <2>2. \A i \in AnyId : m # [op |-> "instance", id |-> i]
    <3>1. \A i \in AnyId : [op |-> "instance", id |-> i].op = "instance"
      OBVIOUS
    <3> QED
      BY <2>1, <3>1
  <2>3. ~Closing(chan[p][q])
    BY <1>4, OpenUnclosed
  <2>4. ASSUME NEW i \in AnyId PROVE i \in Spoken(chan'[p][q]) <=> i \in Spoken(chan[p][q])
    <3>1. i \in Spoken(Append(chan[p][q], m)) <=> i \in Spoken(chan[p][q])
      BY <1>1, <2>2, SpokenAppend, SpokenGrows
    <3> QED
      BY <2>1, <3>1
  <2>5. Broken(p, q)'
    BY <1>4 DEF Broken
  <2> QED
    BY <2>3, <2>4, <2>5 DEF Passing
<1> QED
  BY <1>2, <1>3, <1>4

LEMMA AskLeadKnows ==
    ASSUME IInv, Knowing, NEW p \in Peer, AskLead(p)
    PROVE  Knowing'
<1>1. LinksOK(Msg) /\ AllFramed /\ RestOK
  BY PartsOf
<1>2. PICK l \in Peer : l = lead[p]
  BY <1>1 DEF RestOK
<1>3. PICK w \in Route : w = {<<p, l, cuts[p][l]>>}
  <2>1. cuts[p][l] \in 0 .. MaxBreaks
    BY <1>1 DEF RestOK
  <2>2. {<<p, l, cuts[p][l]>>} \in Route
    BY <2>1 DEF Route
  <2> QED
    BY <2>2
<1>4. PICK m \in Msg : m = [op |-> "ask", for |-> p, route |-> w]
  BY MsgKinds
<1>5. /\ link[p][l] = "up"
      /\ chan' = [chan EXCEPT ![p][l] = Append(@, m)]
      /\ UNCHANGED <<link, conn>>
      /\ UNCHANGED <<maps, record, parted>>
  BY <1>2, <1>3, <1>4 DEF AskLead, Sent
<1>6. m.op = "ask"
  BY <1>4
<1>7. ASSUME NEW r \in Peer, NEW u \in Peer PROVE Passing(r, u)
  <2>1. CASE r = p /\ u = l
    <3>1. chan'[r][u] = Append(chan[r][u], m)
      BY <1>1, <1>5, <2>1 DEF LinksOK
    <3> QED
      BY <1>1, <1>5, <1>6, <2>1, <3>1, PassingBy
  <2>2. CASE ~(r = p /\ u = l)
    <3>1. chan'[r][u] = chan[r][u]
      BY <1>1, <1>5, <2>2 DEF LinksOK
    <3> QED
      BY <1>1, <1>5, <3>1, PassingBy
  <2> QED
    BY <2>1, <2>2
<1> QED
  BY <1>5, <1>7, KnowingQuietly DEF maps, record

LEMMA TakenPasses ==
    ASSUME LinksOK(Msg), AllFramed, NEW p \in Peer, NEW q \in Peer, chan[p][q] # <<>>, Taken(p, q),
           Head(chan[p][q]).op \in {"hello", "ask"}, link' = link,
           \A r, u \in Peer : r \in conn'[u] => r \in conn[u] \/ (r = p /\ u = q),
           NEW r \in Peer, NEW u \in Peer
    PROVE  Passing(r, u)
<1>1. /\ chan'[p][q] = Tail(chan[p][q])
      /\ \A s, t \in Peer : <<s, t>> # <<p, q>> => chan'[s][t] = chan[s][t]
  BY TakenFacts, MsgKinds
<1>2. CASE r = p /\ u = q
  <2>1. chan'[r][u] = Tail(chan[r][u]) /\ chan[r][u] # <<>> /\ Head(chan[r][u]).op \in {"hello", "ask"}
    BY <1>1, <1>2
  <2> QED
    BY <2>1, PassingBy
<1>3. CASE ~(r = p /\ u = q)
  <2>1. chan'[r][u] = chan[r][u] /\ (r \in conn'[u] => r \in conn[u])
    BY <1>1, <1>3
  <2> QED
    BY <2>1, PassingBy
<1> QED
  BY <1>2, <1>3

LEMMA GiveKnows ==
    ASSUME IInv, Knowing, NEW p \in Peer, NEW q \in Peer, Give(p, q)
    PROVE  Knowing'
<1>1. LinksOK(Msg) /\ AllFramed
  BY PartsOf
<1>2. /\ Reading(p, q, "ask") /\ Taken(p, q)
      /\ UNCHANGED <<link, conn, known, local, brought, insts, parted>>
  BY DEF Give
<1>3. gave \subseteq gave'
  BY DEF Give
<1>4. chan[p][q] # <<>> /\ Head(chan[p][q]).op \in {"hello", "ask"}
  BY <1>2 DEF Reading
<1>5. ASSUME NEW r \in Peer, NEW u \in Peer PROVE Passing(r, u)
  BY <1>1, <1>2, <1>4, TakenPasses
<1> QED
  BY <1>2, <1>3, <1>5, KnowingQuietly

LEMMA ReadHelloKnows ==
    ASSUME IInv, Knowing, NEW p \in Peer, NEW q \in Peer, ReadHello(p, q)
    PROVE  Knowing'
<1>1. LinksOK(Msg) /\ AllFramed /\ conn \in [Peer -> SUBSET Peer]
  BY PartsOf
<1>2. /\ Reading(p, q, "hello") /\ Taken(p, q)
      /\ conn' = [conn EXCEPT ![q] = @ \cup {p}]
      /\ UNCHANGED <<link, known, local, brought, insts, gave, parted>>
  BY DEF ReadHello, ReadHeader, maps, record
<1>3. chan[p][q] # <<>> /\ Head(chan[p][q]).op \in {"hello", "ask"}
  BY <1>2 DEF Reading
<1>4. \A r, u \in Peer : r \in conn'[u] <=> r \in conn[u] \/ (r = p /\ u = q)
  BY <1>1, <1>2
<1>5. ASSUME NEW r \in Peer, NEW u \in Peer PROVE Passing(r, u)
  BY <1>1, <1>2, <1>3, <1>4, TakenPasses
<1>6. \A r \in Peer : conn[r] \subseteq conn'[r]
  BY <1>1, <1>2
<1> QED
  BY <1>2, <1>5, <1>6, KnowingQuietly

LEMMA PassOnKnows ==
    ASSUME IInv, Knowing, NEW p \in Peer, NEW q \in Peer, PassOn(p, q)
    PROVE  Knowing'
<1>1. LinksOK(Msg) /\ AllFramed /\ RestOK
  BY PartsOf
<1>2. /\ Reading(p, q, "ask") /\ lead[q] # q
      /\ UNCHANGED <<link, conn, maps, record, parted>>
  BY DEF PassOn
<1>3. PICK l \in Peer : l = lead[q]
  BY <1>1 DEF RestOK
<1>4. PICK h \in Msg : h = Head(chan[p][q]) /\ h.op = "ask"
  BY <1>1, <1>2 DEF Reading, LinksOK
<1>5. PICK m : m = [h EXCEPT !.route = @ \cup {<<q, l, cuts[q][l]>>}]
  OBVIOUS
<1>6. m \in Msg /\ m.op = "ask"
  <2>1. h \in [op : {"ask"}, for : Peer, route : Route]
    BY <1>4 DEF Msg
  <2>2. cuts[q][l] \in 0 .. MaxBreaks
    BY <1>1 DEF RestOK
  <2>3. h.route \cup {<<q, l, cuts[q][l]>>} \in Route
    BY <2>1, <2>2 DEF Route
  <2>4. m \in [op : {"ask"}, for : Peer, route : Route]
    BY <1>5, <2>1, <2>3
  <2> QED
    BY <2>4 DEF Msg
<1>7. PICK e : e = [chan EXCEPT ![p][q] = Tail(@)]
  OBVIOUS
<1>8. /\ e \in [Peer -> [Peer -> Seq(Msg)]]
      /\ e[p][q] = Tail(chan[p][q])
      /\ \A s, t \in Peer : <<s, t>> # <<p, q>> => e[s][t] = chan[s][t]
  <2>1. chan \in [Peer -> [Peer -> Seq(Msg)]] /\ chan[p][q] # <<>>
    BY <1>1, <1>2 DEF LinksOK, Reading
  <2>2. Tail(chan[p][q]) \in Seq(Msg)
    BY <2>1
  <2> QED
    BY <1>7, <2>1, <2>2
<1>9. chan' = Sent(e, q, l, m)
  BY <1>3, <1>4, <1>5, <1>7 DEF PassOn
<1>10. p # q /\ chan[p][q] # <<>> /\ Head(chan[p][q]).op = "ask"
  <2>1. chan[p][q] # <<>> /\ Head(chan[p][q]).op = "ask"
    BY <1>2 DEF Reading
  <2> QED
    BY <1>1, <2>1 DEF AllFramed, Framed
<1>11. ASSUME NEW r \in Peer, NEW u \in Peer
       PROVE  chan'[r][u] = IF r = q /\ u = l /\ link[q][l] = "up" THEN Append(e[r][u], m) ELSE e[r][u]
  <2>1. CASE link[q][l] = "up"
    <3>1. chan' = [e EXCEPT ![q][l] = Append(@, m)]
      BY <1>9, <2>1 DEF Sent
    <3> QED
      BY <1>8, <2>1, <3>1
  <2>2. CASE link[q][l] # "up"
    BY <1>9, <2>2 DEF Sent
  <2> QED
    BY <2>1, <2>2
<1>12. ASSUME NEW r \in Peer, NEW u \in Peer PROVE Passing(r, u)
  <2>0. chan'[r][u] = IF r = q /\ u = l /\ link[q][l] = "up" THEN Append(e[r][u], m) ELSE e[r][u]
    BY <1>11
  <2>1. CASE r = p /\ u = q
    <3>1. chan'[r][u] = Tail(chan[r][u]) /\ chan[r][u] # <<>> /\ Head(chan[r][u]).op \in {"hello", "ask"}
      BY <1>8, <1>10, <2>0, <2>1
    <3> QED
      BY <1>1, <1>2, <3>1, PassingBy
  <2>2. CASE r = q /\ u = l /\ link[q][l] = "up"
    <3>1. chan'[r][u] = Append(chan[r][u], m)
      BY <1>8, <1>10, <2>0, <2>2
    <3> QED
      BY <1>1, <1>2, <1>6, <2>2, <3>1, PassingBy
  <2>3. CASE ~(r = p /\ u = q) /\ ~(r = q /\ u = l /\ link[q][l] = "up")
    <3>1. chan'[r][u] = chan[r][u]
      BY <1>8, <2>0, <2>3
    <3> QED
      BY <1>1, <1>2, <3>1, PassingBy
  <2> QED
    BY <2>1, <2>2, <2>3
<1> QED
  BY <1>2, <1>12, KnowingQuietly DEF maps, record

LEMMA PassOnToNobodyKnows ==
    ASSUME IInv, Knowing, NEW p \in Peer, NEW q \in Peer, PassOnToNobody(p, q)
    PROVE  Knowing'
<1>1. LinksOK(Msg) /\ AllFramed
  BY PartsOf
<1>2. /\ Reading(p, q, "ask") /\ Taken(p, q)
      /\ UNCHANGED <<link, conn, maps, record, parted>>
  BY DEF PassOnToNobody
<1>3. chan[p][q] # <<>> /\ Head(chan[p][q]).op \in {"hello", "ask"}
  BY <1>2 DEF Reading
<1>4. ASSUME NEW r \in Peer, NEW u \in Peer PROVE Passing(r, u)
  BY <1>1, <1>2, <1>3, TakenPasses
<1> QED
  BY <1>2, <1>4, KnowingQuietly DEF maps, record

LEMMA ConnectKnows ==
    ASSUME IInv, Knowing, NEW p \in Peer, NEW q \in Peer, Connect(p, q)
    PROVE  Knowing'
<1>1. LinksOK(Msg) /\ MapsOK
  BY PartsOf
<1>2. PICK news \in Listing(p) : GetThrough(p, q, news)
  BY DEF Connect
<1>3. UNCHANGED <<known, local, brought, insts, gave, parted>>
  BY DEF Connect, maps, record
<1>4. /\ news \in Seq(Msg)
      /\ \A n \in DOMAIN news : Plain(news[n]) /\ news[n].op = "instance" /\ news[n].id \in local[p]
  BY <1>2, ListingPlain
<1>5. /\ p # q /\ link[p][q] = "dialing" /\ chan[p][q] = <<>> /\ p \notin conn[q]
      /\ \A r, u \in Peer : link'[r][u] = IF r = p /\ u = q THEN "up" ELSE link[r][u]
      /\ chan'[p][q] = <<Hello>> \o news
      /\ \A r, u \in Peer : ~(r = p /\ u = q) => chan'[r][u] = chan[r][u]
      /\ conn' = conn
  BY <1>1, <1>2 DEF GetThrough, LinksOK
<1>6. \A i \in AnyId : i \in local[p] <=> i \in Spoken(chan'[p][q])
  <2>1. ASSUME NEW i \in AnyId, i \in Spoken(chan'[p][q]) PROVE i \in local[p]
    <3>1. PICK n \in DOMAIN news : news[n] = [op |-> "instance", id |-> i]
      BY <1>4, <1>5, <2>1, SpokenNews
    <3> QED
      BY <1>4, <3>1
  <2>2. ASSUME NEW i \in AnyId, i \in local[p] PROVE i \in Spoken(chan'[p][q])
    <3>1. PICK n \in DOMAIN news : news[n].id = i
      BY <1>2, <2>2 DEF Listing
    <3>2. news[n] = [op |-> "instance", id |-> i]
      <4>1. news[n] \in Msg /\ news[n].op = "instance"
        BY <1>4
      <4> QED
        BY <3>1, <4>1, MsgKinds
    <3> QED
      BY <1>4, <1>5, <3>2, SpokenListed
  <2> QED
    BY <2>1, <2>2
<1>7. ~Closing(<<>>)
  BY DEF Closing
<1> SUFFICES ASSUME NEW r \in Peer, NEW u \in Peer
             PROVE  Broken(r, u)' /\ \A i \in AnyId : Placed(r, u, i)'
  BY DEF Knowing
<1>8. Broken(r, u)'
  <2>1. CASE r = p /\ u = q
    BY <1>5, <2>1 DEF Broken
  <2>2. CASE ~(r = p /\ u = q)
    <3>1. Broken(r, u)
      BY DEF Knowing
    <3> QED
      BY <1>5, <2>2, <3>1 DEF Broken, Closing
  <2> QED
    BY <2>1, <2>2
<1>9. ASSUME NEW i \in AnyId PROVE Placed(r, u, i)'
  <2>0. Given(r, i)' = Given(r, i) /\ Clean(i)' = Clean(i)
    BY <1>3 DEF Given, Clean
  <2>1. Placed(r, u, i)
    BY DEF Knowing
  <2>2. CASE r = p /\ u = q
    <3>1. i \in local[p] <=> i \in Spoken(chan'[r][u])
      BY <1>6, <2>2
    <3>2. i \notin brought[q][p] /\ known[q][i] # p
      BY <1>5, <2>1, <2>2 DEF Placed
    <3> HIDE DEF Closing
    <3> QED
      BY <1>3, <1>5, <2>0, <2>1, <2>2, <3>1, <3>2 DEF Placed
  <2>3. CASE ~(r = p /\ u = q)
    <3>1. chan'[r][u] = chan[r][u] /\ link'[r][u] = link[r][u]
      BY <1>5, <2>3
    <3>2. Closing(chan[r][u])' = Closing(chan[r][u])
      BY <3>1 DEF Closing
    <3>3. Spoken(chan[r][u])' = Spoken(chan[r][u])
      BY <3>1 DEF Spoken
    <3> QED
      BY <1>3, <1>5, <2>0, <2>1, <3>1, <3>2, <3>3 DEF Placed
  <2> QED
    BY <2>2, <2>3
<1> QED
  BY <1>8, <1>9

LEMMA CutKnows ==
    ASSUME IInv, Knowing, NEW p \in Peer, NEW q \in Peer, Cut(p, q)
    PROVE  Knowing'
<1>1. LinksOK(Msg) /\ AllFramed
  BY PartsOf
<1>2. Break(p, q) /\ UNCHANGED <<known, local, brought, insts, gave, parted>>
  BY DEF Cut, maps, record
<1>3. PICK n \in 0 .. Len(chan[p][q]) : chan' = [chan EXCEPT ![p][q] = Append(SubSeq(@, 1, n), Eof)]
  BY <1>2 DEF Break
<1>4. /\ \A r, u \in Peer : link'[r][u] = IF r = p /\ u = q THEN "dialing" ELSE link[r][u]
      /\ chan'[p][q] = Append(SubSeq(chan[p][q], 1, n), Eof)
      /\ \A r, u \in Peer : ~(r = p /\ u = q) => chan'[r][u] = chan[r][u]
      /\ conn' = conn
  BY <1>1, <1>2, <1>3 DEF Break, LinksOK
<1>5. link[p][q] = "up" /\ p # q /\ ~Closing(chan[p][q])
  BY <1>1, <1>2, OpenUnclosed DEF Break
<1>6. chan[p][q] \in Seq(Msg) /\ SubSeq(chan[p][q], 1, n) \in Seq(Msg)
  BY <1>1 DEF LinksOK
<1>7. Closing(chan'[p][q])
  BY <1>4, <1>6, ClosingAppend
<1> SUFFICES ASSUME NEW r \in Peer, NEW u \in Peer
             PROVE  Broken(r, u)' /\ \A i \in AnyId : Placed(r, u, i)'
  BY DEF Knowing
<1>8. CASE r = p /\ u = q
  <2>1. Broken(r, u)'
    BY <1>7, <1>8 DEF Broken, Closing
  <2>2. ASSUME NEW i \in AnyId PROVE Placed(r, u, i)'
    <3>1. Placed(r, u, i)
      BY DEF Knowing
    <3>2. Given(r, i)' = Given(r, i) /\ Clean(i)' = Clean(i)
      BY <1>2 DEF Given, Clean
    <3>3. Closing(chan[r][u])' /\ link'[r][u] = "dialing"
      BY <1>4, <1>7, <1>8 DEF Closing
    <3> QED
      BY <1>2, <1>4, <3>1, <3>2, <3>3 DEF Placed
  <2> QED
    BY <2>1, <2>2
<1>9. CASE ~(r = p /\ u = q)
  <2>1. chan'[r][u] = chan[r][u] /\ link'[r][u] = link[r][u]
    BY <1>4, <1>9
  <2>2. Closing(chan[r][u])' = Closing(chan[r][u]) /\ Spoken(chan[r][u])' = Spoken(chan[r][u])
    BY <2>1 DEF Closing, Spoken
  <2>3. Broken(r, u)'
    BY <1>4, <2>1, <2>2 DEF Broken, Knowing
  <2>4. ASSUME NEW i \in AnyId PROVE Placed(r, u, i)'
    <3>1. Placed(r, u, i)
      BY DEF Knowing
    <3>2. Given(r, i)' = Given(r, i) /\ Clean(i)' = Clean(i)
      BY <1>2 DEF Given, Clean
    <3> QED
      BY <1>2, <1>4, <2>1, <2>2, <3>1, <3>2 DEF Placed
  <2> QED
    BY <2>3, <2>4
<1> QED
  BY <1>8, <1>9

LEMMA CrashKnows ==
    ASSUME IInv, Knowing, NEW p \in Peer, Crash(p)
    PROVE  Knowing'
<1>1. LinksOK(Msg) /\ AllFramed /\ MapsOK /\ RestOK
  BY PartsOf
<1>2. Restart(p) /\ gave' = gave /\ parted \subseteq parted'
  BY DEF Crash
<1>3. /\ \A r \in Peer, t \in AnyId : known'[r][t] = IF r = p THEN None ELSE known[r][t]
      /\ \A r \in Peer : local'[r] = IF r = p THEN {} ELSE local[r]
      /\ \A r, u \in Peer : brought'[r][u] = IF r = p THEN {} ELSE brought[r][u]
      /\ \A r \in Peer : insts'[r] = IF r = p THEN {} ELSE insts[r]
  BY <1>1 DEF Crash, MapsOK, RestOK
<1>4. \A r, t \in Peer :
        /\ link'[r][t] = IF p \in {t, r} THEN "dialing" ELSE link[r][t]
        /\ chan'[r][t] = IF r = p /\ link[r][t] = "up" THEN Append(chan[r][t], Eof)
                         ELSE IF t = p THEN <<>> ELSE chan[r][t]
        /\ conn'[t] = IF t = p THEN {} ELSE conn[t]
  BY <1>1, <1>2 DEF Restart, LinksOK
<1>5. Spoken(<<>>) = {}
  BY DEF Spoken
<1> SUFFICES ASSUME NEW r \in Peer, NEW u \in Peer
             PROVE  Broken(r, u)' /\ \A i \in AnyId : Placed(r, u, i)'
  BY DEF Knowing
<1>6. Broken(r, u) /\ \A i \in AnyId : Placed(r, u, i)
  BY DEF Knowing
<1>7. \A i \in AnyId : (Given(r, i)' = Given(r, i)) /\ (Clean(i)' => Clean(i))
  BY <1>2, CleanBefore DEF Given
<1>8. link[r][u] = "up" => r # u
  BY <1>1 DEF AllFramed, Framed
<1>9. link[r][u] \in {"dialing", "up"} /\ chan[r][u] \in Seq(Msg)
  BY <1>1 DEF LinksOK
<1>10. CASE u = p
  <2>1. chan'[r][u] = <<>> /\ link'[r][u] = "dialing" /\ conn'[u] = {}
    BY <1>4, <1>8, <1>10
  <2>2. Broken(r, u)'
    BY <2>1 DEF Broken
  <2>3. Spoken(chan[r][u])' = {}
    BY <1>5, <2>1 DEF Spoken
  <2>4. ASSUME NEW i \in AnyId PROVE Placed(r, u, i)'
    <3>1. known'[u][i] # r /\ i \notin brought'[u][r] /\ (r = p => i \notin local'[r] /\ i \notin insts'[r])
      BY <1>3, <1>10, NoneAssumption
    <3>2. r # p => local'[r] = local[r] /\ insts'[r] = insts[r] /\ known'[r][i] = known[r][i]
      BY <1>3
    <3> QED
      BY <1>6, <1>7, <2>1, <2>3, <3>1, <3>2 DEF Placed
  <2> QED
    BY <2>2, <2>4
<1>11. CASE u # p /\ r = p
  <2>1. link'[r][u] = "dialing" /\ conn'[u] = conn[u]
    BY <1>4, <1>11
  <2>2. Closing(chan'[r][u]) \/ (chan'[r][u] = <<>> /\ chan[r][u] = <<>> /\ r \notin conn[u])
    <3>1. CASE link[r][u] = "up"
      <4>1. chan'[r][u] = Append(chan[r][u], Eof)
        BY <1>4, <1>11, <3>1
      <4> QED
        BY <1>9, <4>1, ClosingAppend
    <3>2. CASE link[r][u] = "dialing"
      <4>1. chan'[r][u] = chan[r][u]
        BY <1>4, <1>11, <3>2
      <4> QED
        BY <1>6, <3>2, <4>1 DEF Broken
    <3> QED
      BY <1>9, <3>1, <3>2
  <2>3. Broken(r, u)'
    BY <2>1, <2>2 DEF Broken, Closing
  <2>4. ASSUME NEW i \in AnyId PROVE Placed(r, u, i)'
    <3>1. /\ i \notin local'[r] /\ i \notin insts'[r]
          /\ known'[u][i] = known[u][i] /\ brought'[u][r] = brought[u][r]
      BY <1>3, <1>11
    <3>2. Placed(r, u, i)
      BY <1>6
    <3>3. CASE Closing(chan'[r][u])
      <4>1. Closing(chan[r][u])'
        BY <3>3 DEF Closing
      <4> QED
        BY <2>1, <3>1, <3>2, <4>1 DEF Placed
    <3>4. CASE chan'[r][u] = <<>> /\ chan[r][u] = <<>> /\ r \notin conn[u]
      <4>1. i \notin Spoken(chan[r][u])'
        BY <1>5, <3>4 DEF Spoken
      <4>2. known[u][i] # r
        BY <1>11, <3>2, <3>4 DEF Placed
      <4> QED
        BY <2>1, <3>1, <3>2, <4>1, <4>2 DEF Placed
    <3> QED
      BY <2>2, <3>3, <3>4
  <2> QED
    BY <2>3, <2>4
<1>12. CASE u # p /\ r # p
  <2>1. chan'[r][u] = chan[r][u] /\ link'[r][u] = link[r][u] /\ conn'[u] = conn[u]
    BY <1>4, <1>12
  <2>2. Closing(chan[r][u])' = Closing(chan[r][u]) /\ Spoken(chan[r][u])' = Spoken(chan[r][u])
    BY <2>1 DEF Closing, Spoken
  <2>3. Broken(r, u)'
    BY <1>6, <2>1, <2>2 DEF Broken
  <2>4. ASSUME NEW i \in AnyId PROVE Placed(r, u, i)'
    <3>1. /\ local'[r] = local[r] /\ insts'[r] = insts[r] /\ known'[r][i] = known[r][i]
          /\ known'[u][i] = known[u][i] /\ brought'[u][r] = brought[u][r]
      BY <1>3, <1>12
    <3> QED
      BY <1>6, <1>7, <2>1, <2>2, <3>1 DEF Placed
  <2> QED
    BY <2>3, <2>4
<1> QED
  BY <1>10, <1>11, <1>12

LEMMA ForgetKnows ==
    ASSUME IInv, Knowing, NEW p \in Peer, NEW q \in Peer, Forget(p, q)
    PROVE  Knowing'
<1>1. LinksOK(Msg) /\ AllFramed /\ MapsOK /\ conn \in [Peer -> SUBSET Peer] /\ OneGrant /\ Traced
  BY PartsOf DEF IInv
<1>2. /\ Reading(p, q, "eof") /\ Taken(p, q) /\ UNCHANGED <<link, insts, gave>>
      /\ parted \subseteq parted'
  BY DEF Forget, ReadEnd, record
<1>3. /\ \A r \in Peer, t \in AnyId : known'[r][t] = IF r = q /\ t \in brought[q][p] THEN None ELSE known[r][t]
      /\ \A r \in Peer, t \in AnyId : t \in local'[r] <=>
           t \in local[r] /\ ~(r = q /\ t \in brought[q][p] /\ known[q][t] = q)
      /\ \A r, u \in Peer, t \in AnyId : t \in brought'[r][u] <=>
           t \in brought[r][u] /\ ~(r = q /\ (u = p \/ (t \in brought[q][p] /\ known[q][t] = u)))
      /\ \A r, u \in Peer : u \in conn'[r] <=> u \in conn[r] /\ ~(r = q /\ u = p)
  BY <1>1, ForgetFacts
<1>4. p # q /\ link[p][q] # "up" /\ chan'[p][q] = <<>>
      /\ \A r, t \in Peer : <<r, t>> # <<p, q>> => chan'[r][t] = chan[r][t]
  <2>1. chan[p][q] \in Seq(Msg) /\ chan[p][q] # <<>> /\ Head(chan[p][q]) = Eof
    <3>1. chan[p][q] \in Seq(Msg) /\ chan[p][q] # <<>> /\ Head(chan[p][q]).op = "eof"
      BY <1>1, <1>2 DEF Reading, LinksOK
    <3>2. Head(chan[p][q]) \in Msg
      BY <3>1
    <3> QED
      BY <3>1, <3>2, MsgKinds DEF Kinds
  <2>2. FramedAs(chan[p][q], link[p][q] = "up", p \in conn[q]) /\ p # q
    BY <1>1, <2>1 DEF AllFramed, Framed
  <2>3. link[p][q] # "up" /\ Tail(chan[p][q]) = <<>>
    BY <2>1, <2>2, FramedEof, (p \in conn[q]) \in BOOLEAN, (link[p][q] = "up") \in BOOLEAN, Zenon
  <2>4. /\ chan'[p][q] = Tail(chan[p][q])
        /\ \A r, t \in Peer : <<r, t>> # <<p, q>> => chan'[r][t] = chan[r][t]
    BY <1>1, <1>2, <2>1, TakenFacts, MsgKinds
  <2> QED
    BY <2>2, <2>3, <2>4
<1>5. Spoken(<<>>) = {}
  BY DEF Spoken
<1>6. ASSUME NEW i \in AnyId, i \in brought[q][p], Clean(i), NEW s \in Peer, i \in insts[s]
      PROVE  s = p
  <2>1. Given(p, i)
    BY <1>1, <1>6 DEF Traced
  <2>2. Given(s, i)
    BY <1>6 DEF Knowing, Placed
  <2> QED
    BY <1>1, <1>6, <2>1, <2>2, SoleHolder
<1> SUFFICES ASSUME NEW r \in Peer, NEW u \in Peer
             PROVE  Broken(r, u)' /\ \A i \in AnyId : Placed(r, u, i)'
  BY DEF Knowing
<1>7. Broken(r, u) /\ \A i \in AnyId : Placed(r, u, i) /\ Placed(r, r, i)
  BY DEF Knowing
<1>8. \A i \in AnyId : (Given(r, i)' = Given(r, i)) /\ (Clean(i)' => Clean(i))
  BY <1>2, CleanBefore DEF Given
\* A peer keeps what it has of its own instances, q included.
<1>9. ASSUME NEW i \in AnyId, i \in insts[r], Clean(i)'
      PROVE  known'[r][i] = r /\ i \in local'[r]
  <2>1. Clean(i)
    BY <1>8, <1>9
  <2>2. known[r][i] = r /\ i \in local[r]
    BY <1>7, <1>9, <2>1 DEF Placed
  <2>3. r = q => i \notin brought[q][p]
    BY <1>4, <1>6, <1>9, <2>1
  <2> QED
    BY <1>3, <2>2, <2>3
<1>10. CASE r = p /\ u = q
  <2>1. r \notin conn'[u] /\ chan'[r][u] = <<>> /\ link'[r][u] # "up"
    BY <1>2, <1>3, <1>4, <1>10
  <2>2. Broken(r, u)'
    BY <2>1 DEF Broken
  <2>3. ASSUME NEW i \in AnyId PROVE Placed(r, u, i)'
    <3>1. i \notin Spoken(chan[r][u])'
      BY <1>5, <2>1 DEF Spoken
    <3>2. i \notin brought'[u][r]
      BY <1>3, <1>10
    <3>3. known'[u][i] # r
      <4>1. i \in brought[q][p] => known'[q][i] = None
        BY <1>3
      <4>2. i \notin brought[q][p] => known'[q][i] = known[q][i] /\ known[q][i] # p
        BY <1>3, <1>4, <1>7, <1>10 DEF Placed
      <4> QED
        BY <1>10, <4>1, <4>2, NoneAssumption
    <3>4. i \in local'[r] => i \in insts'[r]
      BY <1>2, <1>3, <1>7 DEF Placed
    <3>5. i \in insts'[r] => Given(r, i)'
      BY <1>2, <1>7, <1>8 DEF Placed
    <3> QED
      BY <1>2, <1>9, <2>1, <3>1, <3>2, <3>3, <3>4, <3>5 DEF Placed
  <2> QED
    BY <2>2, <2>3
<1>11. CASE ~(r = p /\ u = q)
  <2>1. chan'[r][u] = chan[r][u] /\ link'[r][u] = link[r][u] /\ (r \in conn'[u] <=> r \in conn[u])
    BY <1>2, <1>3, <1>4, <1>11
  <2>2. Closing(chan[r][u])' = Closing(chan[r][u]) /\ Spoken(chan[r][u])' = Spoken(chan[r][u])
    BY <2>1 DEF Closing, Spoken
  <2>3. Broken(r, u)'
    BY <1>7, <2>1, <2>2 DEF Broken
  <2>4. ASSUME NEW i \in AnyId PROVE Placed(r, u, i)'
    <3>1. Placed(r, u, i)
      BY <1>7
    <3>2. known'[u][i] = r => known[u][i] = r /\ ~(u = q /\ i \in brought[q][p])
      BY <1>3, NoneAssumption
    <3>3. i \in brought'[u][r] => i \in brought[u][r]
      BY <1>3
    <3>4. known'[u][i] = r /\ r # u => i \in brought'[u][r]
      BY <1>3, <1>11, <3>1, <3>2 DEF Placed
    <3>5. i \in local'[r] => i \in local[r]
      BY <1>3
    <3>6. ASSUME i \in insts[r], Clean(i)', link[r][u] = "up"
          PROVE  i \in Spoken(chan[r][u]) \/ known'[u][i] = r
      <4>1. i \in Spoken(chan[r][u]) \/ known[u][i] = r
        BY <1>8, <3>1, <3>6 DEF Placed
      <4>2. u = q => i \notin brought[q][p]
        BY <1>4, <1>6, <1>8, <1>11, <3>6
      <4> QED
        BY <1>3, <4>1, <4>2
    <3> QED
      BY <1>2, <1>8, <1>9, <2>1, <2>2, <3>1, <3>2, <3>3, <3>4, <3>5, <3>6 DEF Placed
  <2> QED
    BY <2>3, <2>4
<1> QED
  BY <1>10, <1>11

LEMMA CreatedKnows ==
    ASSUME IInv, IInv', Knowing, NEW p \in Peer, NEW i \in AnyId, Created(p, i),
           gave \subseteq gave', Given(p, i)', parted' = parted
    PROVE  Knowing'
<1> DEFINE m == [op |-> "instance", id |-> i]
<1>1. LinksOK(Msg) /\ AllFramed /\ MapsOK /\ RestOK /\ OneGrant'
  BY PartsOf DEF IInv
<1>2. Added(p, i, p) /\ insts' = [insts EXCEPT ![p] = @ \cup {i}]
      /\ chan' = ToOthers(p, m) /\ link' = link /\ conn' = conn
  BY DEF Created
<1>3. /\ \A r \in Peer, t \in AnyId : known'[r][t] = IF r = p /\ t = i THEN p ELSE known[r][t]
      /\ \A r \in Peer, t \in AnyId : t \in local'[r] <=> t \in local[r] \/ (r = p /\ t = i)
      /\ \A r, u \in Peer, t \in AnyId : t \in brought'[r][u] <=> t \in brought[r][u]
  BY <1>1, <1>2, AddedFacts
<1>4. \A r \in Peer, t \in AnyId : t \in insts'[r] <=> t \in insts[r] \/ (r = p /\ t = i)
  BY <1>1, <1>2 DEF RestOK
<1>5. \A r, u \in Peer :
        chan'[r][u] = IF r = p /\ link[r][u] = "up" THEN Append(chan[r][u], m) ELSE chan[r][u]
  BY <1>1, <1>2 DEF ToOthers, LinksOK
<1> HIDE DEF m
<1> SUFFICES ASSUME NEW r \in Peer, NEW u \in Peer
             PROVE  Broken(r, u)' /\ \A t \in AnyId : Placed(r, u, t)'
  BY DEF Knowing
<1>6. Broken(r, u) /\ \A t \in AnyId : Placed(r, u, t)
  BY DEF Knowing
<1>7. chan[r][u] \in Seq(Msg) /\ (link[r][u] = "up" => ~Closing(chan[r][u]) /\ r # u)
  BY <1>1, OpenUnclosed DEF LinksOK
<1>8. Broken(r, u)'
  <2>1. CASE link[r][u] = "up"
    BY <1>2, <2>1 DEF Broken
  <2>2. CASE link[r][u] # "up"
    <3>1. chan'[r][u] = chan[r][u]
      BY <1>5, <2>2
    <3> QED
      BY <1>2, <1>6, <3>1 DEF Broken, Closing
  <2> QED
    BY <2>1, <2>2
<1>9. ASSUME NEW t \in AnyId PROVE Placed(r, u, t)'
  <2>1. Placed(r, u, t)
    BY <1>6
  <2>2. (Clean(t)' => Clean(t)) /\ (Given(r, t) => Given(r, t)')
    BY CleanBefore, GivenStill
  \* Of the channel.
  <2>3. Closing(chan[r][u]) => Closing(chan'[r][u])
    <3>1. CASE link[r][u] = "up"
      BY <1>7, <3>1
    <3>2. CASE link[r][u] # "up"
      <4>1. chan'[r][u] = chan[r][u]
        BY <1>5, <3>2
      <4> QED
        BY <4>1
    <3> QED
      BY <3>1, <3>2
  <2>4. /\ t \in Spoken(chan[r][u]) => t \in Spoken(chan'[r][u])
        /\ t \in Spoken(chan'[r][u]) => t \in Spoken(chan[r][u]) \/ (r = p /\ t = i)
        /\ r = p /\ t = i /\ link[r][u] = "up" => t \in Spoken(chan'[r][u])
    <3>1. CASE r = p /\ link[r][u] = "up"
      <4>1. chan'[r][u] = Append(chan[r][u], m)
        BY <1>5, <3>1
      <4>2. m = [op |-> "instance", id |-> t] <=> t = i
        BY DEF m
      <4>3. t \in Spoken(Append(chan[r][u], m)) => t \in Spoken(chan[r][u]) \/ m = [op |-> "instance", id |-> t]
        <5>1. m \in Msg
          BY MsgKinds DEF m
        <5> QED
          BY <1>7, <5>1, SpokenAppend
      <4>4. t \in Spoken(chan[r][u]) \/ m = [op |-> "instance", id |-> t] => t \in Spoken(Append(chan[r][u], m))
        BY <1>7, SpokenGrows
      <4> QED
        BY <3>1, <4>1, <4>2, <4>3, <4>4
    <3>2. CASE ~(r = p /\ link[r][u] = "up")
      <4>1. chan'[r][u] = chan[r][u]
        BY <1>5, <3>2
      <4> QED
        BY <3>2, <4>1
    <3> QED
      BY <3>1, <3>2
  \* Of the maps.
  <2>5. known'[u][t] = r => known[u][t] = r \/ (r = p /\ u = p /\ t = i)
    BY <1>3
  <2>6. t \in local'[r] => t \in local[r] \/ (r = p /\ t = i)
    BY <1>3
  <2>7. t \in insts'[r] <=> t \in insts[r] \/ (r = p /\ t = i)
    BY <1>4
  <2>8. t \in brought'[u][r] <=> t \in brought[u][r]
    BY <1>3
  <2>9. t \in insts'[r] => Given(r, t)'
    BY <2>1, <2>2, <2>7 DEF Placed
  <2>10. ASSUME t \in insts'[r], Clean(t)' PROVE known'[r][t] = r /\ t \in local'[r]
    <3>1. CASE r = p /\ t = i
      BY <1>3, <3>1
    <3>2. CASE ~(r = p /\ t = i)
      <4>1. known[r][t] = r /\ t \in local[r]
        BY <2>1, <2>2, <2>7, <2>10, <3>2 DEF Placed
      <4> QED
        BY <1>3, <3>2, <4>1
    <3> QED
      BY <3>1, <3>2
  <2>11. ASSUME t \in insts'[r], Clean(t)', link[r][u] = "up"
         PROVE  t \in Spoken(chan'[r][u]) \/ known'[u][t] = r
    <3>1. CASE r = p /\ t = i
      BY <2>4, <2>11, <3>1
    <3>2. CASE ~(r = p /\ t = i)
      <4>1. t \in Spoken(chan[r][u]) \/ known[u][t] = r
        BY <2>1, <2>2, <2>7, <2>11, <3>2 DEF Placed
      <4>2. CASE u = p /\ t = i
        <5>1. PICK g \in gave' : g.to = r /\ g.id = t
          BY <2>9, <2>11, Ids DEF Given, Clean
        <5>2. PICK h \in gave' : h.to = p /\ h.id = t
          BY <2>11, <4>2, Ids DEF Given, Clean
        <5>3. g = h
          BY <1>1, <2>11, <5>1, <5>2 DEF OneGrant, Clean
        <5> QED
          BY <3>2, <4>2, <5>1, <5>2, <5>3
      <4>3. CASE ~(u = p /\ t = i)
        BY <1>3, <2>4, <4>1, <4>3
      <4> QED
        BY <4>2, <4>3
    <3> QED
      BY <3>1, <3>2
  <2>12. Closing(chan[r][u])' = Closing(chan'[r][u]) /\ Spoken(chan[r][u])' = Spoken(chan'[r][u])
    BY DEF Closing, Spoken
  <2> HIDE DEF Closing
  <2> QED
    BY <1>2, <2>1, <2>3, <2>4, <2>5, <2>6, <2>7, <2>8, <2>9, <2>10, <2>11, <2>12 DEF Placed
<1> QED
  BY <1>8, <1>9

LEMMA AskSelfKnows ==
    ASSUME IInv, IInv', Knowing, NEW p \in Peer, AskSelf(p)
    PROVE  Knowing'
<1>1. PICK i \in Id : Created(p, i) /\ gave' = gave \cup {[to |-> p, by |-> p, id |-> i]}
  BY DEF AskSelf
<1>2. gave \subseteq gave' /\ [to |-> p, by |-> p, id |-> i] \in gave'
  BY <1>1
<1>3. Given(p, i)'
  BY <1>2 DEF Given
<1>4. parted' = parted
  BY DEF AskSelf
<1> QED
  BY <1>1, <1>2, <1>3, <1>4, Ids, CreatedKnows

LEMMA AskNobodyKnows ==
    ASSUME IInv, IInv', Knowing, NEW p \in Peer, AskNobody(p)
    PROVE  Knowing'
<1>1. Created(p, 0) /\ gave' = gave /\ parted' = parted
  BY DEF AskNobody
<1>2. Given(p, 0)'
  BY DEF Given
<1> QED
  BY <1>1, <1>2, Ids, CreatedKnows

LEMMA ReadReplyKnows ==
    ASSUME IInv, IInv', Knowing, NEW r \in replies, ReadReply(r)
    PROVE  Knowing'
<1>1. r.to \in Peer /\ r.id \in AnyId /\ (r.id \in Id => [to |-> r.to, by |-> r.by, id |-> r.id] \in gave)
  BY PartsOf DEF RestOK, IInv, Traced
<1>2. Created(r.to, r.id) /\ gave' = gave /\ parted' = parted
  BY DEF ReadReply
<1>3. Given(r.to, r.id)'
  BY <1>1, <1>2, IdsAssumption DEF Given, Id, AnyId
<1> QED
  BY <1>1, <1>2, <1>3, CreatedKnows

LEMMA ReadInstanceKnows ==
    ASSUME IInv, Knowing, NEW p \in Peer, NEW q \in Peer, ReadInstance(p, q)
    PROVE  Knowing'
<1>1. LinksOK(Msg) /\ AllFramed /\ MapsOK /\ OneGrant /\ Traced
  BY PartsOf DEF IInv
<1>2. /\ Reading(p, q, "instance") /\ Taken(p, q)
      /\ UNCHANGED <<link, conn, breaks, insts, gave, parted>>
      /\ Added(q, Head(chan[p][q]).id, p)
  BY DEF ReadInstance, record
<1>3. /\ p # q /\ p \in conn[q]
      /\ Head(chan[p][q]) \in Msg /\ Head(chan[p][q]).op = "instance"
  BY <1>1, <1>2, LinksPlain, MsgKinds
<1>4. PICK i \in AnyId : i = Head(chan[p][q]).id /\ Added(q, i, p)
  BY <1>2, <1>3, MsgKinds
<1>5. /\ chan[p][q] \in Seq(Msg) /\ chan[p][q] # <<>>
      /\ chan'[p][q] = Tail(chan[p][q])
      /\ \A r, t \in Peer : <<r, t>> # <<p, q>> => chan'[r][t] = chan[r][t]
  BY <1>1, <1>2, TakenFacts, MsgKinds DEF Reading
<1>6. /\ \A r \in Peer, t \in AnyId : known'[r][t] = IF r = q /\ t = i THEN p ELSE known[r][t]
      /\ \A r \in Peer, t \in AnyId : t \in local'[r] <=> t \in local[r]
      /\ \A r, u \in Peer, t \in AnyId :
           t \in brought'[r][u] <=> t \in brought[r][u] \/ (r = q /\ u = p /\ t = i)
  BY <1>1, <1>3, <1>4, AddedFacts
<1>7. i \in Spoken(chan[p][q]) /\ Given(p, i)
  <2>1. i \in Spoken(chan[p][q])
    BY <1>3, <1>4, <1>5, SpokenHead
  <2> QED
    BY <1>1, <2>1 DEF Traced
\* Of a clean id, nobody but p has the instance.
<1>8. ASSUME NEW s \in Peer, i \in insts[s], Clean(i) PROVE s = p
  <2>1. Given(s, i)
    BY <1>8 DEF Knowing, Placed
  <2> QED
    BY <1>1, <1>7, <1>8, <2>1, SoleHolder
<1>9. Head(chan[p][q]) # Eof /\ Head(chan[p][q]) = [op |-> "instance", id |-> i]
  <2>1. Eof.op = "eof"
    BY DEF Eof
  <2>2. Head(chan[p][q]) = [op |-> "instance", id |-> Head(chan[p][q]).id]
    BY <1>3, MsgKinds
  <2> QED
    BY <1>3, <1>4, <2>1, <2>2
<1>10. Closing(chan[p][q]) => Closing(chan'[p][q])
  BY <1>5, <1>9, ClosingTail
<1>11. ASSUME NEW t \in AnyId
       PROVE  /\ t \in Spoken(chan'[p][q]) => t \in Spoken(chan[p][q])
              /\ t \in Spoken(chan[p][q]) => t \in Spoken(chan'[p][q]) \/ t = i
  <2>1. t \in Spoken(Tail(chan[p][q])) => t \in Spoken(chan[p][q])
    BY <1>5, SpokenTail
  <2>2. ASSUME t \in Spoken(chan[p][q]), t # i PROVE t \in Spoken(Tail(chan[p][q]))
    <3>1. [op |-> "instance", id |-> i].id = i /\ [op |-> "instance", id |-> t].id = t
      OBVIOUS
    <3>2. Head(chan[p][q]) # [op |-> "instance", id |-> t]
      BY <1>9, <2>2, <3>1
    <3> QED
      BY <1>5, <2>2, <3>2, SpokenRest
  <2> QED
    BY <1>5, <2>1, <2>2
<1> SUFFICES ASSUME NEW r \in Peer, NEW u \in Peer
             PROVE  Broken(r, u)' /\ \A t \in AnyId : Placed(r, u, t)'
  BY DEF Knowing
<1>12. Broken(r, u) /\ \A t \in AnyId : Placed(r, u, t)
  BY DEF Knowing
\* Of the channel.
<1>13. /\ Closing(chan[r][u]) => Closing(chan[r][u])'
       /\ \A t \in AnyId :
            /\ t \in Spoken(chan[r][u])' => t \in Spoken(chan[r][u])
            /\ t \in Spoken(chan[r][u]) => t \in Spoken(chan[r][u])' \/ (r = p /\ u = q /\ t = i)
       /\ chan'[r][u] # <<>> => chan[r][u] # <<>>
  <2>1. CASE r = p /\ u = q
    <3>1. Closing(chan[r][u])' = Closing(chan'[p][q]) /\ Spoken(chan[r][u])' = Spoken(chan'[p][q])
      BY <2>1 DEF Closing, Spoken
    <3> QED
      BY <1>5, <1>10, <1>11, <2>1, <3>1
  <2>2. CASE ~(r = p /\ u = q)
    <3>1. chan'[r][u] = chan[r][u]
      BY <1>5, <2>2
    <3>2. Closing(chan[r][u])' = Closing(chan[r][u]) /\ Spoken(chan[r][u])' = Spoken(chan[r][u])
      BY <3>1 DEF Closing, Spoken
    <3> QED
      BY <3>1, <3>2
  <2> QED
    BY <2>1, <2>2
<1>14. Broken(r, u)'
  BY <1>2, <1>12, <1>13 DEF Broken
<1>15. ASSUME NEW t \in AnyId PROVE Placed(r, u, t)'
  <2>1. Placed(r, u, t) /\ Placed(p, q, i)
    BY <1>12 DEF Knowing
  <2>2. (Clean(t)' = Clean(t)) /\ (Given(r, t)' = Given(r, t))
    BY <1>2 DEF Clean, Given
  <2>3. known'[u][t] = r => known[u][t] = r \/ (r = p /\ u = q /\ t = i)
    BY <1>6
  <2>4. ASSUME known'[u][t] = r \/ t \in Spoken(chan[r][u])'
        PROVE  t \in insts'[r] \/ Closing(chan[r][u])'
    <3>1. CASE r = p /\ u = q /\ t = i
      BY <1>2, <1>7, <1>13, <2>1, <3>1 DEF Placed
    <3>2. CASE ~(r = p /\ u = q /\ t = i)
      BY <1>2, <1>13, <2>1, <2>3, <2>4, <3>2 DEF Placed
    <3> QED
      BY <3>1, <3>2
  <2>5. known'[u][t] = r /\ r # u => t \in brought'[u][r]
    BY <1>6, <2>1, <2>3 DEF Placed
  <2>6. t \in brought'[u][r] => r \in conn'[u]
    BY <1>2, <1>3, <1>6, <2>1 DEF Placed
  <2>7. ASSUME t \in insts[r], Clean(t) PROVE known'[r][t] = r /\ t \in local'[r]
    <3>1. known[r][t] = r /\ t \in local[r]
      BY <2>1, <2>7 DEF Placed
    <3>2. ~(r = q /\ t = i)
      BY <1>3, <1>8, <2>7
    <3> QED
      BY <1>6, <3>1, <3>2
  <2>8. ASSUME t \in insts[r], Clean(t), link[r][u] = "up"
        PROVE  t \in Spoken(chan[r][u])' \/ known'[u][t] = r
    <3>1. CASE r = p /\ u = q /\ t = i
      BY <1>6, <3>1
    <3>2. CASE ~(r = p /\ u = q /\ t = i)
      <4>1. t \in Spoken(chan[r][u])' \/ known[u][t] = r
        BY <1>13, <2>1, <2>8, <3>2 DEF Placed
      <4>2. ~(u = q /\ t = i)
        BY <1>8, <2>8, <3>2
      <4> QED
        BY <1>6, <4>1, <4>2
    <3> QED
      BY <3>1, <3>2
  <2>9. t \in local'[r] => t \in insts'[r]
    BY <1>2, <1>6, <2>1 DEF Placed
  <2>10. insts' = insts /\ link' = link
    BY <1>2
  <2>11. t \in insts'[r] => Given(r, t)'
    BY <2>1, <2>2, <2>10 DEF Placed
  <2> QED
    BY <2>2, <2>4, <2>5, <2>6, <2>7, <2>8, <2>9, <2>10, <2>11 DEF Placed
<1> QED
  BY <1>14, <1>15

LEMMA KnowingInit == Init => Knowing
<1> SUFFICES ASSUME Init, NEW p \in Peer, NEW q \in Peer
             PROVE  Broken(p, q) /\ \A i \in AnyId : Placed(p, q, i)
  BY DEF Knowing
<1>1. /\ chan[p][q] = <<>> /\ conn[q] = {} /\ link[p][q] = "dialing"
      /\ local[p] = {} /\ brought[q][p] = {} /\ insts[p] = {}
      /\ \A i \in AnyId : known[q][i] = None
  BY DEF Init, LinksInit
<1>2. Spoken(chan[p][q]) = {}
  BY <1>1 DEF Spoken
<1> QED
  BY <1>1, <1>2, NoneAssumption DEF Broken, Placed

LEMMA KnowingStep == IInv /\ IInv' /\ Knowing /\ [Next]_vars => Knowing'
<1> SUFFICES ASSUME IInv, IInv', Knowing, [Next]_vars PROVE Knowing'
  OBVIOUS
<1>1. LinksOK(Msg) /\ AllFramed
  BY PartsOf
<1>2. ASSUME UNCHANGED <<links, maps, record, parted>> PROVE Knowing'
  <2>1. \A r, u \in Peer : Passing(r, u)
    BY <1>1, <1>2, PassingBy DEF links
  <2> QED
    BY <1>2, <2>1, KnowingQuietly DEF links, maps, record
<1>3. ASSUME NEW p \in Peer, Boot(p) \/ UpdatePeers(p) PROVE Knowing'
  BY <1>2, <1>3 DEF Boot, UpdatePeers
<1>4. ASSUME NEW p \in Peer, AskSelf(p) \/ AskLead(p) \/ AskNobody(p) \/ Crash(p) PROVE Knowing'
  BY <1>4, AskSelfKnows, AskLeadKnows, AskNobodyKnows, CrashKnows
<1>5. ASSUME NEW p \in Peer, NEW q \in Peer, Connect(p, q) \/ Cut(p, q) PROVE Knowing'
  BY <1>5, ConnectKnows, CutKnows
<1>6. ASSUME NEW p \in Peer, NEW q \in Peer, ReadHello(p, q) \/ Forget(p, q) PROVE Knowing'
  BY <1>6, ReadHelloKnows, ForgetKnows
<1>7. ASSUME NEW p \in Peer, NEW q \in Peer,
             Give(p, q) \/ PassOn(p, q) \/ PassOnToNobody(p, q) \/ ReadInstance(p, q)
      PROVE  Knowing'
  BY <1>7, GiveKnows, PassOnKnows, PassOnToNobodyKnows, ReadInstanceKnows
<1>8. ASSUME NEW r \in replies, ReadReply(r) PROVE Knowing'
  BY <1>8, ReadReplyKnows
<1>9. ASSUME UNCHANGED vars PROVE Knowing'
  BY <1>2, <1>9 DEF vars
<1> QED
  BY <1>3, <1>4, <1>5, <1>6, <1>7, <1>8, <1>9 DEF Next

(* When everyone is connected and has read everything, nobody believes in *)
(* an instance that is not there, of id 0 neither, and everyone knows      *)
(* every instance whose id was given out cleanly, and where it is          *)
(* (PeerManager::instanceAdded, PeerConnection::~PeerConnection).          *)
THEOREM InstancesKnownHolds == Spec => []InstancesKnown
<1>1. ASSUME IInv, Knowing PROVE InstancesKnown
  <2> SUFFICES ASSUME Settled, NEW p \in Peer, NEW q \in Peer, NEW i \in AnyId
               PROVE  /\ known[q][i] = p => i \in insts[p]
                      /\ Clean(i) /\ i \in insts[p] => known[q][i] = p
    BY DEF InstancesKnown
  <2>1. Placed(p, q, i)
    BY <1>1 DEF Knowing
  <2>2. chan[p][q] = <<>> /\ (p # q => link[p][q] = "up")
    <3>1. CASE p = q
      BY <1>1, <3>1, PartsOf DEF AllFramed, Framed
    <3>2. CASE p # q
      BY <3>2 DEF Settled
    <3> QED
      BY <3>1, <3>2
  <2>3. ~Closing(chan[p][q]) /\ i \notin Spoken(chan[p][q])
    BY <2>2 DEF Closing, Spoken
  <2> QED
    BY <2>1, <2>2, <2>3 DEF Placed
<1>2. Spec => [](IInv /\ Knowing)
  <2>1. Init => IInv /\ Knowing
    BY InitHolds, KnowingInit
  <2>2. (IInv /\ Knowing) /\ [Next]_vars => (IInv /\ Knowing)'
    BY StepHolds, KnowingStep
  <2> QED
    BY <2>1, <2>2, PTL DEF Spec
<1> QED
  BY <1>1, <1>2, PTL

-----------------------------------------------------------------------------
(* What a connection has brought.                                          *)

\* Of a clean id, what a connection brought is the map's entry still.
Remembered == \A p, q \in Peer, i \in AnyId :
    p # q /\ Clean(i) /\ i \in brought[q][p] => known[q][i] = p

\* An entry for another peer changes nothing but its own.
LEMMA AddedRemembered ==
    ASSUME IInv, IInv', Remembered, NEW q \in Peer, NEW p \in Peer, NEW i \in AnyId, Added(q, i, p),
           gave \subseteq gave', parted \subseteq parted', Given(p, i)'
    PROVE  Remembered'
<1> SUFFICES ASSUME NEW u \in Peer, NEW r \in Peer, NEW t \in AnyId, u # r, Clean(t)', t \in brought'[r][u]
             PROVE  known'[r][t] = u
  BY DEF Remembered
<1>1. MapsOK /\ OneGrant' /\ Traced'
  BY PartsOf DEF IInv
<1>2. /\ known'[r][t] = IF r = q /\ t = i THEN p ELSE known[r][t]
      /\ t \in brought'[r][u] <=> t \in brought[r][u] \/ (r = q /\ u = p /\ t = i /\ p # q)
  BY <1>1, AddedFacts
<1>3. Clean(t)
  BY CleanBefore
<1>4. Given(u, t)'
  BY <1>1 DEF Traced
<1>5. CASE r = q /\ t = i
  <2>1. u = p
    <3>1. ASSUME OneGrant, Clean(i), Given(u, i), Given(p, i) PROVE u = p
      BY <3>1, SoleHolder
    <3>2. PICK g \in gave' : g.to = u /\ g.id = i
      BY <1>3, <1>4, <1>5, Ids DEF Given, Clean
    <3>3. PICK h \in gave' : h.to = p /\ h.id = i
      BY <1>3, <1>5, Ids DEF Given, Clean
    <3>4. g = h
      BY <1>1, <1>3, <1>5, <3>2, <3>3 DEF OneGrant, Clean
    <3> QED
      BY <3>2, <3>3, <3>4
  <2> QED
    BY <1>2, <1>5, <2>1
<1>6. CASE ~(r = q /\ t = i)
  BY <1>2, <1>3, <1>6 DEF Remembered
<1> QED
  BY <1>5, <1>6

LEMMA CreatedRemembered ==
    ASSUME IInv, IInv', Remembered, NEW p \in Peer, NEW i \in AnyId, Created(p, i),
           gave \subseteq gave', parted' = parted, Given(p, i)'
    PROVE  Remembered'
<1>1. Added(p, i, p)
  BY DEF Created
<1> QED
  BY <1>1, AddedRemembered

LEMMA RememberedStep == IInv /\ IInv' /\ Remembered /\ [Next]_vars => Remembered'
<1> SUFFICES ASSUME IInv, IInv', Remembered, [Next]_vars PROVE Remembered'
  OBVIOUS
<1>0. MapsOK /\ RestOK /\ OneGrant /\ Traced /\ conn \in [Peer -> SUBSET Peer] /\ LinksOK(Msg) /\ AllFramed
  BY PartsOf DEF IInv
<1>1. ASSUME UNCHANGED <<known, brought>>, gave \subseteq gave', parted \subseteq parted' PROVE Remembered'
  <2> SUFFICES ASSUME NEW u \in Peer, NEW r \in Peer, NEW t \in AnyId, u # r, Clean(t)', t \in brought'[r][u]
               PROVE  known'[r][t] = u
    BY DEF Remembered
  <2>1. Clean(t)
    BY <1>1, CleanBefore
  <2> QED
    BY <1>1, <2>1 DEF Remembered
<1>2. ASSUME NEW p \in Peer, Boot(p) \/ UpdatePeers(p) \/ AskLead(p) PROVE Remembered'
  BY <1>1, <1>2 DEF Boot, UpdatePeers, AskLead, maps, record
<1>3. ASSUME NEW p \in Peer, AskSelf(p) PROVE Remembered'
  <2>1. PICK i \in Id : Created(p, i) /\ gave' = gave \cup {[to |-> p, by |-> p, id |-> i]}
    BY <1>3 DEF AskSelf
  <2>2. gave \subseteq gave' /\ [to |-> p, by |-> p, id |-> i] \in gave' /\ parted' = parted
    BY <1>3, <2>1 DEF AskSelf
  <2>3. Given(p, i)'
    BY <2>2 DEF Given
  <2> QED
    BY <2>1, <2>2, <2>3, Ids, CreatedRemembered
<1>4. ASSUME NEW r \in replies, ReadReply(r) PROVE Remembered'
  <2>1. r.to \in Peer /\ r.id \in AnyId /\ (r.id \in Id => [to |-> r.to, by |-> r.by, id |-> r.id] \in gave)
    BY <1>0 DEF RestOK, Traced
  <2>2. Created(r.to, r.id) /\ gave' = gave /\ parted' = parted
    BY <1>4 DEF ReadReply
  <2>3. Given(r.to, r.id)'
    BY <2>1, <2>2, IdsAssumption DEF Given, Id, AnyId
  <2> QED
    BY <2>1, <2>2, <2>3, CreatedRemembered
<1>5. ASSUME NEW p \in Peer, NEW q \in Peer, ReadInstance(p, q) PROVE Remembered'
  <2> DEFINE m == Head(chan[p][q])
  <2>1. m \in Msg /\ m.op = "instance" /\ chan[p][q] \in Seq(Msg) /\ chan[p][q] # <<>>
    BY <1>0, <1>5, LinksPlain, MsgKinds DEF ReadInstance, Reading, LinksOK
  <2>2. PICK i \in AnyId : m = [op |-> "instance", id |-> i]
    BY <2>1 DEF Msg
  <2>3. Added(q, i, p) /\ gave' = gave /\ parted' = parted
    BY <1>5, <2>2 DEF ReadInstance, record
  <2>4. i \in Spoken(chan[p][q])
    <3>1. 1 \in DOMAIN chan[p][q] /\ chan[p][q][1] = m
      BY <2>1
    <3> HIDE DEF m
    <3> QED
      BY <2>2, <3>1 DEF Spoken
  <2>5. Given(p, i)'
    BY <1>0, <2>3, <2>4 DEF Traced, Given
  <2> QED
    BY <2>3, <2>5, AddedRemembered
<1>6. ASSUME NEW p \in Peer, NEW q \in Peer, Forget(p, q) PROVE Remembered'
  <2> SUFFICES ASSUME NEW u \in Peer, NEW r \in Peer, NEW t \in AnyId, u # r, Clean(t)', t \in brought'[r][u]
               PROVE  known'[r][t] = u
    BY DEF Remembered
  <2>1. /\ known'[r][t] = IF r = q /\ t \in brought[q][p] THEN None ELSE known[r][t]
        /\ t \in brought[r][u] /\ ~(r = q /\ (u = p \/ (t \in brought[q][p] /\ known[q][t] = u)))
    BY <1>0, <1>6, ForgetFacts
  <2>2. Clean(t)
    BY <1>6, CleanBefore DEF Forget, record
  <2> QED
    BY <2>1, <2>2 DEF Remembered
<1>7. ASSUME NEW p \in Peer, Crash(p) PROVE Remembered'
  <2> SUFFICES ASSUME NEW u \in Peer, NEW r \in Peer, NEW t \in AnyId, u # r, Clean(t)', t \in brought'[r][u]
               PROVE  known'[r][t] = u
    BY DEF Remembered
  <2>1. r # p /\ known'[r] = known[r] /\ brought'[r] = brought[r]
    BY <1>0, <1>7 DEF Crash, MapsOK
  <2>2. Clean(t)
    BY <1>7, CleanBefore DEF Crash
  <2> QED
    BY <2>1, <2>2 DEF Remembered
<1>8. ASSUME NEW p \in Peer, NEW q \in Peer, Connect(p, q) \/ Cut(p, q) \/ ReadHello(p, q) \/ PassOn(p, q) \/ PassOnToNobody(p, q)
      PROVE  Remembered'
  BY <1>1, <1>8 DEF Connect, Cut, ReadHello, PassOn, PassOnToNobody, maps, record
<1>9. ASSUME NEW p \in Peer, NEW q \in Peer, Give(p, q) PROVE Remembered'
  <2>1. UNCHANGED <<known, brought, parted>>
    BY <1>9 DEF Give
  <2>2. gave \subseteq gave'
    BY <1>9 DEF Give
  <2> QED
    BY <1>1, <2>1, <2>2
<1>10. ASSUME UNCHANGED vars PROVE Remembered'
  BY <1>1, <1>10 DEF vars, maps, record
<1>11. ASSUME NEW p \in Peer, AskNobody(p) PROVE Remembered'
  <2>1. Created(p, 0) /\ gave' = gave /\ parted' = parted /\ Given(p, 0)'
    BY <1>11 DEF AskNobody, Given
  <2> QED
    BY <2>1, Ids, CreatedRemembered
<1> QED
  BY <1>2, <1>3, <1>4, <1>5, <1>6, <1>7, <1>8, <1>9, <1>10, <1>11 DEF Next

LEMMA AllKnown == Spec => [](IInv /\ Knowing /\ Remembered)
<1>1. Init => IInv /\ Knowing /\ Remembered
  <2>1. Init => Remembered
    BY DEF Init, Remembered
  <2> QED
    BY <2>1, InitHolds, KnowingInit
<1>2. IInv /\ Knowing /\ Remembered /\ [Next]_vars => (IInv /\ Knowing /\ Remembered)'
  BY StepHolds, KnowingStep, RememberedStep
<1> QED
  BY <1>1, <1>2, PTL DEF Spec

(* No two peers have an instance of the same id, of ids given out cleanly  *)
(* (PeerManager::reserveInstanceId); the id 0 that a peer takes when it    *)
(* has no Peer object for its lead is none of these.                       *)
THEOREM CleanIsUniqueHolds == Spec => []CleanIsUnique
<1>1. IInv /\ Knowing => CleanIsUnique
  <2> SUFFICES ASSUME IInv, Knowing, NEW i \in Id, Clean(i), NEW p \in Peer, NEW q \in Peer,
                      i \in insts[p], i \in insts[q]
               PROVE  p = q
    BY DEF CleanIsUnique
  <2>1. Given(p, i) /\ Given(q, i) /\ OneGrant
    BY Ids DEF Knowing, Placed, IInv
  <2> QED
    BY <2>1, Ids, SoleHolder
<1> QED
  BY <1>1, AllKnown, PTL

(* Whatever the map says another peer has, id 0 included, an open          *)
(* connection from that peer has brought; and of ids given out cleanly     *)
(* what a connection has brought is still the map's entry, so that its end *)
(* finds what it removes (PeerConnection::~PeerConnection,                 *)
(* PeerManager::instanceRemoved).                                          *)
THEOREM AttachedHolds == Spec => []Attached
<1>1. IInv /\ Knowing /\ Remembered => Attached
  <2> SUFFICES ASSUME IInv, Knowing, Remembered, NEW p \in Peer, NEW q \in Peer, NEW i \in AnyId, p # q
               PROVE  /\ known[q][i] = p => p \in conn[q] /\ i \in brought[q][p]
                      /\ Clean(i) /\ i \in brought[q][p] => known[q][i] = p
    BY DEF Attached
  <2>1. Placed(p, q, i)
    BY DEF Knowing
  <2>2. Clean(i) /\ i \in brought[q][p] => known[q][i] = p
    BY DEF Remembered
  <2> QED
    BY <2>1, <2>2 DEF Placed
<1> QED
  BY <1>1, AllKnown, PTL

=============================================================================
