-------------------------- MODULE PeerLinksProofs --------------------------
(* Lemmas about PeerLinks, for every set of peers and of messages: each    *)
(* action of the links keeps their shape and the channels framed.          *)
EXTENDS PeerLinks, SequenceTheorems, TLAPS

-----------------------------------------------------------------------------
(* What can happen to a channel.                                           *)

Plain(m) == m \notin {Hello, Eof}

LEMMA FramedAppend ==
    ASSUME NEW S, NEW c \in Seq(S), NEW m \in S, Plain(m), NEW named \in BOOLEAN,
           FramedAs(c, TRUE, named)
    PROVE  FramedAs(Append(c, m), TRUE, named)
<1> DEFINE d == Append(c, m)
<1>1. d \in Seq(S) /\ Len(d) = Len(c) + 1 /\ DOMAIN d = 1 .. Len(c) + 1 /\ DOMAIN c = 1 .. Len(c) /\ Len(c) \in Nat
  OBVIOUS
<1>2. \A n \in 1 .. Len(c) : d[n] = c[n]
  OBVIOUS
<1>3. d[Len(c) + 1] = m
  OBVIOUS
<1>4. named \/ d[1] = Hello
  BY <1>1, <1>2 DEF FramedAs
<1>5. d # <<>>
  BY <1>1
<1> HIDE DEF d
<1>6. ASSUME NEW n \in DOMAIN d
      PROVE  /\ d[n] = Hello => n = 1 /\ ~named
             /\ d[n] = Eof => n = Len(d) /\ ~TRUE
             /\ d[n] \notin {Hello, Eof} => named \/ d[1] = Hello
  <2>1. CASE n \in 1 .. Len(c)
    <3>1. n \in DOMAIN c /\ d[n] = c[n]
      BY <1>1, <1>2, <2>1
    <3>2. /\ c[n] = Hello => n = 1 /\ ~named
          /\ c[n] # Eof
      BY <3>1 DEF FramedAs
    <3> QED
      BY <3>1, <3>2, <1>4
  <2>2. CASE n = Len(c) + 1
    BY <2>2, <1>3, <1>4 DEF Plain
  <2> QED
    BY <1>1, <2>1, <2>2
<1> QED
  BY <1>4, <1>5, <1>6 DEF FramedAs, d

LEMMA FramedHello ==
    ASSUME NEW S, NEW c \in Seq(S), NEW up \in BOOLEAN, NEW named \in BOOLEAN,
           FramedAs(c, up, named), c # <<>>, Head(c) = Hello
    PROVE  ~named /\ FramedAs(Tail(c), up, TRUE)
<1>1. c[1] = Hello /\ 1 \in DOMAIN c /\ Len(c) \in Nat /\ DOMAIN c = 1 .. Len(c) /\ Len(c) >= 1
  OBVIOUS
<1>2. Tail(c) \in Seq(S) /\ DOMAIN Tail(c) = 1 .. Len(c) - 1 /\ Len(Tail(c)) = Len(c) - 1
  BY <1>1
<1>3. \A n \in DOMAIN Tail(c) : Tail(c)[n] = c[n + 1] /\ n + 1 \in DOMAIN c /\ n \in Nat /\ n >= 1
  BY <1>1, <1>2
<1>4. \A n \in DOMAIN Tail(c) :
        /\ Tail(c)[n] # Hello
        /\ Tail(c)[n] = Eof => n = Len(Tail(c)) /\ ~up
  BY <1>1, <1>2, <1>3 DEF FramedAs
<1> QED
  BY <1>1, <1>4 DEF FramedAs

LEMMA FramedPlain ==
    ASSUME NEW S, NEW c \in Seq(S), NEW up \in BOOLEAN, NEW named \in BOOLEAN,
           FramedAs(c, up, named), c # <<>>, Plain(Head(c))
    PROVE  named /\ FramedAs(Tail(c), up, named)
<1>1. Plain(c[1]) /\ 1 \in DOMAIN c /\ Len(c) \in Nat /\ DOMAIN c = 1 .. Len(c) /\ Len(c) >= 1
  OBVIOUS
<1>2. named
  BY <1>1 DEF FramedAs, Plain
<1>3. Tail(c) \in Seq(S) /\ DOMAIN Tail(c) = 1 .. Len(c) - 1 /\ Len(Tail(c)) = Len(c) - 1
  BY <1>1
<1>4. \A n \in DOMAIN Tail(c) : Tail(c)[n] = c[n + 1] /\ n + 1 \in DOMAIN c /\ n \in Nat /\ n >= 1
  BY <1>1, <1>3
<1>5. \A n \in DOMAIN Tail(c) :
        /\ Tail(c)[n] # Hello
        /\ Tail(c)[n] = Eof => n = Len(Tail(c)) /\ ~up
  BY <1>1, <1>2, <1>3, <1>4 DEF FramedAs
<1> QED
  BY <1>2, <1>5 DEF FramedAs

LEMMA FramedEof ==
    ASSUME NEW S, NEW c \in Seq(S), NEW up \in BOOLEAN, NEW named \in BOOLEAN,
           FramedAs(c, up, named), c # <<>>, Head(c) = Eof
    PROVE  ~up /\ Tail(c) = <<>> /\ FramedAs(Tail(c), up, FALSE)
<1>1. c[1] = Eof /\ 1 \in DOMAIN c /\ Len(c) \in Nat /\ Len(c) >= 1
  OBVIOUS
<1>2. Len(c) = 1 /\ ~up
  BY <1>1 DEF FramedAs
<1>3. Tail(c) \in Seq(S) /\ Len(Tail(c)) = 0
  BY <1>1, <1>2
<1>4. Tail(c) = <<>>
  BY <1>3, EmptySeq
<1>5. DOMAIN Tail(c) = {}
  BY <1>4
<1> QED
  BY <1>2, <1>4, <1>5 DEF FramedAs

LEMMA FramedNews ==
    ASSUME NEW S, NEW c \in Seq(S), \A n \in DOMAIN c : Plain(c[n])
    PROVE  FramedAs(<<Hello>> \o c, TRUE, FALSE)
<1> DEFINE d == <<Hello>> \o c
<1>1. d \in Seq(S \cup {Hello}) /\ Len(d) = Len(c) + 1 /\ DOMAIN d = 1 .. Len(c) + 1 /\ DOMAIN c = 1 .. Len(c) /\ Len(c) \in Nat
  OBVIOUS
<1>2. d[1] = Hello /\ d # <<>>
  BY <1>1
<1>3. \A n \in 2 .. Len(c) + 1 : d[n] = c[n - 1] /\ n - 1 \in DOMAIN c
  BY <1>1
<1> HIDE DEF d
<1>4. Hello # Eof
  BY DEF Hello, Eof
<1>5. ASSUME NEW n \in DOMAIN d PROVE (d[n] = Hello => n = 1) /\ d[n] # Eof
  <2>1. CASE n = 1
    BY <1>2, <1>4, <2>1
  <2>2. CASE n # 1
    <3>1. n \in 2 .. Len(c) + 1
      BY <1>1, <2>2
    <3>2. d[n] = c[n - 1] /\ n - 1 \in DOMAIN c
      BY <1>3, <3>1
    <3>3. Plain(c[n - 1])
      BY <3>2
    <3> QED
      BY <3>2, <3>3 DEF Plain
  <2> QED
    BY <2>1, <2>2
<1> QED
  BY <1>2, <1>5 DEF FramedAs, d

LEMMA FramedCut ==
    ASSUME NEW S, NEW c \in Seq(S), NEW named \in BOOLEAN,
           FramedAs(c, TRUE, named), NEW n \in 0 .. Len(c)
    PROVE  FramedAs(Append(SubSeq(c, 1, n), Eof), FALSE, named)
<1> DEFINE b == SubSeq(c, 1, n)
           d == Append(b, Eof)
<1>1. b \in Seq(S) /\ Len(b) = n /\ n \in Nat /\ DOMAIN b = 1 .. n /\ DOMAIN c = 1 .. Len(c) /\ Len(c) \in Nat /\ n <= Len(c)
  OBVIOUS
<1>2. \A i \in 1 .. n : b[i] = c[i] /\ i \in DOMAIN c /\ 1 \in DOMAIN c /\ 1 \in 1 .. n
  BY <1>1
<1> HIDE DEF b
<1>3. Len(d) = n + 1 /\ DOMAIN d = 1 .. n + 1 /\ d[n + 1] = Eof
  BY <1>1
<1>4. \A i \in 1 .. n : d[i] = b[i]
  BY <1>1
<1> HIDE DEF d
<1>5. Hello # Eof
  BY DEF Hello, Eof
<1>6. ASSUME NEW i \in DOMAIN d
      PROVE  /\ d[i] = Hello => i = 1 /\ ~named
             /\ d[i] = Eof => i = Len(d) /\ ~FALSE
             /\ d[i] \notin {Hello, Eof} => named \/ d[1] = Hello
  <2>1. CASE i \in 1 .. n
    <3>1. d[i] = c[i] /\ d[1] = c[1] /\ i \in DOMAIN c
      BY <2>1, <1>2, <1>4
    <3> QED
      BY <3>1 DEF FramedAs
  <2>2. CASE i = n + 1
    BY <2>2, <1>3, <1>5
  <2> QED
    BY <1>1, <1>3, <2>1, <2>2
<1> QED
  BY <1>6 DEF FramedAs, d, b

-----------------------------------------------------------------------------
(* What the actions of PeerLinks do to the links.                          *)

\* What a set of messages must have: the header, the close, and only these with
\* their op.
Kinds(M) ==
    /\ Hello \in M /\ Eof \in M
    /\ \A m \in M :
         /\ m.op = "hello" => m = Hello
         /\ m.op = "eof" => m = Eof
         /\ m.op \notin {"hello", "eof"} => Plain(m)

LEMMA FramedSame ==
    ASSUME NEW r \in Peer, NEW t \in Peer, Framed(r, t),
           link'[r][t] = link[r][t], chan'[r][t] = chan[r][t], r \in conn'[t] <=> r \in conn[t]
    PROVE  Framed(r, t)'
  BY DEF Framed, FramedAs

LEMMA LinksUntouched ==
    ASSUME NEW M, Kinds(M), LinksOK(M), AllFramed, UNCHANGED links
    PROVE  LinksOK(M)' /\ AllFramed'
  BY DEF LinksOK, AllFramed, Framed, FramedAs, links

LEMMA LinksToOthers ==
    ASSUME NEW M, Kinds(M), LinksOK(M), AllFramed, NEW p \in Peer, NEW m \in M, Plain(m),
           chan' = ToOthers(p, m), UNCHANGED <<link, conn, breaks>>
    PROVE  LinksOK(M)' /\ AllFramed'
<1>1. \A r, t \in Peer : chan'[r][t] = IF r = p /\ link[p][t] = "up" THEN Append(chan[r][t], m) ELSE chan[r][t]
  BY DEF ToOthers, LinksOK
<1>2. chan' \in [Peer -> [Peer -> Seq(M)]]
  <2>1. \A t \in Peer : chan[p][t] \in Seq(M) /\ Append(chan[p][t], m) \in Seq(M)
    BY DEF LinksOK
  <2>2. [t \in Peer |-> IF link[p][t] = "up" THEN Append(chan[p][t], m) ELSE chan[p][t]] \in [Peer -> Seq(M)]
    BY <2>1
  <2> QED
    BY <2>2 DEF ToOthers, LinksOK
<1>3. ASSUME NEW r \in Peer, NEW t \in Peer PROVE Framed(r, t)'
  <2>1. CASE r = p /\ link[p][t] = "up"
    <3>1. chan[r][t] \in Seq(M)
      BY DEF LinksOK
    <3>2. FramedAs(chan[r][t], TRUE, r \in conn[t]) /\ r # t
      BY <2>1 DEF AllFramed, Framed
    <3>3. FramedAs(Append(chan[r][t], m), TRUE, r \in conn[t])
      BY <3>1, <3>2, FramedAppend, (r \in conn[t]) \in BOOLEAN, Zenon
    <3>4. chan'[r][t] = Append(chan[r][t], m) /\ link'[r][t] = "up" /\ conn' = conn
      BY <1>1, <2>1
    <3> QED
      BY <3>2, <3>3, <3>4 DEF Framed, FramedAs
  <2>2. CASE ~(r = p /\ link[p][t] = "up")
    <3>1. chan'[r][t] = chan[r][t] /\ Framed(r, t)
      BY <1>1, <2>2 DEF AllFramed
    <3> QED
      BY <3>1, FramedSame
  <2> QED
    BY <2>1, <2>2
<1> QED
  BY <1>2, <1>3 DEF LinksOK, AllFramed

\* What holds of the pairs that an action leaves alone.
LEMMA LinksElsewhere ==
    ASSUME AllFramed, NEW p \in Peer, NEW q \in Peer, Framed(p, q)',
           \A r, t \in Peer : <<r, t>> # <<p, q>> =>
             /\ link'[r][t] = link[r][t]
             /\ chan'[r][t] = chan[r][t]
             /\ r \in conn'[t] <=> r \in conn[t]
    PROVE  AllFramed'
<1>1. ASSUME NEW r \in Peer, NEW t \in Peer PROVE Framed(r, t)'
  <2>1. CASE r = p /\ t = q
    BY <2>1
  <2>2. CASE ~(r = p /\ t = q)
    BY <2>2, FramedSame DEF AllFramed
  <2> QED
    BY <2>1, <2>2
<1> QED
  BY <1>1 DEF AllFramed

LEMMA LinksThrough ==
    ASSUME NEW M, Kinds(M), LinksOK(M), AllFramed, NEW p \in Peer, NEW q \in Peer,
           NEW news \in Seq(M), \A n \in DOMAIN news : Plain(news[n]), GetThrough(p, q, news)
    PROVE  LinksOK(M)' /\ AllFramed'
<1>1. <<Hello>> \o news \in Seq(M)
  BY DEF Kinds
<1>2. LinksOK(M)'
  BY <1>1 DEF LinksOK, GetThrough
<1>3. link'[p][q] = "up" /\ chan'[p][q] = <<Hello>> \o news /\ p \notin conn'[q] /\ p # q
  BY DEF LinksOK, GetThrough
<1>4. FramedAs(<<Hello>> \o news, TRUE, FALSE)
  BY FramedNews
<1>5. Framed(p, q)'
  BY <1>3, <1>4 DEF Framed, FramedAs
<1>6. \A r, t \in Peer : <<r, t>> # <<p, q>> =>
        link'[r][t] = link[r][t] /\ chan'[r][t] = chan[r][t] /\ (r \in conn'[t] <=> r \in conn[t])
  BY DEF LinksOK, GetThrough
<1> QED
  BY <1>2, <1>5, <1>6, LinksElsewhere

LEMMA LinksBreak ==
    ASSUME NEW M, Kinds(M), LinksOK(M), AllFramed, NEW p \in Peer, NEW q \in Peer, Break(p, q)
    PROVE  LinksOK(M)' /\ AllFramed'
<1> DEFINE c == chan[p][q]
<1>1. PICK n \in 0 .. Len(c) : chan' = [chan EXCEPT ![p][q] = Append(SubSeq(@, 1, n), Eof)]
  BY DEF Break
<1> DEFINE d == Append(SubSeq(c, 1, n), Eof)
<1>2. c \in Seq(M)
  BY DEF LinksOK
<1>3. SubSeq(c, 1, n) \in Seq(M)
  BY <1>1, <1>2
<1>4. d \in Seq(M)
  BY <1>3 DEF Kinds
<1>5. chan' \in [Peer -> [Peer -> Seq(M)]] /\ chan'[p][q] = d
  BY <1>1, <1>4 DEF LinksOK
<1>6. LinksOK(M)'
  BY <1>5, BreaksAssumption DEF LinksOK, Break
<1>7. FramedAs(c, TRUE, p \in conn[q]) /\ p # q
  BY DEF Break, AllFramed, Framed
<1>8. FramedAs(d, FALSE, p \in conn[q])
  BY <1>1, <1>2, <1>7, FramedCut, (p \in conn[q]) \in BOOLEAN, Zenon
<1>9. link'[p][q] = "dialing" /\ conn' = conn
  BY DEF Break, LinksOK
<1>10. Framed(p, q)'
  BY <1>5, <1>7, <1>8, <1>9 DEF Framed, FramedAs
<1>11. \A r, t \in Peer : <<r, t>> # <<p, q>> =>
        link'[r][t] = link[r][t] /\ chan'[r][t] = chan[r][t] /\ (r \in conn'[t] <=> r \in conn[t])
  BY <1>1 DEF LinksOK, Break
<1> QED
  BY <1>6, <1>10, <1>11, LinksElsewhere

LEMMA LinksRestart ==
    ASSUME NEW M, Kinds(M), LinksOK(M), AllFramed, NEW p \in Peer, Restart(p)
    PROVE  LinksOK(M)' /\ AllFramed'
<1>1. \A r, t \in Peer :
        /\ link'[r][t] = IF p \in {t, r} THEN "dialing" ELSE link[r][t]
        /\ chan'[r][t] = IF r = p /\ link[r][t] = "up" THEN Append(chan[r][t], Eof)
                         ELSE IF t = p THEN <<>> ELSE chan[r][t]
        /\ conn'[t] = IF t = p THEN {} ELSE conn[t]
  BY DEF Restart, LinksOK
<1>2. link' \in [Peer -> [Peer -> {"dialing", "up"}]]
  <2>1. \A r, t \in Peer : (IF p \in {t, r} THEN "dialing" ELSE link[r][t]) \in {"dialing", "up"}
    BY DEF LinksOK
  <2> QED
    BY <2>1 DEF Restart
<1>3. chan' \in [Peer -> [Peer -> Seq(M)]]
  <2>1. \A r, t \in Peer : chan[r][t] \in Seq(M) /\ Append(chan[r][t], Eof) \in Seq(M) /\ <<>> \in Seq(M)
    BY DEF LinksOK, Kinds
  <2> QED
    BY <2>1 DEF Restart
<1>4. conn' \in [Peer -> SUBSET Peer] /\ breaks' \in 0 .. MaxBreaks
  BY BreaksAssumption DEF Restart, LinksOK
<1>5. ASSUME NEW r \in Peer, NEW t \in Peer PROVE Framed(r, t)'
  <2>1. CASE r = p /\ link[r][t] = "up"
    <3> DEFINE c == chan[r][t]
    <3>1. c \in Seq(M)
      BY DEF LinksOK
    <3>2. FramedAs(c, TRUE, r \in conn[t]) /\ r # t
      BY <2>1 DEF AllFramed, Framed
    <3>3. Len(c) \in 0 .. Len(c) /\ SubSeq(c, 1, Len(c)) = c
      BY <3>1, SubSeqFull, LenProperties
    <3>4. FramedAs(Append(SubSeq(c, 1, Len(c)), Eof), FALSE, r \in conn[t])
      BY <3>1, <3>2, <3>3, FramedCut, (r \in conn[t]) \in BOOLEAN, Zenon
    <3>5. chan'[r][t] = Append(c, Eof) /\ link'[r][t] = "dialing" /\ conn'[t] = conn[t]
      BY <1>1, <2>1, <3>2
    <3> QED
      BY <3>2, <3>3, <3>4, <3>5 DEF Framed, FramedAs
  <2>2. CASE ~(r = p /\ link[r][t] = "up") /\ t = p
    <3>1. chan'[r][t] = <<>> /\ link'[r][t] = "dialing"
      BY <1>1, <2>2
    <3> QED
      BY <3>1 DEF Framed, FramedAs
  <2>3. CASE r = p /\ link[r][t] # "up" /\ t # p
    <3>1. link[r][t] = "dialing"
      BY <2>3 DEF LinksOK
    <3>2. link'[r][t] = link[r][t] /\ chan'[r][t] = chan[r][t] /\ conn'[t] = conn[t]
      BY <1>1, <2>3, <3>1
    <3> QED
      BY <3>2, FramedSame DEF AllFramed
  <2>4. CASE r # p /\ t # p
    <3>1. link'[r][t] = link[r][t] /\ chan'[r][t] = chan[r][t] /\ conn'[t] = conn[t]
      BY <1>1, <2>4
    <3> QED
      BY <3>1, FramedSame DEF AllFramed
  <2> QED
    BY <2>1, <2>2, <2>3, <2>4
<1> QED
  BY <1>2, <1>3, <1>4, <1>5 DEF LinksOK, AllFramed

\* What a read does to the channels.
LEMMA TakenFacts ==
    ASSUME NEW M, Kinds(M), LinksOK(M), NEW p \in Peer, NEW q \in Peer, chan[p][q] # <<>>, Taken(p, q)
    PROVE  /\ chan' \in [Peer -> [Peer -> Seq(M)]]
           /\ chan'[p][q] = Tail(chan[p][q])
           /\ chan[p][q] \in Seq(M) /\ Head(chan[p][q]) \in M
           /\ \A r, t \in Peer : <<r, t>> # <<p, q>> => chan'[r][t] = chan[r][t]
<1>1. chan[p][q] \in Seq(M)
  BY DEF LinksOK
<1>2. Tail(chan[p][q]) \in Seq(M) /\ Head(chan[p][q]) \in M
  BY <1>1
<1> QED
  BY <1>1, <1>2 DEF Taken, LinksOK

LEMMA LinksHello ==
    ASSUME NEW M, Kinds(M), LinksOK(M), AllFramed, NEW p \in Peer, NEW q \in Peer, ReadHeader(p, q)
    PROVE  LinksOK(M)' /\ AllFramed'
<1> USE DEF ReadHeader, Reading
<1> DEFINE c == chan[p][q]
<1>0. c \in Seq(M) /\ c # <<>> /\ Head(c) \in M
  BY TakenFacts
<1>1. c \in Seq(M) /\ c # <<>> /\ Head(c) = Hello
  <2>1. \A m \in M : m.op = "hello" => m = Hello
    BY DEF Kinds
  <2>2. Head(c).op = "hello"
    OBVIOUS
  <2> HIDE DEF c
  <2> QED
    BY <1>0, <2>1, <2>2
<1>2. LinksOK(M)'
  BY TakenFacts DEF LinksOK
<1>3. FramedAs(c, link[p][q] = "up", p \in conn[q]) /\ p # q
  BY <1>1 DEF AllFramed, Framed
<1>4. FramedAs(Tail(c), link[p][q] = "up", TRUE)
  BY <1>1, <1>3, FramedHello, (p \in conn[q]) \in BOOLEAN, (link[p][q] = "up") \in BOOLEAN, Zenon
<1>5. chan'[p][q] = Tail(c) /\ p \in conn'[q] /\ link' = link
  BY TakenFacts DEF LinksOK
<1>6. Framed(p, q)'
  BY <1>3, <1>4, <1>5 DEF Framed, FramedAs
<1>7. ASSUME NEW r \in Peer, NEW t \in Peer, <<r, t>> # <<p, q>>
      PROVE link'[r][t] = link[r][t] /\ chan'[r][t] = chan[r][t] /\ (r \in conn'[t] <=> r \in conn[t])
  <2>1. link'[r][t] = link[r][t] /\ chan'[r][t] = chan[r][t]
    BY <1>7, TakenFacts
  <2>2. CASE t = q
    <3>1. r # p
      BY <1>7, <2>2
    <3> QED
      BY <2>1, <2>2, <3>1 DEF LinksOK
  <2>3. CASE t # q
    BY <2>1, <2>3 DEF LinksOK
  <2> QED
    BY <2>2, <2>3
<1> QED
  BY <1>2, <1>6, <1>7, LinksElsewhere

LEMMA LinksEnd ==
    ASSUME NEW M, Kinds(M), LinksOK(M), AllFramed, NEW p \in Peer, NEW q \in Peer, ReadEnd(p, q)
    PROVE  LinksOK(M)' /\ AllFramed'
<1> USE DEF ReadEnd, Reading
<1> DEFINE c == chan[p][q]
<1>0. c \in Seq(M) /\ c # <<>> /\ Head(c) \in M
  BY TakenFacts
<1>1. c \in Seq(M) /\ c # <<>> /\ Head(c) = Eof
  <2>1. \A m \in M : m.op = "eof" => m = Eof
    BY DEF Kinds
  <2>2. Head(c).op = "eof"
    OBVIOUS
  <2> HIDE DEF c
  <2> QED
    BY <1>0, <2>1, <2>2
<1>2. LinksOK(M)'
  BY TakenFacts DEF LinksOK
<1>3. FramedAs(c, link[p][q] = "up", p \in conn[q]) /\ p # q
  BY <1>1 DEF AllFramed, Framed
<1>4. link[p][q] # "up" /\ Tail(c) = <<>>
  BY <1>1, <1>3, FramedEof, (p \in conn[q]) \in BOOLEAN, (link[p][q] = "up") \in BOOLEAN, Zenon
<1>5. chan'[p][q] = <<>> /\ link'[p][q] # "up"
  BY <1>4, TakenFacts DEF LinksOK
<1>6. Framed(p, q)'
  BY <1>5 DEF Framed, FramedAs
<1>7. ASSUME NEW r \in Peer, NEW t \in Peer, <<r, t>> # <<p, q>>
      PROVE link'[r][t] = link[r][t] /\ chan'[r][t] = chan[r][t] /\ (r \in conn'[t] <=> r \in conn[t])
  <2>1. link'[r][t] = link[r][t] /\ chan'[r][t] = chan[r][t]
    BY <1>7, TakenFacts
  <2>2. CASE t = q
    <3>1. r # p
      BY <1>7, <2>2
    <3> QED
      BY <2>1, <2>2, <3>1 DEF LinksOK
  <2>3. CASE t # q
    BY <2>1, <2>3 DEF LinksOK
  <2> QED
    BY <2>2, <2>3
<1> QED
  BY <1>2, <1>6, <1>7, LinksElsewhere

LEMMA LinksPlain ==
    ASSUME NEW M, Kinds(M), LinksOK(M), AllFramed, NEW p \in Peer, NEW q \in Peer,
           NEW o, o \notin {"hello", "eof"}, Reading(p, q, o), Taken(p, q),
           UNCHANGED <<link, conn, breaks>>
    PROVE  /\ LinksOK(M)' /\ AllFramed'
           /\ p # q /\ p \in conn[q]
           /\ Head(chan[p][q]) \in M /\ Head(chan[p][q]).op = o
<1> USE DEF Reading
<1> DEFINE c == chan[p][q]
<1>0. c \in Seq(M) /\ c # <<>> /\ Head(c) \in M
  BY TakenFacts
<1>1. c \in Seq(M) /\ c # <<>> /\ Plain(Head(c))
  <2>1. \A m \in M : m.op \notin {"hello", "eof"} => Plain(m)
    BY DEF Kinds
  <2>2. Head(c).op \notin {"hello", "eof"}
    OBVIOUS
  <2> HIDE DEF c
  <2> QED
    BY <1>0, <2>1, <2>2
<1>2. LinksOK(M)'
  BY TakenFacts DEF LinksOK
<1>3. FramedAs(c, link[p][q] = "up", p \in conn[q]) /\ p # q
  BY <1>1 DEF AllFramed, Framed
<1>4. p \in conn[q] /\ FramedAs(Tail(c), link[p][q] = "up", p \in conn[q])
  <2> HIDE DEF c
  <2>1. \A up, named \in BOOLEAN : FramedAs(c, up, named) => named /\ FramedAs(Tail(c), up, named)
    BY <1>1, FramedPlain
  <2> QED
    BY <1>3, <2>1, (p \in conn[q]) \in BOOLEAN, (link[p][q] = "up") \in BOOLEAN, Zenon
<1>5. chan'[p][q] = Tail(c)
  BY TakenFacts
<1>6. Framed(p, q)'
  BY <1>3, <1>4, <1>5 DEF Framed, FramedAs
<1>7. \A r, t \in Peer : <<r, t>> # <<p, q>> =>
        link'[r][t] = link[r][t] /\ chan'[r][t] = chan[r][t] /\ (r \in conn'[t] <=> r \in conn[t])
  <2>1. \A r, t \in Peer : <<r, t>> # <<p, q>> => chan'[r][t] = chan[r][t]
    BY <1>0, TakenFacts
  <2> QED
    BY <2>1
<1> QED
  BY <1>0, <1>1, <1>2, <1>3, <1>4, <1>6, <1>7, LinksElsewhere

\* A message to one peer.
LEMMA LinksToOne ==
    ASSUME NEW M, Kinds(M), LinksOK(M), AllFramed, NEW p \in Peer, NEW q \in Peer,
           NEW m \in M, Plain(m), link[p][q] = "up",
           chan' = [chan EXCEPT ![p][q] = Append(@, m)], UNCHANGED <<link, conn, breaks>>
    PROVE  LinksOK(M)' /\ AllFramed'
<1> DEFINE c == chan[p][q]
<1>1. c \in Seq(M) /\ Append(c, m) \in Seq(M)
  BY DEF LinksOK
<1>2. chan' \in [Peer -> [Peer -> Seq(M)]] /\ chan'[p][q] = Append(c, m)
  BY <1>1 DEF LinksOK
<1>3. FramedAs(c, TRUE, p \in conn[q]) /\ p # q
  BY DEF AllFramed, Framed
<1>4. FramedAs(Append(c, m), TRUE, p \in conn[q])
  <2> HIDE DEF c
  <2>1. \A named \in BOOLEAN : FramedAs(c, TRUE, named) => FramedAs(Append(c, m), TRUE, named)
    BY <1>1, FramedAppend
  <2> QED
    BY <1>3, <2>1, (p \in conn[q]) \in BOOLEAN, Zenon
<1>5. Framed(p, q)'
  BY <1>2, <1>3, <1>4 DEF Framed, FramedAs
<1>6. \A r, t \in Peer : <<r, t>> # <<p, q>> =>
        link'[r][t] = link[r][t] /\ chan'[r][t] = chan[r][t] /\ (r \in conn'[t] <=> r \in conn[t])
  BY DEF LinksOK
<1> QED
  BY <1>2, <1>5, <1>6, LinksElsewhere DEF LinksOK

\* A message is read and passed on to another peer.
LEMMA LinksForward ==
    ASSUME NEW M, Kinds(M), LinksOK(M), AllFramed, NEW p \in Peer, NEW q \in Peer, NEW r \in Peer,
           NEW o, o \notin {"hello", "eof"}, Reading(p, q, o), r # q, NEW m \in M, Plain(m),
           link[q][r] = "up",
           chan' = [[chan EXCEPT ![p][q] = Tail(@)] EXCEPT ![q][r] = Append(@, m)],
           UNCHANGED <<link, conn, breaks>>
    PROVE  LinksOK(M)' /\ AllFramed'
<1> DEFINE c == chan[p][q]
           d == chan[q][r]
<1>1. c \in Seq(M) /\ c # <<>> /\ Head(c) \in M /\ d \in Seq(M) /\ Tail(c) \in Seq(M) /\ Append(d, m) \in Seq(M)
  BY DEF LinksOK, Reading
<1>2. Plain(Head(c))
  <2>1. \A k \in M : k.op \notin {"hello", "eof"} => Plain(k)
    BY DEF Kinds
  <2>2. Head(c).op \notin {"hello", "eof"}
    BY DEF Reading
  <2> HIDE DEF c
  <2> QED
    BY <1>1, <2>1, <2>2
<1>3. FramedAs(c, link[p][q] = "up", p \in conn[q]) /\ p # q /\ FramedAs(d, TRUE, q \in conn[r])
  BY <1>1 DEF AllFramed, Framed
<1>4. FramedAs(Tail(c), link[p][q] = "up", p \in conn[q])
  <2> HIDE DEF c, d
  <2>1. \A up, named \in BOOLEAN : FramedAs(c, up, named) => FramedAs(Tail(c), up, named)
    BY <1>1, <1>2, FramedPlain
  <2> QED
    BY <1>3, <2>1, (p \in conn[q]) \in BOOLEAN, (link[p][q] = "up") \in BOOLEAN, Zenon
<1>5. FramedAs(Append(d, m), TRUE, q \in conn[r])
  <2> HIDE DEF c, d
  <2>1. \A named \in BOOLEAN : FramedAs(d, TRUE, named) => FramedAs(Append(d, m), TRUE, named)
    BY <1>1, FramedAppend
  <2> QED
    BY <1>3, <2>1, (q \in conn[r]) \in BOOLEAN, Zenon
<1>6. /\ chan' \in [Peer -> [Peer -> Seq(M)]]
      /\ chan'[p][q] = Tail(c) /\ chan'[q][r] = Append(d, m)
      /\ \A s, t \in Peer : <<s, t>> # <<p, q>> /\ <<s, t>> # <<q, r>> => chan'[s][t] = chan[s][t]
  <2> DEFINE e == [chan EXCEPT ![p][q] = Tail(@)]
  <2>1. e \in [Peer -> [Peer -> Seq(M)]] /\ e[p][q] = Tail(c) /\ e[q][r] = d
        /\ \A s, t \in Peer : <<s, t>> # <<p, q>> => e[s][t] = chan[s][t]
    BY <1>1, <1>3 DEF LinksOK
  <2>2. chan' = [e EXCEPT ![q][r] = Append(@, m)]
    OBVIOUS
  <2> HIDE DEF e, c, d
  <2> DEFINE row == [e[q] EXCEPT ![r] = Append(d, m)]
  <2>3. chan' = [e EXCEPT ![q] = row]
    BY <2>1, <2>2
  <2>4. row \in [Peer -> Seq(M)] /\ row[r] = Append(d, m) /\ \A t \in Peer : t # r => row[t] = e[q][t]
    BY <1>1, <2>1
  <2> HIDE DEF row
  <2>5. chan' \in [Peer -> [Peer -> Seq(M)]] /\ chan'[q] = row /\ \A s \in Peer : s # q => chan'[s] = e[s]
    BY <2>1, <2>3, <2>4
  <2>6. chan'[q][r] = Append(d, m)
    BY <2>4, <2>5
  <2>7. ASSUME NEW s \in Peer, NEW t \in Peer, <<s, t>> # <<q, r>> PROVE chan'[s][t] = e[s][t]
    <3>1. CASE s = q
      BY <2>4, <2>5, <2>7, <3>1
    <3>2. CASE s # q
      BY <2>5, <3>2
    <3> QED
      BY <3>1, <3>2
  <2>8. <<p, q>> # <<q, r>>
    BY <1>3
  <2>9. chan'[p][q] = Tail(c)
    BY <2>1, <2>7, <2>8
  <2>10. ASSUME NEW s \in Peer, NEW t \in Peer, <<s, t>> # <<p, q>>, <<s, t>> # <<q, r>>
         PROVE  chan'[s][t] = chan[s][t]
    <3>1. chan'[s][t] = e[s][t]
      BY <2>7, <2>10
    <3>2. e[s][t] = chan[s][t]
      BY <2>1, <2>10
    <3> QED
      BY <3>1, <3>2
  <2> QED
    BY <2>5, <2>6, <2>9, <2>10
<1>7. ASSUME NEW s \in Peer, NEW t \in Peer PROVE Framed(s, t)'
  <2>1. CASE s = p /\ t = q
    BY <1>3, <1>4, <1>6, <2>1 DEF Framed, FramedAs
  <2>2. CASE s = q /\ t = r
    BY <1>3, <1>5, <1>6, <2>2 DEF Framed, FramedAs
  <2>3. CASE <<s, t>> # <<p, q>> /\ <<s, t>> # <<q, r>>
    BY <1>6, <2>3, FramedSame DEF AllFramed
  <2> QED
    BY <2>1, <2>2, <2>3
<1> QED
  BY <1>6, <1>7 DEF LinksOK, AllFramed

-----------------------------------------------------------------------------
(* What is left of a channel when a message is read, and when one is        *)
(* written.                                                                *)

LEMMA TailParts ==
    ASSUME NEW S, NEW c \in Seq(S), c # <<>>
    PROVE  /\ Len(c) \in Nat /\ Len(c) >= 1 /\ DOMAIN c = 1 .. Len(c) /\ Head(c) = c[1]
           /\ DOMAIN Tail(c) = 1 .. Len(c) - 1 /\ Len(Tail(c)) = Len(c) - 1
           /\ \A i \in DOMAIN Tail(c) : Tail(c)[i] = c[i + 1] /\ i + 1 \in DOMAIN c
           /\ \A i \in DOMAIN c : i # 1 => i - 1 \in DOMAIN Tail(c) /\ Tail(c)[i - 1] = c[i]
<1>1. Len(c) \in Nat /\ Len(c) >= 1 /\ DOMAIN c = 1 .. Len(c) /\ Head(c) = c[1]
  OBVIOUS
<1>2. Tail(c) \in Seq(S) /\ DOMAIN Tail(c) = 1 .. Len(c) - 1 /\ Len(Tail(c)) = Len(c) - 1
  BY <1>1
<1>3. \A i \in DOMAIN Tail(c) : Tail(c)[i] = c[i + 1] /\ i + 1 \in DOMAIN c
  BY <1>1, <1>2
<1>4. \A i \in DOMAIN c : i # 1 => i - 1 \in DOMAIN Tail(c) /\ (i - 1) + 1 = i
  BY <1>1, <1>2
<1> QED
  BY <1>1, <1>2, <1>3, <1>4

LEMMA AppendParts ==
    ASSUME NEW S, NEW c \in Seq(S), NEW m
    PROVE  /\ Len(c) \in Nat /\ DOMAIN c = 1 .. Len(c)
           /\ DOMAIN Append(c, m) = 1 .. Len(c) + 1 /\ Len(Append(c, m)) = Len(c) + 1
           /\ \A i \in DOMAIN c : Append(c, m)[i] = c[i]
           /\ Append(c, m)[Len(c) + 1] = m
           /\ Append(c, m) # <<>>
<1>1. c \in Seq(S \cup {m}) /\ m \in S \cup {m}
  OBVIOUS
<1>2. Append(c, m) \in Seq(S \cup {m}) /\ Len(Append(c, m)) = Len(c) + 1
  BY <1>1, AppendProperties
<1> QED
  BY <1>1, <1>2, AppendProperties

\* The close of the socket is the last thing in the channel.
Closing(c) == c # <<>> /\ c[Len(c)] = Eof

LEMMA ClosingTail ==
    ASSUME NEW S, NEW c \in Seq(S), Closing(c), Head(c) # Eof
    PROVE  Closing(Tail(c))
<1>0. c # <<>>
  BY DEF Closing
<1>1. c[Len(c)] = Eof /\ Len(c) \in DOMAIN c /\ Len(c) # 1
  BY <1>0, TailParts DEF Closing
<1>2. Len(c) - 1 \in DOMAIN Tail(c) /\ Tail(c)[Len(c) - 1] = Eof /\ Len(Tail(c)) = Len(c) - 1
  BY <1>0, <1>1, TailParts
<1>3. Tail(c) # <<>>
  <2>1. DOMAIN <<>> = {}
    OBVIOUS
  <2> QED
    BY <1>2, <2>1
<1> QED
  BY <1>2, <1>3 DEF Closing

LEMMA ClosingAppend ==
    ASSUME NEW S, NEW c \in Seq(S)
    PROVE  Closing(Append(c, Eof))
<1>1. Append(c, Eof)[Len(c) + 1] = Eof /\ Len(Append(c, Eof)) = Len(c) + 1 /\ Append(c, Eof) # <<>>
  BY AppendParts
<1> QED
  BY <1>1 DEF Closing

=============================================================================
