------------------------ MODULE PeerDirectoryProofs ------------------------
(* Proofs about PeerDirectory, for every set of peers and of ids and any   *)
(* number of starts, breaks and restarts.                                  *)
EXTENDS PeerDirectory, PeerLinksProofs, FiniteSetTheorems

LEMMA MsgKinds ==
    /\ Kinds(Msg)
    /\ \A m \in Msg : /\ m.op = "hello" => m = Hello
                      /\ m.op = "eof" => m = Eof
                      /\ m.op \in {"added", "removed"} => Plain(m) /\ m.id \in Id
    /\ \A s \in Id, o \in {"added", "removed"} :
         [op |-> o, id |-> s] \in Msg /\ Plain([op |-> o, id |-> s])
<1>1. \A m \in Msg : m.op = "hello" => m = Hello
  BY DEF Msg, Hello
<1>2. \A m \in Msg : m.op = "eof" => m = Eof
  BY DEF Msg, Eof
<1>3. \A m \in Msg : m.op \in {"added", "removed"} => Plain(m) /\ m.id \in Id
  BY DEF Msg, Plain, Hello, Eof
<1>4. \A s \in Id, o \in {"added", "removed"} : [op |-> o, id |-> s] \in Msg /\ Plain([op |-> o, id |-> s])
  <2> SUFFICES ASSUME NEW s \in Id, NEW o \in {"added", "removed"}
               PROVE [op |-> o, id |-> s] \in Msg /\ Plain([op |-> o, id |-> s])
    OBVIOUS
  <2>1. [op |-> o, id |-> s] \in Msg
    BY DEF Msg
  <2>2. [op |-> o, id |-> s].op = o /\ Hello.op = "hello" /\ Eof.op = "eof" /\ o # "hello" /\ o # "eof"
    BY DEF Hello, Eof
  <2>3. [op |-> o, id |-> s] # Hello /\ [op |-> o, id |-> s] # Eof
    BY <2>2
  <2> QED
    BY <2>1, <2>3 DEF Plain
<1>5. \A m \in Msg : m.op \notin {"hello", "eof"} => m.op \in {"added", "removed"}
  BY DEF Msg
<1>6. Hello \in Msg /\ Eof \in Msg
  BY DEF Msg, Hello, Eof
<1>7. Kinds(Msg)
  BY <1>1, <1>2, <1>3, <1>5, <1>6 DEF Kinds
<1> QED
  BY <1>1, <1>2, <1>3, <1>4, <1>7

-----------------------------------------------------------------------------
(* The maps.                                                               *)

USE DEF ends, history

\* An id whose Session object is there although an end of it is yet to be
\* announced has come again in between, or stays with the session.
Overtaken == \A p \in Peer, s \in Id :
    object[p][s] # "none" /\ s \in leaving[p] => s \in hasty \/ <<s, s>> \in changing[p]

\* Whoever is to arrive is there, or was closed by an older session, and that is
\* one of a user who had two.
Owed ==
    /\ \A p \in Peer, s \in Id : Arriving(p, s) => object[p][s] # "none" \/ s \in undone
    /\ undone \subseteq hasty
    /\ \A p \in Peer : older[p] \subseteq hasty

\* The inductive invariant.
IInv == TypeOK /\ Attached /\ Hosted /\ Overtaken /\ Owed

MapsOK ==
    /\ sessions \in [Peer -> [Id -> Peer \cup {None}]]
    /\ brought \in [Peer -> [Peer -> SUBSET Id]]

LEMMA AddedFacts ==
    ASSUME MapsOK, NEW p \in Peer, NEW q \in Peer, NEW s \in Id, Added(p, s, q)
    PROVE  /\ MapsOK'
           /\ \A r \in Peer, t \in Id :
                sessions'[r][t] = IF r = p /\ t = s THEN q ELSE sessions[r][t]
           /\ \A r, u \in Peer, t \in Id : t \in brought'[r][u] <=>
                IF r # p \/ t # s THEN t \in brought[r][u] ELSE u = q /\ q # p
<1>1. \A r \in Peer, t \in Id : sessions'[r][t] = IF r = p /\ t = s THEN q ELSE sessions[r][t]
  BY DEF Added, MapsOK
<1>3. sessions' \in [Peer -> [Id -> Peer \cup {None}]]
  BY DEF Added, MapsOK
<1>4. brought' \in [Peer -> [Peer -> SUBSET Id]]
  <2>1. [r \in Peer |-> IF r = q /\ q # p THEN brought[p][r] \cup {s} ELSE brought[p][r] \ {s}] \in [Peer -> SUBSET Id]
    BY DEF MapsOK
  <2> QED
    BY <2>1 DEF Added, MapsOK
<1>5. \A r, u \in Peer, t \in Id : t \in brought'[r][u] <=>
        IF r # p \/ t # s THEN t \in brought[r][u] ELSE u = q /\ q # p
  <2> SUFFICES ASSUME NEW r \in Peer, NEW u \in Peer, NEW t \in Id
               PROVE t \in brought'[r][u] <=>
                       IF r # p \/ t # s THEN t \in brought[r][u] ELSE u = q /\ q # p
    OBVIOUS
  <2>1. CASE r # p
    BY <2>1 DEF Added, MapsOK
  <2>2. CASE r = p
    <3>1. brought'[r] = [v \in Peer |-> IF v = q /\ q # p THEN brought[p][v] \cup {s} ELSE brought[p][v] \ {s}]
      BY <2>2 DEF Added, MapsOK
    <3>2. CASE u = q /\ q # p
      <4>1. brought'[r][u] = brought[p][u] \cup {s}
        BY <3>1, <3>2
      <4> QED
        BY <2>2, <3>2, <4>1
    <3>3. CASE ~(u = q /\ q # p)
      <4>1. brought'[r][u] = brought[p][u] \ {s}
        BY <3>1, <3>3
      <4> QED
        BY <2>2, <3>3, <4>1
    <3> QED
      BY <3>2, <3>3
  <2> QED
    BY <2>1, <2>2
<1> QED
  BY <1>1, <1>3, <1>4, <1>5 DEF MapsOK

LEMMA RemovedFacts ==
    ASSUME MapsOK, NEW p \in Peer, NEW q \in Peer, NEW s \in Id, Removed(p, s, q)
    PROVE  /\ MapsOK'
           /\ \A r \in Peer, t \in Id :
                sessions'[r][t] = IF r = p /\ t = s /\ sessions[p][s] = q THEN None ELSE sessions[r][t]
           /\ \A r, u \in Peer, t \in Id : t \in brought'[r][u] <=>
                /\ t \in brought[r][u]
                /\ ~(r = p /\ u = q /\ p # q /\ t = s /\ sessions[p][s] = q)
<1>1. CASE sessions[p][s] = q
  <2>1. \A r \in Peer, t \in Id : sessions'[r][t] = IF r = p /\ t = s THEN None ELSE sessions[r][t]
    BY <1>1 DEF Removed, MapsOK
  <2>5. sessions' = [sessions EXCEPT ![p][s] = None]
    BY <1>1 DEF Removed
  <2>2. sessions' \in [Peer -> [Id -> Peer \cup {None}]]
    BY <2>5 DEF MapsOK
  <2>3. brought' = IF q = p THEN brought ELSE [brought EXCEPT ![p][q] = @ \ {s}]
    BY <1>1 DEF Removed
  <2>4. brought' \in [Peer -> [Peer -> SUBSET Id]]
    BY <2>3 DEF MapsOK
  <2>6. ASSUME NEW r \in Peer, NEW u \in Peer, NEW t \in Id
        PROVE t \in brought'[r][u] <=> t \in brought[r][u] /\ ~(r = p /\ u = q /\ p # q /\ t = s)
    <3>1. CASE q = p
      BY <3>1, <2>3
    <3>2. CASE q # p /\ r = p /\ u = q
      <4>1. brought'[r][u] = brought[r][u] \ {s}
        BY <3>2, <2>3 DEF MapsOK
      <4> QED
        BY <3>2, <4>1
    <3>3. CASE q # p /\ ~(r = p /\ u = q)
      BY <3>3, <2>3 DEF MapsOK
    <3> QED
      BY <3>1, <3>2, <3>3
  <2> QED
    BY <1>1, <2>1, <2>2, <2>4, <2>6 DEF MapsOK
<1>2. CASE sessions[p][s] # q
  BY <1>2 DEF Removed, MapsOK
<1> QED
  BY <1>1, <1>2

\* Attached, one pair of peers and one id at a time.
LEMMA AttachedBy ==
    ASSUME MapsOK
    PROVE  Attached <=> \A p, q \in Peer, s \in Id :
             /\ s \in brought[p][q] <=> q # p /\ sessions[p][s] = q
             /\ s \in brought[p][q] => q \in conn[p]
  BY DEF Attached, MapsOK

LEMMA AttachedAdded ==
    ASSUME MapsOK, Attached, NEW p \in Peer, NEW q \in Peer, NEW s \in Id,
           Added(p, s, q), UNCHANGED conn, q = p \/ q \in conn[p]
    PROVE  Attached'
<1>1. MapsOK'
  BY AddedFacts
<1>2. ASSUME NEW r \in Peer, NEW u \in Peer, NEW t \in Id
      PROVE  /\ t \in brought'[r][u] <=> u # r /\ sessions'[r][t] = u
             /\ t \in brought'[r][u] => u \in conn'[r]
  <2>1. /\ t \in brought[r][u] <=> u # r /\ sessions[r][t] = u
        /\ t \in brought[r][u] => u \in conn[r]
    BY AttachedBy
  <2>2. sessions'[r][t] = IF r = p /\ t = s THEN q ELSE sessions[r][t]
    BY AddedFacts
  <2>3. t \in brought'[r][u] <=> IF r # p \/ t # s THEN t \in brought[r][u] ELSE u = q /\ q # p
    BY AddedFacts
  <2>4. CASE r # p
    BY <2>1, <2>2, <2>3, <2>4
  <2>5. CASE r = p /\ t # s
    BY <2>1, <2>2, <2>3, <2>5
  <2>6. CASE r = p /\ t = s
    BY <2>1, <2>2, <2>3, <2>6
  <2> QED
    BY <2>4, <2>5, <2>6
<1> QED
  BY <1>1, <1>2 DEF Attached, MapsOK

LEMMA AttachedRemoved ==
    ASSUME MapsOK, Attached, NEW p \in Peer, NEW q \in Peer, NEW s \in Id,
           Removed(p, s, q), UNCHANGED conn
    PROVE  Attached'
<1>1. MapsOK'
  BY RemovedFacts
<1>2. ASSUME NEW r \in Peer, NEW u \in Peer, NEW t \in Id
      PROVE  /\ t \in brought'[r][u] <=> u # r /\ sessions'[r][t] = u
             /\ t \in brought'[r][u] => u \in conn'[r]
  <2>1. /\ t \in brought[r][u] <=> u # r /\ sessions[r][t] = u
        /\ t \in brought[r][u] => u \in conn[r]
    BY AttachedBy
  <2>2. sessions'[r][t] = IF r = p /\ t = s /\ sessions[p][s] = q THEN None ELSE sessions[r][t]
    BY RemovedFacts
  <2>3. t \in brought'[r][u] <=>
          /\ t \in brought[r][u]
          /\ ~(r = p /\ u = q /\ p # q /\ t = s /\ sessions[p][s] = q)
    BY RemovedFacts
  <2>4. CASE r = p /\ t = s /\ sessions[p][s] = q
    <3>1. sessions'[r][t] = None /\ None # u
      BY <2>2, <2>4, NoneAssumption
    <3>2. t \notin brought'[r][u]
      BY <2>1, <2>3, <2>4
    <3> QED
      BY <3>1, <3>2
  <2>5. CASE ~(r = p /\ t = s /\ sessions[p][s] = q)
    <3>1. sessions'[r][t] = sessions[r][t]
      BY <2>2, <2>5
    <3>2. t \in brought'[r][u] <=> t \in brought[r][u]
      BY <2>3, <2>5
    <3> QED
      BY <2>1, <3>1, <3>2
  <2> QED
    BY <2>4, <2>5
<1> QED
  BY <1>1, <1>2 DEF Attached, MapsOK

LEMMA AttachedKept ==
    ASSUME Attached, UNCHANGED <<sessions, brought>>, \A p \in Peer : conn[p] \subseteq conn'[p]
    PROVE  Attached'
  BY DEF Attached

LEMMA ForgetFacts ==
    ASSUME MapsOK, conn \in [Peer -> SUBSET Peer], NEW p \in Peer, NEW q \in Peer, Forget(p, q)
    PROVE  /\ MapsOK'
           /\ \A r \in Peer, t \in Id : sessions'[r][t] =
                IF r = q /\ t \in brought[q][p] /\ sessions[r][t] = p THEN None ELSE sessions[r][t]
           /\ \A r, u \in Peer : brought'[r][u] = IF r = q /\ u = p THEN {} ELSE brought[r][u]
           /\ \A r, u \in Peer : u \in conn'[r] <=> u \in conn[r] /\ ~(r = q /\ u = p)
<1>1. sessions' \in [Peer -> [Id -> Peer \cup {None}]]
  <2>1. [t \in Id |-> IF t \in brought[q][p] /\ sessions[q][t] = p THEN None ELSE sessions[q][t]] \in [Id -> Peer \cup {None}]
    BY DEF MapsOK
  <2> QED
    BY <2>1 DEF Forget, MapsOK
<1>2. brought' \in [Peer -> [Peer -> SUBSET Id]]
  BY DEF Forget, MapsOK
<1>3. \A r \in Peer, t \in Id : sessions'[r][t] =
        IF r = q /\ t \in brought[q][p] /\ sessions[r][t] = p THEN None ELSE sessions[r][t]
  BY DEF Forget, MapsOK
<1>4. \A r, u \in Peer : brought'[r][u] = IF r = q /\ u = p THEN {} ELSE brought[r][u]
  BY DEF Forget, MapsOK
<1>5. \A r, u \in Peer : u \in conn'[r] <=> u \in conn[r] /\ ~(r = q /\ u = p)
  BY DEF Forget, ReadEnd
<1> QED
  BY <1>1, <1>2, <1>3, <1>4, <1>5 DEF MapsOK

LEMMA AttachedForget ==
    ASSUME MapsOK, conn \in [Peer -> SUBSET Peer], Attached,
           NEW p \in Peer, NEW q \in Peer, Forget(p, q)
    PROVE  Attached'
<1>1. MapsOK'
  BY ForgetFacts
<1>2. ASSUME NEW r \in Peer, NEW u \in Peer, NEW t \in Id
      PROVE  /\ t \in brought'[r][u] <=> u # r /\ sessions'[r][t] = u
             /\ t \in brought'[r][u] => u \in conn'[r]
  <2>1. /\ t \in brought[r][u] <=> u # r /\ sessions[r][t] = u
        /\ t \in brought[r][u] => u \in conn[r]
        /\ t \in brought[q][p] <=> p # q /\ sessions[q][t] = p
    BY AttachedBy
  <2>2. sessions'[r][t] = IF r = q /\ t \in brought[q][p] /\ sessions[r][t] = p THEN None ELSE sessions[r][t]
    BY ForgetFacts
  <2>3. brought'[r][u] = IF r = q /\ u = p THEN {} ELSE brought[r][u]
    BY ForgetFacts
  <2>4. u \in conn'[r] <=> u \in conn[r] /\ ~(r = q /\ u = p)
    BY ForgetFacts
  <2>5. CASE r = q /\ u = p
    <3>1. sessions'[r][t] = u => u = r
      BY <2>1, <2>2, <2>5, NoneAssumption
    <3> QED
      BY <2>3, <2>5, <3>1
  <2>6. CASE ~(r = q /\ u = p)
    <3>1. sessions'[r][t] = u <=> sessions[r][t] = u
      BY <2>2, <2>6, NoneAssumption
    <3> QED
      BY <2>1, <2>3, <2>4, <2>6, <3>1
  <2> QED
    BY <2>5, <2>6
<1> QED
  BY <1>1, <1>2 DEF Attached, MapsOK

-----------------------------------------------------------------------------
(* The invariant, action by action.                                        *)

\* The variables of PeerDirectory that are neither maps nor links.
RestOK ==
    /\ object \in [Peer -> [Id -> {"none", "live", "told"}]]
    /\ older \in [Peer -> SUBSET Id]
    /\ leaving \in [Peer -> SUBSET Id]
    /\ changing \in [Peer -> SUBSET (Id \X Id)]
    /\ starts \in 0 .. MaxStarts
    /\ hosts \in [Id -> SUBSET Peer]
    /\ hasty \subseteq Id
    /\ undone \subseteq Id

LEMMA TypeParts == TypeOK <=> LinksOK(Msg) /\ AllFramed /\ MapsOK /\ RestOK
  BY DEF TypeOK, MapsOK, RestOK

LEMMA ConnTyped == TypeOK => conn \in [Peer -> SUBSET Peer]
  BY DEF TypeOK, LinksOK

\* That s comes to p.
LEMMA ComesFacts ==
    ASSUME RestOK, NEW p \in Peer, NEW s \in Id, Comes(p, s)
    PROVE  /\ starts' \in 0 .. MaxStarts /\ hosts' \in [Id -> SUBSET Peer] /\ hasty' \subseteq Id
           /\ \A u \in Id : hosts'[u] = IF u = s THEN hosts[s] \cup {p} ELSE hosts[u]
           /\ hasty \subseteq hasty' /\ undone' = undone
           /\ object[p][s] # "none" \/ s \in leaving[p] => s \in hasty'
<1>1. starts' \in 0 .. MaxStarts
  BY StartsAssumption DEF Comes, RestOK
<1>2. hosts' \in [Id -> SUBSET Peer] /\ \A u \in Id : hosts'[u] = IF u = s THEN hosts[s] \cup {p} ELSE hosts[u]
  BY DEF Comes, RestOK
<1>3. /\ hasty' \subseteq Id /\ hasty \subseteq hasty' /\ undone' = undone
      /\ object[p][s] # "none" \/ s \in leaving[p] => s \in hasty'
  BY DEF Comes, RestOK
<1> QED
  BY <1>1, <1>2, <1>3

LEMMA StartKeeps ==
    ASSUME IInv, NEW p \in Peer, NEW s \in Id, Start(p, s)
    PROVE  IInv'
<1> USE DEF IInv
<1>1. LinksOK(Msg) /\ AllFramed /\ MapsOK /\ RestOK
  BY TypeParts
<1>2. LinksOK(Msg)' /\ AllFramed'
  <2>1. [op |-> "added", id |-> s] \in Msg /\ Plain([op |-> "added", id |-> s])
    BY MsgKinds
  <2> QED
    BY <1>1, <2>1, LinksToOthers, MsgKinds DEF Start
<1>3. MapsOK'
  BY <1>1, AddedFacts DEF Start
<1>4. Attached'
  BY <1>1, AttachedAdded DEF Start
<1>5. /\ leaving' = leaving /\ changing' = changing /\ undone' = undone /\ hasty \subseteq hasty'
      /\ object[p][s] # "none" \/ s \in leaving[p] => s \in hasty'
      /\ starts' \in 0 .. MaxStarts /\ hosts' \in [Id -> SUBSET Peer] /\ hasty' \subseteq Id
  BY <1>1, ComesFacts DEF Start
<1>6. /\ object' \in [Peer -> [Id -> {"none", "live", "told"}]] /\ older' \in [Peer -> SUBSET Id]
      /\ \A r \in Peer, t \in Id : object'[r][t] = IF r = p /\ t = s THEN "live" ELSE object[r][t]
      /\ \A r \in Peer : older'[r] = IF r = p /\ object[p][s] # "none" THEN older[r] \cup {s} ELSE older[r]
  BY <1>1 DEF Start, RestOK
<1>7. RestOK'
  BY <1>1, <1>5, <1>6 DEF RestOK
<1>8. \A r \in Peer, t \in Id : sessions'[r][t] = IF r = p /\ t = s THEN p ELSE sessions[r][t]
  BY <1>1, AddedFacts DEF Start
<1>9. Hosted'
  <2> SUFFICES ASSUME NEW r \in Peer, NEW u \in Id, u \notin hasty' PROVE ListedRight(r, u)'
    BY DEF Hosted
  <2>1. ListedRight(r, u) /\ (Arriving(r, u)' <=> Arriving(r, u))
    BY <1>5 DEF Hosted, Arriving
  <2>2. CASE r = p /\ u = s
    BY <1>5, <1>6, <1>8, <2>2 DEF ListedRight, Local
  <2>3. CASE ~(r = p /\ u = s)
    BY <1>5, <1>6, <1>8, <2>1, <2>3 DEF ListedRight, Local
  <2> QED
    BY <2>2, <2>3
<1>10. Overtaken'
  BY <1>5, <1>6 DEF Overtaken
<1>11. Owed'
  BY <1>5, <1>6 DEF Owed, Arriving
<1>12. TypeOK'
  BY <1>2, <1>3, <1>7 DEF TypeOK, MapsOK, RestOK
<1> QED
  BY <1>4, <1>9, <1>10, <1>11, <1>12

\* The session of p that was s is t.
ChangeEffect(p, s, t) ==
    /\ UNCHANGED <<links, sessions, brought, undone>>
    /\ \A r \in Peer, u \in Id : object'[r][u] =
         IF r = p /\ u = t THEN object[p][s] ELSE IF r = p /\ u = s THEN "none" ELSE object[r][u]
    /\ \A r \in Peer : older'[r] =
         IF r = p /\ t # s /\ object[p][t] # "none" THEN older[r] \cup {t} ELSE older[r]
    /\ \A r \in Peer : leaving'[r] = IF r = p THEN leaving[r] \cup {s} ELSE leaving[r]
    /\ \A r \in Peer : changing'[r] = IF r = p THEN changing[r] \cup {<<s, t>>} ELSE changing[r]
    /\ \A u \in Id : hosts'[u] = IF u = t THEN hosts[t] \cup {p} ELSE hosts[u]
    /\ hasty \subseteq hasty'
    /\ object[p][t] # "none" \/ t \in leaving[p] => t \in hasty'
    /\ object[p][s] # "none" /\ s \notin leaving[p] /\ ~Arriving(p, s)

LEMMA ChangeFacts ==
    ASSUME RestOK, NEW p \in Peer, NEW s \in Id, NEW t \in Id, Change(p, s, t)
    PROVE  ChangeEffect(p, s, t) /\ RestOK'
<1>1. Comes(p, t) /\ UNCHANGED <<links, sessions, brought>>
  BY DEF Change
<1>2. /\ starts' \in 0 .. MaxStarts /\ hosts' \in [Id -> SUBSET Peer] /\ hasty' \subseteq Id
      /\ \A u \in Id : hosts'[u] = IF u = t THEN hosts[t] \cup {p} ELSE hosts[u]
      /\ hasty \subseteq hasty' /\ undone' = undone
      /\ object[p][t] # "none" \/ t \in leaving[p] => t \in hasty'
  BY <1>1, ComesFacts
<1>3. /\ object' \in [Peer -> [Id -> {"none", "live", "told"}]]
      /\ \A r \in Peer, u \in Id : object'[r][u] =
           IF r = p /\ u = t THEN object[p][s] ELSE IF r = p /\ u = s THEN "none" ELSE object[r][u]
  <2> DEFINE f == [u \in Id |-> IF u = t THEN object[p][s] ELSE IF u = s THEN "none" ELSE object[p][u]]
  <2>1. f \in [Id -> {"none", "live", "told"}]
    BY DEF RestOK
  <2>2. object' = [object EXCEPT ![p] = f]
    BY DEF Change
  <2>3. \A u \in Id : f[u] = IF u = t THEN object[p][s] ELSE IF u = s THEN "none" ELSE object[p][u]
    OBVIOUS
  <2> HIDE DEF f
  <2> QED
    BY <2>1, <2>2, <2>3 DEF RestOK
<1>4. /\ older' \in [Peer -> SUBSET Id] /\ leaving' \in [Peer -> SUBSET Id]
      /\ \A r \in Peer : older'[r] =
           IF r = p /\ t # s /\ object[p][t] # "none" THEN older[r] \cup {t} ELSE older[r]
      /\ \A r \in Peer : leaving'[r] = IF r = p THEN leaving[r] \cup {s} ELSE leaving[r]
  BY DEF Change, RestOK
<1>7. /\ changing' \in [Peer -> SUBSET (Id \X Id)]
      /\ \A r \in Peer : changing'[r] = IF r = p THEN changing[r] \cup {<<s, t>>} ELSE changing[r]
  <2>1. changing' = [changing EXCEPT ![p] = changing[p] \cup {<<s, t>>}]
    BY DEF Change
  <2>2. changing \in [Peer -> SUBSET (Id \X Id)] /\ changing[p] \cup {<<s, t>>} \in SUBSET (Id \X Id)
    BY DEF RestOK
  <2> QED
    BY <2>1, <2>2
<1>5. object[p][s] # "none" /\ s \notin leaving[p] /\ ~Arriving(p, s)
  BY DEF Change
<1>6. RestOK'
  BY <1>2, <1>3, <1>4, <1>7 DEF RestOK
<1> QED
  BY <1>1, <1>2, <1>3, <1>4, <1>5, <1>6, <1>7 DEF ChangeEffect

\* Who is to arrive after a change.
LEMMA ChangeArriving ==
    ASSUME NEW p \in Peer, NEW s \in Id, NEW t \in Id, ChangeEffect(p, s, t), NEW r \in Peer, NEW u \in Id
    PROVE  Arriving(r, u)' <=> Arriving(r, u) \/ (r = p /\ u = t)
<1>1. \A x : x \in changing'[r] <=> x \in changing[r] \/ (r = p /\ x = <<s, t>>)
  BY DEF ChangeEffect
<1> QED
  BY <1>1 DEF Arriving

LEMMA ChangeKeeps ==
    ASSUME IInv, NEW p \in Peer, NEW s \in Id, NEW t \in Id, Change(p, s, t)
    PROVE  IInv'
<1> USE DEF IInv
<1>1. LinksOK(Msg) /\ AllFramed /\ MapsOK /\ RestOK
  BY TypeParts
<1>2. ChangeEffect(p, s, t) /\ RestOK'
  BY <1>1, ChangeFacts
<1>3. LinksOK(Msg)' /\ AllFramed' /\ MapsOK'
  BY <1>1, <1>2, LinksUntouched, MsgKinds DEF ChangeEffect, MapsOK
<1>4. Attached'
  BY <1>2, AttachedKept DEF ChangeEffect, links
<1>5. ASSUME NEW r \in Peer, NEW u \in Id, u \notin hasty' PROVE ListedRight(r, u)'
  <2>0. u \notin hasty
    BY <1>2, <1>5 DEF ChangeEffect
  <2>1. ListedRight(r, u) /\ (Arriving(r, u)' <=> Arriving(r, u) \/ (r = p /\ u = t))
    BY <1>2, <2>0, ChangeArriving DEF Hosted
  <2>2. CASE r = p /\ u = t
    BY <1>2, <2>1, <2>2 DEF ListedRight, Local, ChangeEffect
  <2>3. CASE r = p /\ u = s /\ u # t
    BY <1>2, <2>1, <2>3 DEF ListedRight, Local, ChangeEffect
  <2>4. CASE ~(r = p /\ u \in {s, t})
    BY <1>2, <2>1, <2>4 DEF ListedRight, Local, ChangeEffect
  <2> QED
    BY <2>2, <2>3, <2>4
<1>6. Hosted'
  BY <1>5 DEF Hosted
<1>7. Overtaken'
  <2> SUFFICES ASSUME NEW r \in Peer, NEW u \in Id, object'[r][u] # "none", u \in leaving'[r], u \notin hasty'
               PROVE  <<u, u>> \in changing'[r]
    BY DEF Overtaken
  <2>1. CASE r = p /\ u = t
    BY <1>2, <2>1 DEF ChangeEffect
  <2>2. CASE ~(r = p /\ u = t)
    <3>1. object'[r][u] = IF r = p /\ u = s THEN "none" ELSE object[r][u]
      BY <1>2, <2>2 DEF ChangeEffect
    <3>2. ~(r = p /\ u = s) /\ object[r][u] # "none"
      BY <3>1
    <3>3. leaving'[r] = IF r = p THEN leaving[r] \cup {s} ELSE leaving[r]
      BY <1>2 DEF ChangeEffect
    <3>4. u \in leaving[r]
      BY <3>2, <3>3
    <3>5. hasty \subseteq hasty' /\ changing[r] \subseteq changing'[r]
      BY <1>2 DEF ChangeEffect
    <3> QED
      BY <3>2, <3>4, <3>5 DEF Overtaken
  <2> QED
    BY <2>1, <2>2
<1>8. Owed'
  <2>1. ASSUME NEW r \in Peer, NEW u \in Id, Arriving(r, u)' PROVE object'[r][u] # "none" \/ u \in undone'
    <3>1. CASE r = p /\ u = t
      BY <1>2, <3>1 DEF ChangeEffect
    <3>2. CASE ~(r = p /\ u = t)
      <4>1. Arriving(r, u)
        BY <1>2, <2>1, <3>2, ChangeArriving
      <4>2. (object[r][u] # "none" \/ u \in undone) /\ ~(r = p /\ u = s)
        BY <1>2, <4>1 DEF Owed, ChangeEffect
      <4> QED
        BY <1>2, <3>2, <4>2 DEF ChangeEffect
    <3> QED
      BY <3>1, <3>2
  <2>2. undone' \subseteq hasty' /\ \A r \in Peer : older'[r] \subseteq hasty'
    BY <1>2 DEF Owed, ChangeEffect
  <2> QED
    BY <2>1, <2>2 DEF Owed
<1>9. TypeOK'
  BY <1>2, <1>3 DEF TypeOK, MapsOK, RestOK
<1> QED
  BY <1>4, <1>6, <1>7, <1>8, <1>9

\* Who is to arrive after an arrival.
LEMMA ArriveChanging ==
    ASSUME RestOK, NEW p \in Peer, NEW s \in Id, NEW t \in Id, Arrive(p, s, t)
    PROVE  /\ Arriving(p, t) /\ s \notin leaving[p]
           /\ \A r \in Peer, u, v \in Id : <<u, v>> \in changing'[r] <=>
                <<u, v>> \in changing[r] /\ ~(r = p /\ u = s /\ v = t)
           /\ \A r \in Peer, u \in Id : Arriving(r, u)' => Arriving(r, u)
           /\ \A r \in Peer, u \in Id : ~(r = p /\ u = t) => (Arriving(r, u)' <=> Arriving(r, u))
           /\ changing' \in [Peer -> SUBSET (Id \X Id)]
<1>1. \A r \in Peer : changing'[r] = IF r = p THEN changing[r] \ {<<s, t>>} ELSE changing[r]
  BY DEF Arrive, RestOK
<1>2. <<s, t>> \in changing[p] /\ s \notin leaving[p]
  BY DEF Arrive
<1>3. \A r \in Peer, u, v \in Id : <<u, v>> \in changing'[r] <=>
        <<u, v>> \in changing[r] /\ ~(r = p /\ u = s /\ v = t)
  BY <1>1
<1>4. changing' \in [Peer -> SUBSET (Id \X Id)]
  BY DEF Arrive, RestOK
<1> QED
  BY <1>2, <1>3, <1>4 DEF Arriving

LEMMA ArriveKeeps ==
    ASSUME IInv, NEW p \in Peer, NEW s \in Id, NEW t \in Id, Arrive(p, s, t)
    PROVE  IInv'
<1> USE DEF IInv
<1>1. LinksOK(Msg) /\ AllFramed /\ MapsOK /\ RestOK
  BY TypeParts
<1>2. LinksOK(Msg)' /\ AllFramed'
  <2>1. [op |-> "added", id |-> t] \in Msg /\ Plain([op |-> "added", id |-> t])
    BY MsgKinds
  <2> QED
    BY <1>1, <2>1, LinksToOthers, MsgKinds DEF Arrive
<1>3. MapsOK'
  BY <1>1, AddedFacts DEF Arrive
<1>4. Attached'
  BY <1>1, AttachedAdded DEF Arrive
<1>5. UNCHANGED <<object, older, leaving, starts, hosts, hasty, undone>>
  BY DEF Arrive
<1>6. RestOK'
  BY <1>1, <1>5, ArriveChanging DEF RestOK
<1>7. \A r \in Peer, u \in Id : sessions'[r][u] = IF r = p /\ u = t THEN p ELSE sessions[r][u]
  BY <1>1, AddedFacts DEF Arrive
<1>8. ASSUME NEW r \in Peer, NEW u \in Id, u \notin hasty' PROVE ListedRight(r, u)'
  <2>1. ListedRight(r, u) /\ (Arriving(r, u)' => Arriving(r, u)) /\ u \notin hasty
    BY <1>1, <1>5, <1>8, ArriveChanging DEF Hosted
  <2>2. CASE r = p /\ u = t
    <3>1. object[p][t] # "none"
      BY <1>1, <2>1, <2>2, ArriveChanging DEF Owed
    <3> QED
      BY <1>5, <1>7, <2>2, <3>1 DEF ListedRight, Local
  <2>3. CASE ~(r = p /\ u = t)
    <3>1. Arriving(r, u)' <=> Arriving(r, u)
      BY <1>1, <2>3, ArriveChanging
    <3> QED
      BY <1>5, <1>7, <2>1, <2>3, <3>1 DEF ListedRight, Local
  <2> QED
    BY <2>2, <2>3
<1>9. Hosted'
  BY <1>8 DEF Hosted
<1>10. Overtaken'
  <2> SUFFICES ASSUME NEW r \in Peer, NEW u \in Id, object'[r][u] # "none", u \in leaving'[r], u \notin hasty'
               PROVE  <<u, u>> \in changing'[r]
    BY DEF Overtaken
  <2>1. <<u, u>> \in changing[r] /\ u \in leaving[r]
    BY <1>5 DEF Overtaken
  <2> QED
    BY <1>1, <2>1, ArriveChanging
<1>11. Owed'
  <2>1. \A r \in Peer, u \in Id : Arriving(r, u)' => Arriving(r, u)
    BY <1>1, ArriveChanging
  <2> QED
    BY <1>5, <2>1 DEF Owed
<1>12. TypeOK'
  BY <1>2, <1>3, <1>6 DEF TypeOK, MapsOK, RestOK
<1> QED
  BY <1>4, <1>9, <1>10, <1>11, <1>12

\* What the two ways to close have in common, and what sets them apart.
CloseEffect(p, s) ==
    /\ UNCHANGED <<links, sessions, brought, older, changing, starts, hosts, hasty>>
    /\ \A r \in Peer, t \in Id : object'[r][t] = IF r = p /\ t = s THEN "none" ELSE object[r][t]
    /\ \A r \in Peer, t \in Id : t \in leaving'[r] <=> t \in leaving[r] \/ (r = p /\ t = s)
    /\ object[p][s] # "none"
    /\ undone \subseteq undone' /\ (Arriving(p, s) => s \in undone')
    /\ undone' = undone \/ (s \in older[p] /\ undone' = undone \cup {s})

LEMMA CloseFacts ==
    ASSUME RestOK, NEW p \in Peer, NEW s \in Id, Close(p, s) \/ CloseOlder(p, s)
    PROVE  CloseEffect(p, s) /\ RestOK'
<1>1. Closed(p, s)
  BY DEF Close, CloseOlder
<1>2. /\ UNCHANGED <<links, sessions, brought, older, changing, starts, hosts, hasty>>
      /\ \A r \in Peer, t \in Id : object'[r][t] = IF r = p /\ t = s THEN "none" ELSE object[r][t]
      /\ \A r \in Peer, t \in Id : t \in leaving'[r] <=> t \in leaving[r] \/ (r = p /\ t = s)
      /\ object[p][s] # "none"
      /\ object' \in [Peer -> [Id -> {"none", "live", "told"}]] /\ leaving' \in [Peer -> SUBSET Id]
  BY <1>1 DEF Closed, RestOK
<1>3. /\ undone \subseteq undone' /\ (Arriving(p, s) => s \in undone')
      /\ undone' = undone \/ (s \in older[p] /\ undone' = undone \cup {s})
  BY DEF Close, CloseOlder
<1>4. RestOK'
  BY <1>2, <1>3 DEF RestOK
<1> QED
  BY <1>2, <1>3, <1>4 DEF CloseEffect

LEMMA CloseKeeps ==
    ASSUME IInv, NEW p \in Peer, NEW s \in Id, Close(p, s) \/ CloseOlder(p, s)
    PROVE  IInv'
<1> USE DEF IInv
<1>1. LinksOK(Msg) /\ AllFramed /\ MapsOK /\ RestOK
  BY TypeParts
<1>2. CloseEffect(p, s) /\ RestOK'
  BY <1>1, CloseFacts
<1>3. LinksOK(Msg)' /\ AllFramed' /\ MapsOK'
  BY <1>1, <1>2, LinksUntouched, MsgKinds DEF CloseEffect, MapsOK
<1>4. Attached'
  BY <1>2, AttachedKept DEF CloseEffect, links
<1>5. Hosted'
  BY <1>2 DEF CloseEffect, Hosted, ListedRight, Local, Arriving
<1>6. Overtaken'
  BY <1>2 DEF CloseEffect, Overtaken
<1>7. Owed'
  <2>1. ASSUME NEW r \in Peer, NEW u \in Id, Arriving(r, u)' PROVE object'[r][u] # "none" \/ u \in undone'
    <3>1. Arriving(r, u)
      BY <1>2, <2>1 DEF CloseEffect, Arriving
    <3> QED
      BY <1>2, <3>1 DEF CloseEffect, Owed
  <2>2. undone' \subseteq hasty' /\ \A r \in Peer : older'[r] \subseteq hasty'
    BY <1>2 DEF CloseEffect, Owed
  <2> QED
    BY <2>1, <2>2 DEF Owed
<1>8. TypeOK'
  BY <1>2, <1>3 DEF TypeOK, MapsOK, RestOK
<1> QED
  BY <1>4, <1>5, <1>6, <1>7, <1>8

LEMMA AnnounceKeeps ==
    ASSUME IInv, NEW p \in Peer, NEW s \in Id, Announce(p, s)
    PROVE  IInv'
<1> USE DEF IInv
<1>1. LinksOK(Msg) /\ AllFramed /\ MapsOK /\ RestOK
  BY TypeParts
<1>2. LinksOK(Msg)' /\ AllFramed'
  <2>1. [op |-> "removed", id |-> s] \in Msg /\ Plain([op |-> "removed", id |-> s])
    BY MsgKinds
  <2> QED
    BY <1>1, <2>1, LinksToOthers, MsgKinds DEF Announce
<1>3. MapsOK'
  BY <1>1, RemovedFacts DEF Announce
<1>4. Attached'
  BY <1>1, AttachedRemoved DEF Announce
<1>5. RestOK'
  BY <1>1 DEF Announce, RestOK
<1>6. \A r \in Peer, t \in Id :
        sessions'[r][t] = IF r = p /\ t = s /\ sessions[p][s] = p THEN None ELSE sessions[r][t]
  BY <1>1, RemovedFacts DEF Announce
<1>7. /\ UNCHANGED <<object, older, changing, hasty, undone>> /\ s \in leaving[p]
      /\ \A r \in Peer, t \in Id : t \in leaving'[r] <=> t \in leaving[r] /\ ~(r = p /\ t = s)
  BY <1>1 DEF Announce, RestOK
<1>8. ASSUME NEW r \in Peer, NEW t \in Id, t \notin hasty' PROVE ListedRight(r, t)'
  <2>1. ListedRight(r, t) /\ t \notin hasty
    BY <1>7, <1>8 DEF Hosted
  <2>2. CASE r = p /\ t = s
    <3>1. object[p][s] # "none" => Arriving(p, s)
      BY <1>7, <2>1, <2>2 DEF Overtaken, Arriving
    <3>2. sessions'[p][s] # p
      BY <1>6, NoneAssumption
    <3> QED
      BY <1>7, <2>2, <3>1, <3>2 DEF ListedRight, Local, Arriving
  <2>3. CASE ~(r = p /\ t = s)
    BY <1>6, <1>7, <2>1, <2>3 DEF ListedRight, Local, Arriving
  <2> QED
    BY <2>2, <2>3
<1>9. Hosted'
  BY <1>8 DEF Hosted
<1>10. Overtaken'
  BY <1>7 DEF Overtaken
<1>11. Owed'
  BY <1>7 DEF Owed, Arriving
<1>12. TypeOK'
  BY <1>2, <1>3, <1>5 DEF TypeOK, MapsOK, RestOK
<1> QED
  BY <1>4, <1>9, <1>10, <1>11, <1>12

\* An action that changes nothing but the links.
LEMMA LinksOnlyKeeps ==
    ASSUME IInv, LinksOK(Msg)', AllFramed', \A p \in Peer : conn[p] \subseteq conn'[p],
           UNCHANGED <<sessions, brought, object, ends, history>>
    PROVE  IInv'
<1> USE DEF IInv
<1>1. TypeOK'
  BY DEF TypeOK
<1>2. Attached'
  BY AttachedKept
<1>3. Hosted' /\ Overtaken' /\ Owed'
  BY DEF Hosted, Overtaken, Owed, ListedRight, Local, Arriving
<1> QED
  BY <1>1, <1>2, <1>3

LEMMA ListingPlain ==
    ASSUME TypeOK, NEW p \in Peer, NEW news \in Listing(p)
    PROVE  news \in Seq(Msg) /\ \A n \in DOMAIN news : Plain(news[n])
<1>1. Local(p) \subseteq Id /\ IsFiniteSet(Local(p))
  BY IdAssumption, FS_Subset DEF Local
<1>2. Cardinality(Local(p)) \in Nat
  BY <1>1, FS_CardinalityType
<1>3. news \in [1 .. Cardinality(Local(p)) -> [op : {"added"}, id : Local(p)]]
  BY DEF Listing
<1>4. \A n \in 1 .. Cardinality(Local(p)) : news[n] \in Msg /\ Plain(news[n])
  <2> SUFFICES ASSUME NEW n \in 1 .. Cardinality(Local(p)) PROVE news[n] \in Msg /\ Plain(news[n])
    OBVIOUS
  <2>1. news[n] \in [op : {"added"}, id : Local(p)]
    BY <1>3
  <2>2. news[n] \in Msg /\ news[n].op = "added"
    BY <1>1, <2>1 DEF Msg
  <2> QED
    BY <2>2, MsgKinds
<1>5. DOMAIN news = 1 .. Cardinality(Local(p)) /\ news \in [1 .. Cardinality(Local(p)) -> Msg]
  BY <1>3, <1>4
<1> QED
  BY <1>2, <1>4, <1>5, SeqDef

LEMMA ReadAddedKeeps ==
    ASSUME IInv, NEW p \in Peer, NEW q \in Peer, ReadAdded(p, q)
    PROVE  IInv'
<1> USE DEF IInv
<1>1. LinksOK(Msg) /\ AllFramed /\ MapsOK /\ RestOK
  BY TypeParts
<1> DEFINE s == Head(chan[p][q]).id
<1>2. /\ LinksOK(Msg)' /\ AllFramed'
      /\ p # q /\ p \in conn[q] /\ s \in Id
  <2>1. Reading(p, q, "added") /\ Taken(p, q) /\ UNCHANGED <<link, conn, breaks>>
    BY DEF ReadAdded
  <2>2. LinksOK(Msg)' /\ AllFramed' /\ p # q /\ p \in conn[q] /\ Head(chan[p][q]) \in Msg /\ Head(chan[p][q]).op = "added"
    BY <1>1, <2>1, LinksPlain, MsgKinds
  <2> QED
    BY <2>2, MsgKinds
<1>3. Added(q, s, p)
  BY DEF ReadAdded
<1>4. /\ object' = [object EXCEPT ![q][s] = IF @ = "none" THEN @ ELSE "told"]
      /\ UNCHANGED <<conn, ends, history>>
  BY DEF ReadAdded
<1> HIDE DEF s
<1>5. MapsOK'
  BY <1>1, <1>2, <1>3, AddedFacts
<1>6. Attached'
  BY <1>1, <1>2, <1>3, <1>4, AttachedAdded
<1>7. RestOK'
  BY <1>1, <1>2, <1>4 DEF RestOK
<1>8. \A r \in Peer, t \in Id : sessions'[r][t] = IF r = q /\ t = s THEN p ELSE sessions[r][t]
  BY <1>1, <1>2, <1>3, AddedFacts
<1>9. \A r \in Peer, t \in Id : object'[r][t] =
        IF r = q /\ t = s THEN (IF object[q][s] = "none" THEN "none" ELSE "told") ELSE object[r][t]
  BY <1>1, <1>2, <1>4 DEF RestOK
<1>10. ASSUME NEW r \in Peer, NEW t \in Id, t \notin hasty' PROVE ListedRight(r, t)'
  <2>1. ListedRight(r, t)
    BY <1>4, <1>10 DEF Hosted
  <2>2. CASE r = q /\ t = s
    BY <1>2, <1>8, <1>9, <2>2 DEF ListedRight, Local
  <2>3. CASE ~(r = q /\ t = s)
    BY <1>4, <1>8, <1>9, <2>1, <2>3 DEF ListedRight, Local, Arriving
  <2> QED
    BY <2>2, <2>3
<1>11. Hosted'
  BY <1>10 DEF Hosted
<1>12. Overtaken' /\ Owed'
  BY <1>4, <1>9 DEF Overtaken, Owed, Arriving
<1>13. TypeOK'
  BY <1>2, <1>5, <1>7 DEF TypeOK, MapsOK, RestOK
<1> QED
  BY <1>6, <1>11, <1>12, <1>13

LEMMA ReadRemovedKeeps ==
    ASSUME IInv, NEW p \in Peer, NEW q \in Peer, ReadRemoved(p, q)
    PROVE  IInv'
<1> USE DEF IInv
<1>1. LinksOK(Msg) /\ AllFramed /\ MapsOK /\ RestOK
  BY TypeParts
<1> DEFINE s == Head(chan[p][q]).id
<1>2. /\ LinksOK(Msg)' /\ AllFramed'
      /\ p # q /\ s \in Id
  <2>1. Reading(p, q, "removed") /\ Taken(p, q) /\ UNCHANGED <<link, conn, breaks>>
    BY DEF ReadRemoved
  <2>2. LinksOK(Msg)' /\ AllFramed' /\ p # q /\ Head(chan[p][q]) \in Msg /\ Head(chan[p][q]).op = "removed"
    BY <1>1, <2>1, LinksPlain, MsgKinds
  <2> QED
    BY <2>2, MsgKinds
<1>3. Removed(q, s, p)
  BY DEF ReadRemoved
<1>4. UNCHANGED <<conn, object, ends, history>>
  BY DEF ReadRemoved
<1> HIDE DEF s
<1>5. MapsOK'
  BY <1>1, <1>2, <1>3, RemovedFacts
<1>6. Attached'
  BY <1>1, <1>2, <1>3, <1>4, AttachedRemoved
<1>7. \A r \in Peer, t \in Id :
        sessions'[r][t] = IF r = q /\ t = s /\ sessions[q][s] = p THEN None ELSE sessions[r][t]
  BY <1>1, <1>2, <1>3, RemovedFacts
<1>8. \A r \in Peer, t \in Id : sessions'[r][t] = r <=> sessions[r][t] = r
  BY <1>2, <1>7, NoneAssumption
<1>9. Hosted' /\ Overtaken' /\ Owed'
  BY <1>4, <1>8 DEF Hosted, ListedRight, Local, Overtaken, Owed, Arriving
<1>10. TypeOK'
  BY <1>1, <1>2, <1>4, <1>5 DEF TypeOK, MapsOK, RestOK
<1> QED
  BY <1>6, <1>9, <1>10

LEMMA ForgetKeeps ==
    ASSUME IInv, NEW p \in Peer, NEW q \in Peer, Forget(p, q)
    PROVE  IInv'
<1> USE DEF IInv
<1>1. LinksOK(Msg) /\ AllFramed /\ MapsOK /\ RestOK /\ conn \in [Peer -> SUBSET Peer]
  BY TypeParts, ConnTyped
<1>2. LinksOK(Msg)' /\ AllFramed'
  BY <1>1, LinksEnd, MsgKinds DEF Forget
<1>3. MapsOK'
  BY <1>1, ForgetFacts
<1>4. Attached'
  BY <1>1, AttachedForget
<1>5. UNCHANGED <<object, ends, history>>
  BY DEF Forget
<1>6. ASSUME NEW r \in Peer, NEW t \in Id PROVE sessions'[r][t] = r <=> sessions[r][t] = r
  <2>1. sessions'[r][t] = IF r = q /\ t \in brought[q][p] /\ sessions[r][t] = p THEN None ELSE sessions[r][t]
    BY <1>1, ForgetFacts
  <2>2. t \in brought[q][p] => p # q
    BY <1>1, AttachedBy
  <2> QED
    BY <2>1, <2>2, NoneAssumption
<1>7. Hosted' /\ Overtaken' /\ Owed'
  BY <1>5, <1>6 DEF Hosted, ListedRight, Local, Overtaken, Owed, Arriving
<1>8. TypeOK'
  BY <1>1, <1>2, <1>3, <1>5 DEF TypeOK, MapsOK, RestOK
<1> QED
  BY <1>4, <1>7, <1>8

LEMMA CrashKeeps ==
    ASSUME IInv, NEW p \in Peer, Crash(p)
    PROVE  IInv'
<1> USE DEF IInv
<1>1. LinksOK(Msg) /\ AllFramed /\ MapsOK /\ RestOK /\ conn \in [Peer -> SUBSET Peer]
  BY TypeParts, ConnTyped
<1>2. LinksOK(Msg)' /\ AllFramed'
  BY <1>1, LinksRestart, MsgKinds DEF Crash
<1>3. /\ \A r \in Peer, t \in Id : sessions'[r][t] = IF r = p THEN None ELSE sessions[r][t]
      /\ \A r, u \in Peer : brought'[r][u] = IF r = p THEN {} ELSE brought[r][u]
      /\ \A r \in Peer : conn'[r] = IF r = p THEN {} ELSE conn[r]
      /\ \A r \in Peer, t \in Id : object'[r][t] = IF r = p THEN "none" ELSE object[r][t]
      /\ \A r \in Peer : /\ leaving'[r] = IF r = p THEN {} ELSE leaving[r]
                         /\ older'[r] = IF r = p THEN {} ELSE older[r]
                         /\ changing'[r] = IF r = p THEN {} ELSE changing[r]
      /\ UNCHANGED history
  BY <1>1 DEF Crash, Restart, MapsOK, RestOK
<1>4. MapsOK'
  BY <1>1 DEF Crash, MapsOK
<1>5. RestOK'
  BY <1>1 DEF Crash, RestOK
<1>6. Attached'
  <2>1. ASSUME NEW r \in Peer, NEW u \in Peer, NEW t \in Id
        PROVE  /\ t \in brought'[r][u] <=> u # r /\ sessions'[r][t] = u
               /\ t \in brought'[r][u] => u \in conn'[r]
    BY <1>1, <1>3, AttachedBy, NoneAssumption
  <2> QED
    BY <1>4, <2>1 DEF Attached, MapsOK
<1>7. Hosted' /\ Overtaken' /\ Owed'
  <2>1. \A r \in Peer, t \in Id : Arriving(r, t)' <=> Arriving(r, t) /\ r # p
    BY <1>3 DEF Arriving
  <2>2. Hosted'
    BY <1>3, <2>1, NoneAssumption DEF Hosted, ListedRight, Local
  <2>3. Overtaken'
    BY <1>3 DEF Overtaken
  <2>4. Owed'
    BY <1>3, <2>1 DEF Owed
  <2> QED
    BY <2>2, <2>3, <2>4
<1>8. TypeOK'
  BY <1>2, <1>4, <1>5 DEF TypeOK, MapsOK, RestOK
<1> QED
  BY <1>6, <1>7, <1>8

LEMMA InitHolds == Init => IInv
<1> SUFFICES ASSUME Init PROVE IInv
  OBVIOUS
<1> USE DEF Init, LinksInit
<1>1. LinksOK(Msg)
  BY BreaksAssumption DEF LinksOK
<1>2. AllFramed
  BY DEF AllFramed, Framed, FramedAs
<1>3. MapsOK /\ RestOK
  BY StartsAssumption DEF MapsOK, RestOK
<1>4. Attached /\ Hosted /\ Overtaken /\ Owed
  BY NoneAssumption DEF Attached, Hosted, Overtaken, Owed, ListedRight, Local, Arriving
<1> QED
  BY <1>1, <1>2, <1>3, <1>4, TypeParts DEF IInv

LEMMA StepHolds == IInv /\ [Next]_vars => IInv'
<1> SUFFICES ASSUME IInv, [Next]_vars PROVE IInv'
  OBVIOUS
<1>1. LinksOK(Msg) /\ AllFramed /\ TypeOK
  BY TypeParts DEF IInv
<1>2. ASSUME NEW p \in Peer, NEW s \in Id, Start(p, s) PROVE IInv'
  BY <1>2, StartKeeps
<1>3. ASSUME NEW p \in Peer, NEW s \in Id, Close(p, s) \/ CloseOlder(p, s) PROVE IInv'
  BY <1>3, CloseKeeps
<1>13. ASSUME NEW p \in Peer, NEW s \in Id, NEW t \in Id, Change(p, s, t) PROVE IInv'
  BY <1>13, ChangeKeeps
<1>14. ASSUME NEW p \in Peer, NEW s \in Id, NEW t \in Id, Arrive(p, s, t) PROVE IInv'
  BY <1>14, ArriveKeeps
<1>4. ASSUME NEW p \in Peer, NEW s \in Id, Announce(p, s) PROVE IInv'
  BY <1>4, AnnounceKeeps
<1>5. ASSUME NEW p \in Peer, NEW q \in Peer, Connect(p, q) PROVE IInv'
  <2>1. PICK news \in Listing(p) : GetThrough(p, q, news)
    BY <1>5 DEF Connect
  <2>2. LinksOK(Msg)' /\ AllFramed'
    BY <1>1, <2>1, ListingPlain, LinksThrough, MsgKinds
  <2> QED
    BY <1>5, <2>1, <2>2, LinksOnlyKeeps DEF Connect, GetThrough
<1>6. ASSUME NEW p \in Peer, NEW q \in Peer, Cut(p, q) PROVE IInv'
  <2>1. LinksOK(Msg)' /\ AllFramed'
    BY <1>1, <1>6, LinksBreak, MsgKinds DEF Cut
  <2> QED
    BY <1>6, <2>1, LinksOnlyKeeps DEF Cut, Break
<1>7. ASSUME NEW p \in Peer, NEW q \in Peer, ReadHello(p, q) PROVE IInv'
  <2>1. LinksOK(Msg)' /\ AllFramed'
    BY <1>1, <1>7, LinksHello, MsgKinds DEF ReadHello
  <2>2. \A r \in Peer : conn[r] \subseteq conn'[r]
    BY <1>1, <1>7 DEF ReadHello, ReadHeader, LinksOK
  <2> QED
    BY <1>7, <2>1, <2>2, LinksOnlyKeeps DEF ReadHello
<1>8. ASSUME NEW p \in Peer, NEW q \in Peer, ReadAdded(p, q) PROVE IInv'
  BY <1>8, ReadAddedKeeps
<1>9. ASSUME NEW p \in Peer, NEW q \in Peer, ReadRemoved(p, q) PROVE IInv'
  BY <1>9, ReadRemovedKeeps
<1>10. ASSUME NEW p \in Peer, NEW q \in Peer, Forget(p, q) PROVE IInv'
  BY <1>10, ForgetKeeps
<1>11. ASSUME NEW p \in Peer, Crash(p) PROVE IInv'
  BY <1>11, CrashKeeps
<1>12. ASSUME UNCHANGED vars PROVE IInv'
  <2>1. LinksOK(Msg)' /\ AllFramed'
    BY <1>1, <1>12, LinksUntouched, MsgKinds DEF vars
  <2> QED
    BY <1>12, <2>1, LinksOnlyKeeps DEF vars, links
<1> QED
  BY <1>2, <1>3, <1>4, <1>5, <1>6, <1>7, <1>8, <1>9, <1>10, <1>11, <1>12, <1>13, <1>14 DEF Next

(* The invariant holds in every reachable state.                           *)
THEOREM Invariance == Spec => []IInv
<1> QED
  BY InitHolds, StepHolds, PTL DEF Spec

(* Every variable keeps its shape, and what is on the way from one peer to *)
(* another is one connection at a time: header first, close last.          *)
THEOREM TypeCorrect == Spec => []TypeOK
<1>1. IInv => TypeOK
  BY DEF IInv
<1> QED
  BY <1>1, Invariance, PTL

(* Every remote entry of a session map belongs to a connection that is     *)
(* there and that lists it: PeerManager::sessionAdded and sessionRemoved   *)
(* never look up a connection in vain.                                     *)
THEOREM StaysAttached == Spec => []Attached
<1>1. IInv => Attached
  BY DEF IInv
<1> QED
  BY <1>1, Invariance, PTL

(* The local sessions of a peer are the sessions it hosts and has          *)
(* announced, but for users who came to a peer that had a session of       *)
(* theirs or was between the two calls of Session::close.                  *)
THEOREM HostedHolds == Spec => []Hosted
<1>1. IInv => Hosted
  BY DEF IInv
<1> QED
  BY <1>1, Invariance, PTL

-----------------------------------------------------------------------------
(* What is on the way: the messages about one id in one channel.           *)

News(s) == [op |-> "added", id |-> s]
Gone(s) == [op |-> "removed", id |-> s]

Has(c, m) == \E i \in DOMAIN c : c[i] = m
After(c, i, m) == \E j \in DOMAIN c : j > i /\ c[j] = m

\* After place i the reader will learn that s is not there.
Ends(c, i, s) == After(c, i, Eof) \/ After(c, i, Gone(s))

\* Whatever c says of s is taken back.
Revoked(c, s) == \A i \in DOMAIN c : c[i] = News(s) => Ends(c, i, s)

\* c says that s is there, and does not take it back.
Stands(c, s) == \E i \in DOMAIN c : c[i] = News(s) /\ ~After(c, i, Gone(s))

LEMMA Kinship ==
    ASSUME NEW s, NEW t
    PROVE  /\ News(s) # Gone(t) /\ News(s) # Eof /\ Gone(s) # Eof /\ News(s) # Hello /\ Gone(s) # Hello
           /\ Hello # Eof
           /\ News(s) = News(t) => s = t
           /\ Gone(s) = Gone(t) => s = t
<1>1. /\ News(s).op = "added" /\ Gone(s).op = "removed" /\ Gone(t).op = "removed"
      /\ Hello.op = "hello" /\ Eof.op = "eof"
      /\ News(s).id = s /\ News(t).id = t /\ Gone(s).id = s /\ Gone(t).id = t
  BY DEF News, Gone, Hello, Eof
<1>2. "added" # "removed" /\ "added" # "eof" /\ "removed" # "eof" /\ "added" # "hello"
      /\ "removed" # "hello" /\ "hello" # "eof"
  OBVIOUS
<1> QED
  BY <1>1, <1>2

\* Reading the first message.
LEMMA TailAfter ==
    ASSUME NEW S, NEW c \in Seq(S), c # <<>>, NEW m
    PROVE  /\ \A i \in Nat : After(Tail(c), i, m) <=> After(c, i + 1, m)
           /\ Has(Tail(c), m) => Has(c, m)
           /\ Has(c, m) /\ Head(c) # m => Has(Tail(c), m)
           /\ After(c, 1, m) <=> Has(Tail(c), m)
           /\ After(Tail(c), 0, m) <=> Has(Tail(c), m)
           /\ After(c, 0, m) <=> Has(c, m)
<1>1. ASSUME NEW i \in Nat PROVE After(Tail(c), i, m) <=> After(c, i + 1, m)
  <2>1. ASSUME After(Tail(c), i, m) PROVE After(c, i + 1, m)
    <3>1. PICK j \in DOMAIN Tail(c) : j > i /\ Tail(c)[j] = m
      BY <2>1 DEF After
    <3>2. j + 1 \in DOMAIN c /\ c[j + 1] = m /\ j + 1 > i + 1
      BY <3>1, TailParts
    <3> QED
      BY <3>2 DEF After
  <2>2. ASSUME After(c, i + 1, m) PROVE After(Tail(c), i, m)
    <3>1. PICK j \in DOMAIN c : j > i + 1 /\ c[j] = m
      BY <2>2 DEF After
    <3>2. j \in Nat /\ j # 1 /\ j - 1 > i
      BY <3>1, TailParts
    <3>3. j - 1 \in DOMAIN Tail(c) /\ Tail(c)[j - 1] = m
      BY <3>1, <3>2, TailParts
    <3> QED
      BY <3>2, <3>3 DEF After
  <2> QED
    BY <2>1, <2>2
<1>2. (\A j \in DOMAIN c : j \in Nat /\ j > 0) /\ (\A j \in DOMAIN Tail(c) : j \in Nat /\ j > 0)
  BY TailParts
<1>3. (After(c, 0, m) <=> Has(c, m)) /\ (After(Tail(c), 0, m) <=> Has(Tail(c), m))
  BY <1>2 DEF After, Has
<1>4. After(Tail(c), 0, m) <=> After(c, 1, m)
  BY <1>1
<1>5. Has(Tail(c), m) => Has(c, m)
  BY TailParts DEF Has
<1>6. ASSUME Has(c, m), Head(c) # m PROVE Has(Tail(c), m)
  <2>1. PICK i \in DOMAIN c : c[i] = m
    BY <1>6 DEF Has
  <2>2. i # 1
    BY <1>6, <2>1, TailParts
  <2>3. i - 1 \in DOMAIN Tail(c) /\ Tail(c)[i - 1] = m
    BY <2>1, <2>2, TailParts
  <2> QED
    BY <2>3 DEF Has
<1> QED
  BY <1>1, <1>3, <1>4, <1>5, <1>6

LEMMA TailSays ==
    ASSUME NEW S, NEW c \in Seq(S), c # <<>>, NEW s
    PROVE  /\ Ends(c, 0, s) /\ Head(c) \notin {Eof, Gone(s)} => Ends(Tail(c), 0, s)
           /\ Revoked(c, s) => Revoked(Tail(c), s)
           /\ Revoked(c, s) /\ Head(c) = News(s) => Ends(Tail(c), 0, s)
           /\ Stands(c, s) /\ Head(c) # News(s) => Stands(Tail(c), s)
           /\ Stands(c, s) => Stands(Tail(c), s) \/ ~Has(Tail(c), Gone(s))
           /\ Closing(c) /\ Head(c) # Eof => Closing(Tail(c))
<1>1. ASSUME NEW i \in Nat PROVE Ends(Tail(c), i, s) <=> Ends(c, i + 1, s)
  BY TailAfter DEF Ends
<1>2. ASSUME Ends(c, 0, s), Head(c) \notin {Eof, Gone(s)} PROVE Ends(Tail(c), 0, s)
  <2>1. Has(c, Eof) \/ Has(c, Gone(s))
    BY <1>2, TailAfter DEF Ends
  <2>2. Has(Tail(c), Eof) \/ Has(Tail(c), Gone(s))
    BY <1>2, <2>1, TailAfter
  <2> QED
    BY <2>2, TailAfter DEF Ends
<1>3. ASSUME Revoked(c, s), NEW i \in DOMAIN Tail(c), Tail(c)[i] = News(s) PROVE Ends(Tail(c), i, s)
  <2>1. i \in Nat /\ i + 1 \in DOMAIN c /\ c[i + 1] = News(s)
    BY <1>3, TailParts
  <2>2. Ends(c, i + 1, s)
    BY <1>3, <2>1 DEF Revoked
  <2> QED
    BY <1>1, <2>1, <2>2
<1>4. Revoked(c, s) => Revoked(Tail(c), s)
  BY <1>3 DEF Revoked
<1>5. ASSUME Revoked(c, s), Head(c) = News(s) PROVE Ends(Tail(c), 0, s)
  <2>1. 1 \in DOMAIN c /\ c[1] = News(s)
    BY <1>5, TailParts
  <2>2. Ends(c, 1, s)
    BY <1>5, <2>1 DEF Revoked
  <2>3. Ends(c, 0 + 1, s)
    BY <2>2
  <2> QED
    BY <1>1, <2>3
<1>6. ASSUME Stands(c, s) PROVE Stands(Tail(c), s) \/ (Head(c) = News(s) /\ ~Has(Tail(c), Gone(s)))
  <2>1. PICK i \in DOMAIN c : c[i] = News(s) /\ ~After(c, i, Gone(s))
    BY <1>6 DEF Stands
  <2>2. CASE i = 1
    <3>1. Head(c) = News(s) /\ ~After(c, 1, Gone(s))
      BY <2>1, <2>2, TailParts
    <3> QED
      BY <3>1, TailAfter
  <2>3. CASE i # 1
    <3>1. i - 1 \in DOMAIN Tail(c) /\ Tail(c)[i - 1] = News(s) /\ i - 1 \in Nat /\ (i - 1) + 1 = i
      BY <2>1, <2>3, TailParts
    <3>2. After(Tail(c), i - 1, Gone(s)) <=> After(c, (i - 1) + 1, Gone(s))
      BY <3>1, TailAfter
    <3>3. ~After(Tail(c), i - 1, Gone(s))
      BY <2>1, <3>1, <3>2
    <3> QED
      BY <3>1, <3>3 DEF Stands
  <2> QED
    BY <2>2, <2>3
<1>7. Closing(c) /\ Head(c) # Eof => Closing(Tail(c))
  BY ClosingTail
<1> QED
  BY <1>2, <1>4, <1>5, <1>6, <1>7

\* Writing one more.
LEMMA AppendSays ==
    ASSUME NEW S, NEW c \in Seq(S), NEW m, NEW s
    PROVE  /\ Ends(c, 0, s) => Ends(Append(c, m), 0, s)
           /\ m \in {Eof, Gone(s)} => Ends(Append(c, m), 0, s)
           /\ Revoked(c, s) /\ m # News(s) => Revoked(Append(c, m), s)
           /\ m \in {Eof, Gone(s)} => Revoked(Append(c, m), s)
           /\ Stands(c, s) /\ m # Gone(s) => Stands(Append(c, m), s)
           /\ m = News(s) => Stands(Append(c, m), s)
           /\ \A k : Has(Append(c, m), k) <=> Has(c, k) \/ k = m
           /\ Closing(Append(c, Eof))
<1> DEFINE d == Append(c, m)
<1>1. /\ Len(c) \in Nat /\ DOMAIN c = 1 .. Len(c) /\ DOMAIN d = 1 .. Len(c) + 1
      /\ (\A i \in DOMAIN c : d[i] = c[i]) /\ d[Len(c) + 1] = m
  BY AppendParts
<1>2. Closing(Append(c, Eof))
  BY ClosingAppend
<1> HIDE DEF d
<1>3. \A k : Has(d, k) <=> Has(c, k) \/ k = m
  <2>1. \A i \in DOMAIN d : i \in DOMAIN c \/ i = Len(c) + 1
    BY <1>1
  <2>2. DOMAIN c \subseteq DOMAIN d /\ Len(c) + 1 \in DOMAIN d
    BY <1>1
  <2> QED
    BY <1>1, <2>1, <2>2 DEF Has
<1>4. ASSUME NEW k, NEW i \in Nat, i <= Len(c) PROVE After(d, i, k) <=> After(c, i, k) \/ k = m
  <2>1. \A j \in DOMAIN d : j \in DOMAIN c \/ j = Len(c) + 1
    BY <1>1
  <2>2. DOMAIN c \subseteq DOMAIN d /\ Len(c) + 1 \in DOMAIN d /\ Len(c) + 1 > i
    BY <1>1, <1>4
  <2> QED
    BY <1>1, <2>1, <2>2 DEF After
<1>5. ASSUME NEW i \in Nat, i <= Len(c) PROVE Ends(d, i, s) <=> Ends(c, i, s) \/ m \in {Eof, Gone(s)}
  BY <1>4, <1>5 DEF Ends
<1>6. 0 \in Nat /\ 0 <= Len(c)
  BY <1>1
<1>7. (Ends(c, 0, s) => Ends(d, 0, s)) /\ (m \in {Eof, Gone(s)} => Ends(d, 0, s))
  BY <1>5, <1>6
<1>8. ASSUME (Revoked(c, s) /\ m # News(s)) \/ m \in {Eof, Gone(s)} PROVE Revoked(d, s)
  <2> SUFFICES ASSUME NEW i \in DOMAIN d, d[i] = News(s) PROVE Ends(d, i, s)
    BY DEF Revoked
  <2>1. m # News(s)
    BY <1>8, Kinship
  <2>2. i \in DOMAIN c /\ i \in Nat /\ i <= Len(c) /\ c[i] = News(s)
    BY <1>1, <2>1
  <2>3. Ends(c, i, s) \/ m \in {Eof, Gone(s)}
    BY <1>8, <2>2 DEF Revoked
  <2> QED
    BY <1>5, <2>2, <2>3
<1>9. ASSUME Stands(c, s), m # Gone(s) PROVE Stands(d, s)
  <2>1. PICK i \in DOMAIN c : c[i] = News(s) /\ ~After(c, i, Gone(s))
    BY <1>9 DEF Stands
  <2>2. i \in DOMAIN d /\ d[i] = News(s) /\ i \in Nat /\ i <= Len(c)
    BY <1>1, <2>1
  <2>3. ~After(d, i, Gone(s))
    BY <1>4, <1>9, <2>1, <2>2
  <2> QED
    BY <2>2, <2>3 DEF Stands
<1>10. ASSUME m = News(s) PROVE Stands(d, s)
  <2>1. Len(c) + 1 \in DOMAIN d /\ d[Len(c) + 1] = News(s)
    BY <1>1, <1>10
  <2>2. \A j \in DOMAIN d : ~(j > Len(c) + 1)
    BY <1>1
  <2> QED
    BY <2>1, <2>2 DEF Stands, After
<1> QED
  BY <1>2, <1>3, <1>7, <1>8, <1>9, <1>10 DEF d

LEMMA AppendHas ==
    \A c \in Seq(Msg) : \A m, k : Has(Append(c, m), k) <=> Has(c, k) \/ k = m
  BY AppendSays

\* A channel that is closed for good takes back all that it says.
LEMMA ClosingSays ==
    ASSUME NEW S, NEW c \in Seq(S), Closing(c), NEW s
    PROVE  Ends(c, 0, s) /\ Revoked(c, s)
<1>1. Len(c) \in Nat /\ Len(c) \in DOMAIN c /\ c[Len(c)] = Eof /\ DOMAIN c = 1 .. Len(c) /\ Len(c) > 0
  BY TailParts DEF Closing
<1>2. Ends(c, 0, s)
  BY <1>1 DEF Ends, After
<1>3. ASSUME NEW i \in DOMAIN c, c[i] = News(s) PROVE Ends(c, i, s)
  <2>1. i # Len(c)
    BY <1>1, <1>3, Kinship
  <2>2. Len(c) > i
    BY <1>1, <2>1
  <2> QED
    BY <1>1, <2>2 DEF Ends, After
<1> QED
  BY <1>2, <1>3 DEF Revoked

LEMMA EmptySays ==
    ASSUME NEW s
    PROVE  /\ ~Ends(<<>>, 0, s) /\ Revoked(<<>>, s) /\ ~Stands(<<>>, s) /\ \A m : ~Has(<<>>, m)
<1>1. DOMAIN <<>> = {}
  OBVIOUS
<1> QED
  BY <1>1 DEF Ends, After, Revoked, Stands, Has

-----------------------------------------------------------------------------
(* What each action does, one pair of peers and one id at a time.          *)

LEMMA Shapes ==
    ASSUME IInv
    PROVE  /\ LinksOK(Msg) /\ AllFramed /\ MapsOK /\ RestOK
           /\ \A p, q \in Peer : chan[p][q] \in Seq(Msg) /\ link[p][q] \in {"dialing", "up"}
           /\ conn \in [Peer -> SUBSET Peer]
  BY TypeParts DEF IInv, LinksOK

\* Whoever p is connected to is told of s, which is on the list at p.
StartEffect(p, s) ==
    /\ \A r, t \in Peer : chan'[r][t] =
         IF r = p /\ link[r][t] = "up" THEN Append(chan[r][t], News(s)) ELSE chan[r][t]
    /\ UNCHANGED <<link, conn, leaving, changing, undone>>
    /\ \A r \in Peer, t \in Id : sessions'[r][t] = IF r = p /\ t = s THEN p ELSE sessions[r][t]
    /\ \A r \in Peer, t \in Id : object'[r][t] = IF r = p /\ t = s THEN "live" ELSE object[r][t]
    /\ \A t \in Id : hosts'[t] = IF t = s THEN hosts[s] \cup {p} ELSE hosts[t]
    /\ hasty \subseteq hasty' /\ (object[p][s] # "none" => s \in hasty')

LEMMA StartFacts ==
    ASSUME IInv, NEW p \in Peer, NEW s \in Id, Start(p, s)
    PROVE  StartEffect(p, s)
<1>1. LinksOK(Msg) /\ MapsOK /\ RestOK
  BY Shapes
<1>2. \A r \in Peer, t \in Id : sessions'[r][t] = IF r = p /\ t = s THEN p ELSE sessions[r][t]
  BY <1>1, AddedFacts DEF Start
<1>3. \A r, t \in Peer : chan'[r][t] =
        IF r = p /\ link[r][t] = "up" THEN Append(chan[r][t], News(s)) ELSE chan[r][t]
  BY <1>1 DEF Start, ToOthers, LinksOK, News
<1>4. /\ UNCHANGED <<link, conn, leaving, changing>>
      /\ \A r \in Peer, t \in Id : object'[r][t] = IF r = p /\ t = s THEN "live" ELSE object[r][t]
  BY <1>1 DEF Start, RestOK
<1>5. /\ \A t \in Id : hosts'[t] = IF t = s THEN hosts[s] \cup {p} ELSE hosts[t]
      /\ hasty \subseteq hasty' /\ undone' = undone /\ (object[p][s] # "none" => s \in hasty')
  BY <1>1, ComesFacts DEF Start
<1> QED
  BY <1>2, <1>3, <1>4, <1>5 DEF StartEffect

\* Whoever p is connected to is told of t, which has been at p all along.
ArriveEffect(p, t) ==
    /\ \A r, x \in Peer : chan'[r][x] =
         IF r = p /\ link[r][x] = "up" THEN Append(chan[r][x], News(t)) ELSE chan[r][x]
    /\ UNCHANGED <<link, conn, object, leaving, hosts, hasty, undone>>
    /\ \A r \in Peer, u \in Id : sessions'[r][u] = IF r = p /\ u = t THEN p ELSE sessions[r][u]
    /\ \A r \in Peer, u \in Id : Arriving(r, u)' => Arriving(r, u)
    /\ \A r \in Peer, u \in Id : ~(r = p /\ u = t) => (Arriving(r, u)' <=> Arriving(r, u))
    /\ Arriving(p, t)

LEMMA ArriveFacts ==
    ASSUME IInv, NEW p \in Peer, NEW s \in Id, NEW t \in Id, Arrive(p, s, t)
    PROVE  ArriveEffect(p, t)
<1>1. LinksOK(Msg) /\ MapsOK /\ RestOK
  BY Shapes
<1>2. \A r \in Peer, u \in Id : sessions'[r][u] = IF r = p /\ u = t THEN p ELSE sessions[r][u]
  BY <1>1, AddedFacts DEF Arrive
<1>3. \A r, x \in Peer : chan'[r][x] =
        IF r = p /\ link[r][x] = "up" THEN Append(chan[r][x], News(t)) ELSE chan[r][x]
  BY <1>1 DEF Arrive, ToOthers, LinksOK, News
<1>4. UNCHANGED <<link, conn, object, leaving, hosts, hasty, undone>>
  BY DEF Arrive
<1> QED
  BY <1>1, <1>2, <1>3, <1>4, ArriveChanging DEF ArriveEffect

\* Whoever p is connected to is told that s has gone.
AnnounceEffect(p, s) ==
    /\ \A r, t \in Peer : chan'[r][t] =
         IF r = p /\ link[r][t] = "up" THEN Append(chan[r][t], Gone(s)) ELSE chan[r][t]
    /\ UNCHANGED <<link, conn, object, changing, hosts, hasty, undone>>
    /\ \A r \in Peer, t \in Id : sessions'[r][t] =
         IF r = p /\ t = s /\ sessions[p][s] = p THEN None ELSE sessions[r][t]
    /\ \A r \in Peer, t \in Id : t \in leaving'[r] <=> t \in leaving[r] /\ ~(r = p /\ t = s)
    /\ s \in leaving[p]

LEMMA AnnounceFacts ==
    ASSUME IInv, NEW p \in Peer, NEW s \in Id, Announce(p, s)
    PROVE  AnnounceEffect(p, s)
<1>1. LinksOK(Msg) /\ MapsOK /\ RestOK
  BY Shapes
<1>2. \A r \in Peer, t \in Id : sessions'[r][t] =
        IF r = p /\ t = s /\ sessions[p][s] = p THEN None ELSE sessions[r][t]
  BY <1>1, RemovedFacts DEF Announce
<1>3. \A r, t \in Peer : chan'[r][t] =
        IF r = p /\ link[r][t] = "up" THEN Append(chan[r][t], Gone(s)) ELSE chan[r][t]
  BY <1>1 DEF Announce, ToOthers, LinksOK, Gone
<1>4. /\ UNCHANGED <<link, conn, object, changing, hosts, hasty, undone>>
      /\ \A r \in Peer, t \in Id : t \in leaving'[r] <=> t \in leaving[r] /\ ~(r = p /\ t = s)
      /\ s \in leaving[p]
  BY <1>1 DEF Announce, RestOK
<1> QED
  BY <1>2, <1>3, <1>4 DEF AnnounceEffect

\* What a peer says first over a new connection.
Welcome(c, p) ==
    /\ c # <<>> /\ \A t \in Id : ~Has(c, Gone(t)) /\ (Has(c, News(t)) <=> t \in Local(p))

LEMMA WelcomeSays ==
    ASSUME IInv, NEW p \in Peer, NEW news \in Listing(p)
    PROVE  Welcome(<<Hello>> \o news, p)
<1> DEFINE c == <<Hello>> \o news
<1>1. news \in Seq(Msg)
  BY ListingPlain DEF IInv
<1>2. Len(c) = Len(news) + 1 /\ Len(news) \in Nat /\ DOMAIN news = 1 .. Len(news) /\ DOMAIN c = 1 .. Len(news) + 1
      /\ c[1] = Hello /\ c # <<>>
  BY <1>1
<1>3. \A i \in DOMAIN c : i # 1 => i - 1 \in DOMAIN news /\ c[i] = news[i - 1]
  BY <1>1, <1>2
<1>4. \A i \in DOMAIN news : i + 1 \in DOMAIN c /\ c[i + 1] = news[i]
  BY <1>1, <1>2
<1>5. \A i \in DOMAIN news : \E t \in Local(p) : news[i] = News(t)
  <2>1. \A i \in DOMAIN news : news[i] \in [op : {"added"}, id : Local(p)]
    BY DEF Listing
  <2> QED
    BY <2>1 DEF News
<1>6. ASSUME NEW t \in Local(p) PROVE \E i \in DOMAIN news : news[i] = News(t)
  <2>1. PICK i \in DOMAIN news : news[i].id = t
    BY DEF Listing
  <2>2. PICK u \in Local(p) : news[i] = News(u)
    BY <1>5, <2>1
  <2>3. News(u).id = u
    BY DEF News
  <2> QED
    BY <2>1, <2>2, <2>3
<1> HIDE DEF c
<1>7. ASSUME NEW t \in Id PROVE ~Has(c, Gone(t)) /\ (Has(c, News(t)) <=> t \in Local(p))
  <2>1. ASSUME NEW i \in DOMAIN c PROVE c[i] # Gone(t) /\ (c[i] = News(t) => t \in Local(p))
    <3>1. CASE i = 1
      BY <1>2, <3>1, Kinship
    <3>2. CASE i # 1
      <4>1. PICK u \in Local(p) : c[i] = News(u)
        BY <1>3, <1>5, <3>2
      <4> QED
        BY <4>1, Kinship
    <3> QED
      BY <3>1, <3>2
  <2>2. t \in Local(p) => \E i \in DOMAIN c : c[i] = News(t)
    BY <1>4, <1>6
  <2> QED
    BY <2>1, <2>2 DEF Has
<1> QED
  BY <1>2, <1>7 DEF Welcome, c

LEMMA ConnectFacts ==
    ASSUME IInv, NEW p \in Peer, NEW q \in Peer, Connect(p, q)
    PROVE  /\ p # q /\ link[p][q] = "dialing" /\ chan[p][q] = <<>> /\ p \notin conn[q]
           /\ Welcome(chan'[p][q], p) /\ chan'[p][q] \in Seq(Msg)
           /\ \A r, t \in Peer : <<r, t>> # <<p, q>> => chan'[r][t] = chan[r][t]
           /\ \A r, t \in Peer : link'[r][t] = IF r = p /\ t = q THEN "up" ELSE link[r][t]
           /\ UNCHANGED <<conn, sessions, object, ends, hosts, hasty, undone>>
<1>1. LinksOK(Msg)
  BY Shapes
<1>2. PICK news \in Listing(p) : GetThrough(p, q, news)
  BY DEF Connect
<1>3. Welcome(<<Hello>> \o news, p)
  BY WelcomeSays
<1>4. chan'[p][q] = <<Hello>> \o news
  BY <1>1, <1>2 DEF GetThrough, LinksOK
<1>5. <<Hello>> \o news \in Seq(Msg)
  <2>1. news \in Seq(Msg)
    BY ListingPlain DEF IInv
  <2> QED
    BY <2>1, MsgKinds DEF Kinds
<1>6. /\ p # q /\ link[p][q] = "dialing" /\ chan[p][q] = <<>> /\ p \notin conn[q]
      /\ \A r, t \in Peer : <<r, t>> # <<p, q>> => chan'[r][t] = chan[r][t]
      /\ \A r, t \in Peer : link'[r][t] = IF r = p /\ t = q THEN "up" ELSE link[r][t]
      /\ UNCHANGED conn
  BY <1>1, <1>2 DEF GetThrough, LinksOK
<1>7. UNCHANGED <<sessions, object, ends, hosts, hasty, undone>>
  BY DEF Connect
<1> QED
  BY <1>3, <1>4, <1>5, <1>6, <1>7

LEMMA CutFacts ==
    ASSUME IInv, NEW p \in Peer, NEW q \in Peer, Cut(p, q)
    PROVE  /\ link[p][q] = "up" /\ Closing(chan'[p][q]) /\ chan'[p][q] \in Seq(Msg)
           /\ \A r, t \in Peer : <<r, t>> # <<p, q>> => chan'[r][t] = chan[r][t]
           /\ \A r, t \in Peer : link'[r][t] = IF r = p /\ t = q THEN "dialing" ELSE link[r][t]
           /\ UNCHANGED <<conn, sessions, object, ends, hosts, hasty, undone>>
<1>1. LinksOK(Msg) /\ chan[p][q] \in Seq(Msg)
  BY Shapes
<1>2. PICK n \in 0 .. Len(chan[p][q]) : chan' = [chan EXCEPT ![p][q] = Append(SubSeq(@, 1, n), Eof)]
  BY DEF Cut, Break
<1>3. SubSeq(chan[p][q], 1, n) \in Seq(Msg)
  BY <1>1, <1>2
<1>4. chan'[p][q] = Append(SubSeq(chan[p][q], 1, n), Eof)
  BY <1>1, <1>2 DEF LinksOK
<1>5. Closing(chan'[p][q]) /\ chan'[p][q] \in Seq(Msg)
  <2>1. Closing(Append(SubSeq(chan[p][q], 1, n), Eof))
    BY <1>3, AppendSays
  <2>2. Append(SubSeq(chan[p][q], 1, n), Eof) \in Seq(Msg)
    BY <1>3, MsgKinds DEF Kinds
  <2> QED
    BY <1>4, <2>1, <2>2
<1>6. \A r, t \in Peer : <<r, t>> # <<p, q>> => chan'[r][t] = chan[r][t]
  BY <1>1, <1>2 DEF LinksOK
<1>7. /\ link[p][q] = "up" /\ conn' = conn
      /\ \A r, t \in Peer : link'[r][t] = IF r = p /\ t = q THEN "dialing" ELSE link[r][t]
  BY <1>1 DEF Cut, Break, LinksOK
<1>8. UNCHANGED <<sessions, object, ends, hosts, hasty, undone>>
  BY DEF Cut
<1> QED
  BY <1>5, <1>6, <1>7, <1>8

\* A message o of p's that q reads.
Read(p, q, o) ==
    /\ chan[p][q] # <<>> /\ Head(chan[p][q]) \in Msg /\ Head(chan[p][q]).op = o
    /\ chan'[p][q] = Tail(chan[p][q])
    /\ \A r, t \in Peer : <<r, t>> # <<p, q>> => chan'[r][t] = chan[r][t]
    /\ link' = link
    /\ p # q

LEMMA ReadFacts ==
    ASSUME IInv, NEW p \in Peer, NEW q \in Peer, NEW o, Reading(p, q, o), Taken(p, q), UNCHANGED link
    PROVE  Read(p, q, o)
<1>1. LinksOK(Msg) /\ AllFramed
  BY Shapes
<1>2. chan[p][q] # <<>> /\ Head(chan[p][q]).op = o
  BY DEF Reading
<1>3. /\ Head(chan[p][q]) \in Msg /\ chan'[p][q] = Tail(chan[p][q])
      /\ \A r, t \in Peer : <<r, t>> # <<p, q>> => chan'[r][t] = chan[r][t]
  BY <1>1, <1>2, TakenFacts, MsgKinds
<1>4. p # q
  BY <1>1, <1>2 DEF AllFramed, Framed
<1> QED
  BY <1>2, <1>3, <1>4 DEF Read

\* q has read the header that p sent.
HelloEffect(p, q) ==
    /\ Read(p, q, "hello") /\ Head(chan[p][q]) = Hello
    /\ \A r, t \in Peer : r \in conn'[t] <=> r \in conn[t] \/ (r = p /\ t = q)
    /\ UNCHANGED <<sessions, object, ends, hosts, hasty, undone>>

LEMMA HelloFacts ==
    ASSUME IInv, NEW p \in Peer, NEW q \in Peer, ReadHello(p, q)
    PROVE  HelloEffect(p, q)
<1>1. Read(p, q, "hello")
  BY ReadFacts DEF ReadHello, ReadHeader
<1>2. Head(chan[p][q]) = Hello
  BY <1>1, MsgKinds DEF Read
<1>3. conn \in [Peer -> SUBSET Peer]
  BY Shapes
<1> QED
  BY <1>1, <1>2, <1>3 DEF ReadHello, ReadHeader, HelloEffect

\* q has read that p has s, which gives way at q.
NewsEffect(p, q, s) ==
    /\ Read(p, q, "added") /\ Head(chan[p][q]) = News(s)
    /\ \A r \in Peer, t \in Id : sessions'[r][t] = IF r = q /\ t = s THEN p ELSE sessions[r][t]
    /\ \A r \in Peer, t \in Id : object'[r][t] =
         IF r = q /\ t = s /\ object[q][s] # "none" THEN "told" ELSE object[r][t]
    /\ UNCHANGED <<conn, ends, hosts, hasty, undone>>

LEMMA NewsFacts ==
    ASSUME IInv, NEW p \in Peer, NEW q \in Peer, ReadAdded(p, q)
    PROVE  \E s \in Id : NewsEffect(p, q, s)
<1> DEFINE s == Head(chan[p][q]).id
<1>1. Read(p, q, "added")
  BY ReadFacts DEF ReadAdded
<1>2. s \in Id
  BY <1>1, MsgKinds DEF Read
<1>3. Head(chan[p][q]) = News(s)
  BY <1>1 DEF Read, Msg, News
<1>4. Added(q, s, p) /\ object' = [object EXCEPT ![q][s] = IF @ = "none" THEN @ ELSE "told"]
      /\ UNCHANGED <<conn, ends, hosts, hasty, undone>>
  BY DEF ReadAdded
<1> HIDE DEF s
<1>5. MapsOK /\ RestOK
  BY Shapes
<1>6. \A r \in Peer, t \in Id : sessions'[r][t] = IF r = q /\ t = s THEN p ELSE sessions[r][t]
  BY <1>2, <1>4, <1>5, AddedFacts
<1>7. \A r \in Peer, t \in Id : object'[r][t] =
        IF r = q /\ t = s /\ object[q][s] # "none" THEN "told" ELSE object[r][t]
  BY <1>2, <1>4, <1>5 DEF RestOK
<1> QED
  BY <1>1, <1>2, <1>3, <1>4, <1>6, <1>7 DEF NewsEffect

\* q has read that p has s no more.
GoneEffect(p, q, s) ==
    /\ Read(p, q, "removed") /\ Head(chan[p][q]) = Gone(s)
    /\ \A r \in Peer, t \in Id : sessions'[r][t] =
         IF r = q /\ t = s /\ sessions[q][s] = p THEN None ELSE sessions[r][t]
    /\ UNCHANGED <<conn, object, ends, hosts, hasty, undone>>

LEMMA GoneFacts ==
    ASSUME IInv, NEW p \in Peer, NEW q \in Peer, ReadRemoved(p, q)
    PROVE  \E s \in Id : GoneEffect(p, q, s)
<1> DEFINE s == Head(chan[p][q]).id
<1>1. Read(p, q, "removed")
  BY ReadFacts DEF ReadRemoved
<1>2. s \in Id
  BY <1>1, MsgKinds DEF Read
<1>3. Head(chan[p][q]) = Gone(s)
  BY <1>1 DEF Read, Msg, Gone
<1>4. Removed(q, s, p) /\ UNCHANGED <<conn, object, ends, hosts, hasty, undone>>
  BY DEF ReadRemoved
<1> HIDE DEF s
<1>5. MapsOK
  BY Shapes
<1>6. \A r \in Peer, t \in Id : sessions'[r][t] =
        IF r = q /\ t = s /\ sessions[q][s] = p THEN None ELSE sessions[r][t]
  BY <1>2, <1>4, <1>5, RemovedFacts
<1> QED
  BY <1>1, <1>2, <1>3, <1>4, <1>6 DEF GoneEffect

\* q has read that the connection from p is over, and has forgotten what p had.
EndEffect(p, q) ==
    /\ chan'[p][q] = <<>> /\ link[p][q] = "dialing" /\ link' = link /\ p # q
    /\ \A r, t \in Peer : <<r, t>> # <<p, q>> => chan'[r][t] = chan[r][t]
    /\ \A r, t \in Peer : r \in conn'[t] <=> r \in conn[t] /\ ~(r = p /\ t = q)
    /\ \A r \in Peer, t \in Id : sessions'[r][t] =
         IF r = q /\ sessions[r][t] = p THEN None ELSE sessions[r][t]
    /\ UNCHANGED <<object, ends, hosts, hasty, undone>>

LEMMA EndFacts ==
    ASSUME IInv, NEW p \in Peer, NEW q \in Peer, Forget(p, q)
    PROVE  EndEffect(p, q)
<1>1. Read(p, q, "eof")
  BY ReadFacts DEF Forget, ReadEnd
<1>2. /\ MapsOK /\ AllFramed /\ Attached /\ conn \in [Peer -> SUBSET Peer]
      /\ chan[p][q] \in Seq(Msg) /\ link[p][q] \in {"dialing", "up"}
  BY Shapes DEF IInv
<1>3. Head(chan[p][q]) = Eof
  BY <1>1, MsgKinds DEF Read
<1>4. FramedAs(chan[p][q], link[p][q] = "up", p \in conn[q])
  BY <1>2 DEF AllFramed, Framed
<1>5. link[p][q] # "up" /\ Tail(chan[p][q]) = <<>>
  <2> DEFINE c == chan[p][q]
  <2>1. c \in Seq(Msg) /\ c # <<>> /\ Head(c) = Eof
    BY <1>1, <1>2, <1>3 DEF Read
  <2>2. FramedAs(c, link[p][q] = "up", p \in conn[q])
    BY <1>4
  <2> HIDE DEF c
  <2>3. \A up, named \in BOOLEAN : FramedAs(c, up, named) => ~up /\ Tail(c) = <<>>
    BY <2>1, FramedEof
  <2>4. link[p][q] # "up" /\ Tail(c) = <<>>
    BY <2>2, <2>3, (p \in conn[q]) \in BOOLEAN, (link[p][q] = "up") \in BOOLEAN, Zenon
  <2> QED
    BY <2>4 DEF c
<1>6. \A r, t \in Peer : r \in conn'[t] <=> r \in conn[t] /\ ~(r = p /\ t = q)
  BY <1>2, ForgetFacts
<1>7. ASSUME NEW r \in Peer, NEW t \in Id
      PROVE  sessions'[r][t] = IF r = q /\ sessions[r][t] = p THEN None ELSE sessions[r][t]
  <2>1. sessions'[r][t] = IF r = q /\ t \in brought[q][p] /\ sessions[r][t] = p THEN None ELSE sessions[r][t]
    BY <1>2, ForgetFacts
  <2>2. t \in brought[q][p] <=> p # q /\ sessions[q][t] = p
    BY <1>2, AttachedBy
  <2> QED
    BY <1>1, <2>1, <2>2 DEF Read
<1>8. UNCHANGED <<object, ends, hosts, hasty, undone>>
  BY DEF Forget
<1> QED
  BY <1>1, <1>2, <1>5, <1>6, <1>7, <1>8 DEF Read, EndEffect

\* p has nothing left, and all its connections are over.
CrashEffect(p) ==
    /\ \A r, t \in Peer :
         /\ link'[r][t] = IF p \in {t, r} THEN "dialing" ELSE link[r][t]
         /\ chan'[r][t] = IF r = p /\ link[r][t] = "up" THEN Append(chan[r][t], Eof)
                          ELSE IF t = p THEN <<>> ELSE chan[r][t]
         /\ r \in conn'[t] <=> r \in conn[t] /\ t # p
    /\ \A r \in Peer, t \in Id :
         /\ sessions'[r][t] = IF r = p THEN None ELSE sessions[r][t]
         /\ object'[r][t] = IF r = p THEN "none" ELSE object[r][t]
         /\ t \in leaving'[r] <=> t \in leaving[r] /\ r # p
         /\ Arriving(r, t)' <=> Arriving(r, t) /\ r # p
    /\ UNCHANGED <<hosts, hasty, undone>>
    /\ link[p][p] # "up"

LEMMA CrashFacts ==
    ASSUME IInv, NEW p \in Peer, Crash(p)
    PROVE  CrashEffect(p)
<1>1. LinksOK(Msg) /\ AllFramed /\ MapsOK /\ RestOK
  BY Shapes
<1>2. link[p][p] # "up"
  BY <1>1 DEF AllFramed, Framed
<1>3. \A r, t \in Peer :
        /\ link'[r][t] = IF p \in {t, r} THEN "dialing" ELSE link[r][t]
        /\ chan'[r][t] = IF r = p /\ link[r][t] = "up" THEN Append(chan[r][t], Eof)
                         ELSE IF t = p THEN <<>> ELSE chan[r][t]
        /\ r \in conn'[t] <=> r \in conn[t] /\ t # p
  BY <1>1 DEF Crash, Restart, LinksOK
<1>4. \A r \in Peer, t \in Id :
        /\ sessions'[r][t] = IF r = p THEN None ELSE sessions[r][t]
        /\ object'[r][t] = IF r = p THEN "none" ELSE object[r][t]
        /\ t \in leaving'[r] <=> t \in leaving[r] /\ r # p
  BY <1>1 DEF Crash, MapsOK, RestOK
<1>5. \A r \in Peer, t \in Id : Arriving(r, t)' <=> Arriving(r, t) /\ r # p
  BY <1>1 DEF Crash, RestOK, Arriving
<1> QED
  BY <1>2, <1>3, <1>4, <1>5 DEF Crash, CrashEffect

-----------------------------------------------------------------------------
(* Nobody believes for ever in a session that is not there.                *)

\* q has s, or has yet to say that it had.
Lasts(q, s) == object[q][s] # "none" \/ s \in leaving[q]

\* Of a connection that is over, the close is on the way.
Broken(q, p) ==
    link[q][p] = "dialing" /\ (q \in conn[p] \/ chan[q][p] # <<>>) => Closing(chan[q][p])

\* If p believes in s on q, or is about to, s is there or p will learn otherwise.
Believed(q, p, s) ==
    /\ sessions[p][s] = q => Lasts(q, s) \/ Ends(chan[q][p], 0, s)
    /\ Lasts(q, s) \/ Revoked(chan[q][p], s)

Shadows == \A q, p \in Peer : Broken(q, p) /\ \A s \in Id \ undone : Believed(q, p, s)

LEMMA SameBroken ==
    ASSUME NEW q \in Peer, NEW p \in Peer, Broken(q, p),
           link'[q][p] = link[q][p], chan'[q][p] = chan[q][p], q \in conn'[p] => q \in conn[p]
    PROVE  Broken(q, p)'
  BY DEF Broken, Closing

LEMMA SameBelieved ==
    ASSUME NEW q \in Peer, NEW p \in Peer, NEW s \in Id, Believed(q, p, s),
           chan'[q][p] = chan[q][p], sessions'[p][s] = q => sessions[p][s] = q,
           Lasts(q, s) => Lasts(q, s)'
    PROVE  Believed(q, p, s)'
  BY DEF Believed, Ends, After, Revoked

\* p has said that it has s, to whoever it is connected to.
Told(p, s) ==
    /\ \A r, t \in Peer : chan'[r][t] =
         IF r = p /\ link[r][t] = "up" THEN Append(chan[r][t], News(s)) ELSE chan[r][t]
    /\ UNCHANGED <<link, conn, undone>>
    /\ \A r \in Peer, t \in Id : sessions'[r][t] = IF r = p /\ t = s THEN p ELSE sessions[r][t]
    /\ hasty \subseteq hasty'

LEMMA ToldFacts ==
    ASSUME NEW p \in Peer, NEW s \in Id, StartEffect(p, s) \/ ArriveEffect(p, s)
    PROVE  Told(p, s)
<1>1. CASE StartEffect(p, s)
  BY <1>1 DEF StartEffect, Told
<1>2. CASE ArriveEffect(p, s)
  BY <1>2 DEF ArriveEffect, Told
<1> QED
  BY <1>1, <1>2

LEMMA ShadowsTold ==
    ASSUME IInv, Shadows, NEW p \in Peer, NEW s \in Id, Told(p, s),
           \A r \in Peer, u \in Id : Lasts(r, u) => Lasts(r, u)',
           s \notin undone => Lasts(p, s)'
    PROVE  Shadows'
<1>0. Told(p, s)
  OBVIOUS
<1>1. ASSUME NEW r \in Peer, NEW t \in Peer PROVE Broken(r, t)'
  <2>1. Broken(r, t) /\ link'[r][t] = link[r][t] /\ (r \in conn'[t] => r \in conn[t])
    BY <1>0 DEF Told, Shadows
  <2>2. CASE link[r][t] = "up"
    BY <2>1, <2>2 DEF Broken
  <2>3. CASE link[r][t] # "up"
    <3>1. chan'[r][t] = chan[r][t]
      BY <2>3, <1>0 DEF Told
    <3> QED
      BY <2>1, <3>1, SameBroken
  <2> QED
    BY <2>2, <2>3
<1>2. ASSUME NEW r \in Peer, NEW t \in Peer, NEW u \in Id \ undone' PROVE Believed(r, t, u)'
  <2>0. u \in Id /\ u \notin undone
    BY <1>0 DEF Told
  <2>1. Believed(r, t, u) /\ chan[r][t] \in Seq(Msg)
    BY <2>0, Shapes DEF Shadows
  <2>2. /\ Lasts(r, u) => Lasts(r, u)'
        /\ r = p /\ u = s => Lasts(r, u)'
    BY <2>0
  <2>3. sessions'[t][u] = r => sessions[t][u] = r \/ (r = p /\ u = s)
    BY <1>0, <2>0 DEF Told
  <2>4. CASE r = p /\ u = s
    BY <2>2, <2>4 DEF Believed
  <2>5. CASE ~(r = p /\ u = s)
    <3>1. CASE r = p /\ link[r][t] = "up"
      <4>1. chan'[r][t] = Append(chan[r][t], News(s)) /\ News(s) # News(u)
        BY <2>5, <3>1, <1>0, Kinship DEF Told
      <4>2. /\ Ends(chan[r][t], 0, u) => Ends(chan'[r][t], 0, u)
            /\ Revoked(chan[r][t], u) => Revoked(chan'[r][t], u)
        BY <2>1, <4>1, AppendSays
      <4> QED
        BY <2>1, <2>2, <2>3, <2>5, <4>2 DEF Believed, Ends, Revoked, After
    <3>2. CASE ~(r = p /\ link[r][t] = "up")
      <4>1. chan'[r][t] = chan[r][t]
        BY <3>2, <1>0 DEF Told
      <4> QED
        BY <2>0, <2>1, <2>2, <2>3, <2>5, <4>1, SameBelieved
    <3> QED
      BY <3>1, <3>2
  <2> QED
    BY <2>4, <2>5
<1> QED
  BY <1>1, <1>2 DEF Shadows

LEMMA ShadowsStart ==
    ASSUME IInv, Shadows, NEW p \in Peer, NEW s \in Id, Start(p, s)
    PROVE  Shadows'
<1>1. StartEffect(p, s)
  BY StartFacts
<1>2. (\A r \in Peer, u \in Id : Lasts(r, u) => Lasts(r, u)') /\ Lasts(p, s)'
  BY <1>1 DEF StartEffect, Lasts
<1> QED
  BY <1>1, <1>2, ToldFacts, ShadowsTold

LEMMA ShadowsArrive ==
    ASSUME IInv, Shadows, NEW p \in Peer, NEW s \in Id, NEW t \in Id, Arrive(p, s, t)
    PROVE  Shadows'
<1>1. ArriveEffect(p, t)
  BY ArriveFacts
<1>2. \A r \in Peer, u \in Id : Lasts(r, u) => Lasts(r, u)'
  BY <1>1 DEF ArriveEffect, Lasts
<1>3. t \notin undone => Lasts(p, t)
  BY <1>1 DEF ArriveEffect, IInv, Owed, Lasts
<1> QED
  BY <1>1, <1>2, <1>3, ToldFacts, ShadowsTold

\* What neither says nor reads nor breaks anything.
LEMMA ShadowsQuietly ==
    ASSUME IInv, Shadows, UNCHANGED <<link, chan, conn, sessions>>, undone \subseteq undone',
           \A r \in Peer, u \in Id : Lasts(r, u) => Lasts(r, u)'
    PROVE  Shadows'
<1>2. ASSUME NEW r \in Peer, NEW t \in Peer PROVE Broken(r, t)'
  BY SameBroken DEF Shadows
<1>3. ASSUME NEW r \in Peer, NEW t \in Peer, NEW u \in Id \ undone' PROVE Believed(r, t, u)'
  <2>1. Believed(r, t, u) /\ u \in Id
    BY DEF Shadows
  <2> QED
    BY <2>1, SameBelieved
<1> QED
  BY <1>2, <1>3 DEF Shadows

LEMMA ShadowsChange ==
    ASSUME IInv, Shadows, NEW p \in Peer, NEW s \in Id, NEW t \in Id, Change(p, s, t)
    PROVE  Shadows'
<1>1. ChangeEffect(p, s, t)
  BY Shapes, ChangeFacts
<1>2. UNCHANGED <<link, chan, conn, sessions, undone>>
  BY <1>1 DEF ChangeEffect, links
<1>3. \A r \in Peer, u \in Id : Lasts(r, u) => Lasts(r, u)'
  BY <1>1 DEF ChangeEffect, Lasts
<1> QED
  BY <1>2, <1>3, ShadowsQuietly

LEMMA ShadowsClose ==
    ASSUME IInv, Shadows, NEW p \in Peer, NEW s \in Id, Close(p, s) \/ CloseOlder(p, s)
    PROVE  Shadows'
<1>1. CloseEffect(p, s)
  BY Shapes, CloseFacts
<1>2. UNCHANGED <<link, chan, conn, sessions>> /\ undone \subseteq undone'
  BY <1>1 DEF CloseEffect, links
<1>3. \A r \in Peer, u \in Id : Lasts(r, u) => Lasts(r, u)'
  BY <1>1 DEF CloseEffect, Lasts
<1> QED
  BY <1>2, <1>3, ShadowsQuietly

LEMMA ShadowsAnnounce ==
    ASSUME IInv, Shadows, NEW p \in Peer, NEW s \in Id, Announce(p, s)
    PROVE  Shadows'
<1>0. AnnounceEffect(p, s)
  BY AnnounceFacts
<1>1. ASSUME NEW r \in Peer, NEW t \in Peer PROVE Broken(r, t)'
  <2>1. Broken(r, t) /\ link'[r][t] = link[r][t] /\ (r \in conn'[t] => r \in conn[t])
    BY <1>0 DEF AnnounceEffect, Shadows
  <2>2. CASE link[r][t] = "up"
    BY <2>1, <2>2 DEF Broken
  <2>3. CASE link[r][t] # "up"
    <3>1. chan'[r][t] = chan[r][t]
      BY <2>3, <1>0 DEF AnnounceEffect
    <3> QED
      BY <2>1, <3>1, SameBroken
  <2> QED
    BY <2>2, <2>3
<1>2. ASSUME NEW r \in Peer, NEW t \in Peer, NEW u \in Id \ undone' PROVE Believed(r, t, u)'
  <2>0. u \in Id /\ u \notin undone
    BY <1>0 DEF AnnounceEffect
  <2>1. /\ Believed(r, t, u) /\ Broken(r, t)
        /\ chan[r][t] \in Seq(Msg) /\ link[r][t] \in {"dialing", "up"}
        /\ sessions[t][u] = r => u \in brought[t][r] \/ t = r
        /\ u \in brought[t][r] => r \in conn[t]
    BY <2>0, Shapes, AttachedBy DEF Shadows, IInv
  <2>2. CASE r = p /\ u = s
    <3>1. CASE link[r][t] = "up"
      <4>1. chan'[r][t] = Append(chan[r][t], Gone(u))
        BY <2>2, <3>1, <1>0 DEF AnnounceEffect
      <4>2. Ends(chan'[r][t], 0, u) /\ Revoked(chan'[r][t], u)
        BY <2>1, <4>1, AppendSays
      <4> QED
        BY <4>2 DEF Believed, Ends, Revoked, After
    <3>2. CASE link[r][t] # "up"
      <4>1. chan'[r][t] = chan[r][t]
        BY <3>2, <1>0 DEF AnnounceEffect
      <4>2. sessions'[t][u] = r => sessions[t][u] = r /\ t # r
        BY <2>2, <1>0, NoneAssumption DEF AnnounceEffect
      <4>3. Closing(chan[r][t]) \/ (chan[r][t] = <<>> /\ ~(sessions'[t][u] = r))
        BY <2>1, <3>2, <4>2 DEF Broken
      <4>4. Closing(chan[r][t]) => Ends(chan'[r][t], 0, u) /\ Revoked(chan'[r][t], u)
        BY <2>1, <4>1, ClosingSays
      <4>5. chan[r][t] = <<>> => Revoked(chan'[r][t], u)
        BY <4>1, EmptySays
      <4> QED
        BY <4>3, <4>4, <4>5 DEF Believed, Ends, Revoked, After
    <3> QED
      BY <3>1, <3>2
  <2>3. CASE ~(r = p /\ u = s)
    <3>1. /\ Lasts(r, u) => Lasts(r, u)'
          /\ sessions'[t][u] = r => sessions[t][u] = r
      BY <2>3, <1>0, NoneAssumption DEF AnnounceEffect, Lasts
    <3>2. CASE r = p /\ link[r][t] = "up"
      <4>1. chan'[r][t] = Append(chan[r][t], Gone(s)) /\ Gone(s) # News(u)
        BY <3>2, <1>0, Kinship DEF AnnounceEffect
      <4>2. /\ Ends(chan[r][t], 0, u) => Ends(chan'[r][t], 0, u)
            /\ Revoked(chan[r][t], u) => Revoked(chan'[r][t], u)
        BY <2>1, <4>1, AppendSays
      <4> QED
        BY <2>1, <3>1, <4>2 DEF Believed, Ends, Revoked, After
    <3>3. CASE ~(r = p /\ link[r][t] = "up")
      <4>1. chan'[r][t] = chan[r][t]
        BY <3>3, <1>0 DEF AnnounceEffect
      <4> QED
        BY <2>1, <3>1, <4>1, SameBelieved
    <3> QED
      BY <3>2, <3>3
  <2> QED
    BY <2>2, <2>3
<1> QED
  BY <1>1, <1>2 DEF Shadows

LEMMA ShadowsConnect ==
    ASSUME IInv, Shadows, NEW p \in Peer, NEW q \in Peer, Connect(p, q)
    PROVE  Shadows'
<1>1. ASSUME NEW r \in Peer, NEW t \in Peer PROVE Broken(r, t)'
  <2>1. Broken(r, t)
    BY DEF Shadows
  <2>2. CASE r = p /\ t = q
    <3>1. link'[r][t] = "up"
      BY <2>2, ConnectFacts
    <3> QED
      BY <3>1 DEF Broken
  <2>3. CASE ~(r = p /\ t = q)
    <3>1. chan'[r][t] = chan[r][t] /\ link'[r][t] = link[r][t] /\ (r \in conn'[t] => r \in conn[t])
      BY <2>3, ConnectFacts
    <3> QED
      BY <2>1, <3>1, SameBroken
  <2> QED
    BY <2>2, <2>3
<1>2. ASSUME NEW r \in Peer, NEW t \in Peer, NEW u \in Id \ undone' PROVE Believed(r, t, u)'
  <2>0. u \in Id /\ u \notin undone
    BY ConnectFacts
  <2>1. Believed(r, t, u)
    BY <2>0 DEF Shadows
  <2>2. Lasts(r, u)' <=> Lasts(r, u)
    BY ConnectFacts DEF Lasts
  <2>3. sessions' = sessions
    BY ConnectFacts
  <2>4. CASE r = p /\ t = q
    <3>1. sessions[q][u] # p
      <4>1. p # q /\ p \notin conn[q]
        BY ConnectFacts
      <4>2. /\ u \in brought[q][p] <=> p # q /\ sessions[q][u] = p
            /\ u \in brought[q][p] => p \in conn[q]
        BY Shapes, AttachedBy DEF IInv
      <4> QED
        BY <4>1, <4>2
    <3>2. Lasts(p, u) \/ Revoked(chan'[p][q], u)
      <4>1. u \in Local(p) => Lasts(p, u)
        <5>1. u \in Local(p) => sessions[p][u] = p
          BY DEF Local
        <5>2. Believed(p, p, u) /\ ~Ends(chan[p][p], 0, u)
          <6>1. chan[p][p] = <<>>
            BY Shapes DEF AllFramed, Framed
          <6> QED
            BY <2>0, <6>1, EmptySays DEF Shadows
        <5> QED
          BY <5>1, <5>2 DEF Believed
      <4>2. u \notin Local(p) => Revoked(chan'[p][q], u)
        <5>1. Has(chan'[p][q], News(u)) <=> u \in Local(p)
          BY ConnectFacts DEF Welcome
        <5> QED
          BY <5>1 DEF Has, Revoked
      <4> QED
        BY <4>1, <4>2
    <3> QED
      BY <2>2, <2>3, <2>4, <3>1, <3>2 DEF Believed, Revoked, Ends, After
  <2>5. CASE ~(r = p /\ t = q)
    <3>1. chan'[r][t] = chan[r][t]
      BY <2>5, ConnectFacts
    <3> QED
      BY <2>1, <2>2, <2>3, <3>1, SameBelieved
  <2> QED
    BY <2>4, <2>5
<1> QED
  BY <1>1, <1>2 DEF Shadows

LEMMA ShadowsCut ==
    ASSUME IInv, Shadows, NEW p \in Peer, NEW q \in Peer, Cut(p, q)
    PROVE  Shadows'
<1>1. ASSUME NEW r \in Peer, NEW t \in Peer PROVE Broken(r, t)' /\ \A u \in Id \ undone' : Believed(r, t, u)'
  <2>1. Broken(r, t) /\ \A u \in Id \ undone : Believed(r, t, u)
    BY DEF Shadows
  <2>2. CASE r = p /\ t = q
    <3>1. Closing(chan'[r][t]) /\ chan'[r][t] \in Seq(Msg)
      BY <2>2, CutFacts
    <3>2. \A u \in Id : Ends(chan'[r][t], 0, u) /\ Revoked(chan'[r][t], u)
      BY <3>1, ClosingSays
    <3> QED
      BY <3>1, <3>2 DEF Broken, Closing, Believed, Revoked, Ends, After
  <2>3. CASE ~(r = p /\ t = q)
    <3>1. chan'[r][t] = chan[r][t] /\ link'[r][t] = link[r][t] /\ (r \in conn'[t] => r \in conn[t]) /\ sessions' = sessions
      BY <2>3, CutFacts
    <3>2. undone' = undone /\ \A u \in Id : Lasts(r, u)' <=> Lasts(r, u)
      BY CutFacts DEF Lasts
    <3> QED
      BY <2>1, <3>1, <3>2, SameBroken, SameBelieved
  <2> QED
    BY <2>2, <2>3
<1> QED
  BY <1>1 DEF Shadows

LEMMA ReadBroken ==
    ASSUME IInv, NEW p \in Peer, NEW q \in Peer, NEW o, Read(p, q, o), o # "eof", Broken(p, q),
           p \in conn'[q] => p \in conn[q] \/ o = "hello"
    PROVE  Broken(p, q)'
<1>1. chan[p][q] \in Seq(Msg) /\ chan[p][q] # <<>> /\ chan'[p][q] = Tail(chan[p][q]) /\ link' = link
  BY Shapes DEF Read
<1>2. Head(chan[p][q]) # Eof
  BY DEF Read, Eof
<1>3. link[p][q] = "dialing" => Closing(Tail(chan[p][q]))
  BY <1>1, <1>2, TailSays DEF Broken
<1> QED
  BY <1>1, <1>3 DEF Broken, Closing

LEMMA ReadBelieved ==
    ASSUME IInv, NEW p \in Peer, NEW q \in Peer, NEW o, Read(p, q, o), NEW u \in Id, Believed(p, q, u),
           Lasts(p, u) => Lasts(p, u)',
           sessions'[q][u] = p =>
             (sessions[q][u] = p /\ Head(chan[p][q]) \notin {Eof, Gone(u)}) \/ Head(chan[p][q]) = News(u)
    PROVE  Believed(p, q, u)'
<1>1. chan[p][q] \in Seq(Msg) /\ chan[p][q] # <<>> /\ chan'[p][q] = Tail(chan[p][q])
  BY Shapes DEF Read
<1>2. Revoked(chan[p][q], u) => Revoked(chan'[p][q], u)
  BY <1>1, TailSays
<1>3. ASSUME sessions'[q][u] = p, ~Lasts(p, u)' PROVE Ends(chan'[p][q], 0, u)
  <2>1. ~Lasts(p, u)
    BY <1>3
  <2>2. CASE sessions[q][u] = p /\ Head(chan[p][q]) \notin {Eof, Gone(u)}
    <3>1. Ends(chan[p][q], 0, u)
      BY <2>1, <2>2 DEF Believed
    <3> QED
      BY <1>1, <2>2, <3>1, TailSays
  <2>3. CASE Head(chan[p][q]) = News(u)
    <3>1. Revoked(chan[p][q], u)
      BY <2>1 DEF Believed
    <3> QED
      BY <1>1, <2>3, <3>1, TailSays
  <2> QED
    BY <1>3, <2>2, <2>3
<1> QED
  BY <1>2, <1>3 DEF Believed, Revoked, Ends, After

\* What one read must do, and must leave alone, for the shadows to stay.
LEMMA ShadowsRead ==
    ASSUME IInv, Shadows, NEW p \in Peer, NEW q \in Peer, NEW o, Read(p, q, o), o # "eof", undone' = undone,
           \A r, t \in Peer : r \in conn'[t] => r \in conn[t] \/ (o = "hello" /\ r = p /\ t = q),
           \A r \in Peer, u \in Id : Lasts(r, u) => Lasts(r, u)',
           \A r, t \in Peer, u \in Id : <<r, t>> # <<p, q>> /\ sessions'[t][u] = r => sessions[t][u] = r,
           \A u \in Id : sessions'[q][u] = p =>
             (sessions[q][u] = p /\ Head(chan[p][q]) \notin {Eof, Gone(u)}) \/ Head(chan[p][q]) = News(u)
    PROVE  Shadows'
<1>1. ASSUME NEW r \in Peer, NEW t \in Peer PROVE Broken(r, t)'
  <2>1. Broken(r, t)
    BY DEF Shadows
  <2>2. CASE r = p /\ t = q
    <3>1. Broken(p, q) /\ (p \in conn'[q] => p \in conn[q] \/ o = "hello")
      BY <2>1, <2>2
    <3> QED
      BY <2>2, <3>1, ReadBroken
  <2>3. CASE ~(r = p /\ t = q)
    <3>1. chan'[r][t] = chan[r][t] /\ link'[r][t] = link[r][t] /\ (r \in conn'[t] => r \in conn[t])
      BY <2>3 DEF Read
    <3> QED
      BY <2>1, <3>1, SameBroken
  <2> QED
    BY <2>2, <2>3
<1>2. ASSUME NEW r \in Peer, NEW t \in Peer, NEW u \in Id \ undone' PROVE Believed(r, t, u)'
  <2>1. Believed(r, t, u) /\ (Lasts(r, u) => Lasts(r, u)')
    BY DEF Shadows
  <2>2. CASE r = p /\ t = q
    <3>1. /\ Believed(p, q, u) /\ (Lasts(p, u) => Lasts(p, u)')
          /\ sessions'[q][u] = p =>
               (sessions[q][u] = p /\ Head(chan[p][q]) \notin {Eof, Gone(u)}) \/ Head(chan[p][q]) = News(u)
      BY <2>1, <2>2
    <3> QED
      BY <2>2, <3>1, ReadBelieved
  <2>3. CASE ~(r = p /\ t = q)
    <3>1. chan'[r][t] = chan[r][t] /\ (sessions'[t][u] = r => sessions[t][u] = r)
      BY <2>3 DEF Read
    <3> QED
      BY <2>1, <3>1, SameBelieved
  <2> QED
    BY <2>2, <2>3
<1> QED
  BY <1>1, <1>2 DEF Shadows

LEMMA ShadowsHello ==
    ASSUME IInv, Shadows, NEW p \in Peer, NEW q \in Peer, ReadHello(p, q)
    PROVE  Shadows'
<1>0. HelloEffect(p, q)
  BY HelloFacts
<1>1. Read(p, q, "hello") /\ "hello" # "eof" /\ undone' = undone
  BY <1>0 DEF HelloEffect
<1>2. \A r, t \in Peer : r \in conn'[t] => r \in conn[t] \/ ("hello" = "hello" /\ r = p /\ t = q)
  BY <1>0 DEF HelloEffect
<1>3. \A r \in Peer, u \in Id : Lasts(r, u) => Lasts(r, u)'
  BY <1>0 DEF HelloEffect, Lasts
<1>4. \A r, t \in Peer, u \in Id : <<r, t>> # <<p, q>> /\ sessions'[t][u] = r => sessions[t][u] = r
  BY <1>0 DEF HelloEffect
<1>5. \A u \in Id : sessions'[q][u] = p =>
        (sessions[q][u] = p /\ Head(chan[p][q]) \notin {Eof, Gone(u)}) \/ Head(chan[p][q]) = News(u)
  BY <1>0, Kinship DEF HelloEffect
<1> QED
  BY <1>1, <1>2, <1>3, <1>4, <1>5, ShadowsRead

LEMMA ShadowsNews ==
    ASSUME IInv, Shadows, NEW p \in Peer, NEW q \in Peer, ReadAdded(p, q)
    PROVE  Shadows'
<1>0. PICK s \in Id : NewsEffect(p, q, s)
  BY NewsFacts
<1>1. Read(p, q, "added") /\ "added" # "eof" /\ undone' = undone
  BY <1>0 DEF NewsEffect
<1>2. \A r, t \in Peer : r \in conn'[t] => r \in conn[t] \/ ("added" = "hello" /\ r = p /\ t = q)
  BY <1>0 DEF NewsEffect
<1>3. \A r \in Peer, u \in Id : Lasts(r, u) => Lasts(r, u)'
  BY <1>0 DEF NewsEffect, Lasts
<1>4. \A r, t \in Peer, u \in Id : <<r, t>> # <<p, q>> /\ sessions'[t][u] = r => sessions[t][u] = r
  BY <1>0 DEF NewsEffect
<1>5. \A u \in Id : sessions'[q][u] = p =>
        (sessions[q][u] = p /\ Head(chan[p][q]) \notin {Eof, Gone(u)}) \/ Head(chan[p][q]) = News(u)
  BY <1>0, Kinship DEF NewsEffect
<1> QED
  BY <1>1, <1>2, <1>3, <1>4, <1>5, ShadowsRead

LEMMA ShadowsGone ==
    ASSUME IInv, Shadows, NEW p \in Peer, NEW q \in Peer, ReadRemoved(p, q)
    PROVE  Shadows'
<1>0. PICK s \in Id : GoneEffect(p, q, s)
  BY GoneFacts
<1>1. Read(p, q, "removed") /\ "removed" # "eof" /\ undone' = undone
  BY <1>0 DEF GoneEffect
<1>2. \A r, t \in Peer : r \in conn'[t] => r \in conn[t] \/ ("removed" = "hello" /\ r = p /\ t = q)
  BY <1>0 DEF GoneEffect
<1>3. \A r \in Peer, u \in Id : Lasts(r, u) => Lasts(r, u)'
  BY <1>0 DEF GoneEffect, Lasts
<1>4. \A r, t \in Peer, u \in Id : <<r, t>> # <<p, q>> /\ sessions'[t][u] = r => sessions[t][u] = r
  BY <1>0, NoneAssumption DEF GoneEffect
<1>5. \A u \in Id : sessions'[q][u] = p =>
        (sessions[q][u] = p /\ Head(chan[p][q]) \notin {Eof, Gone(u)}) \/ Head(chan[p][q]) = News(u)
  <2> SUFFICES ASSUME NEW u \in Id, sessions'[q][u] = p
               PROVE  sessions[q][u] = p /\ Head(chan[p][q]) \notin {Eof, Gone(u)}
    OBVIOUS
  <2>1. Head(chan[p][q]) = Gone(s) /\ sessions'[q][u] =
          IF u = s /\ sessions[q][s] = p THEN None ELSE sessions[q][u]
    BY <1>0 DEF GoneEffect
  <2>2. u # s /\ sessions[q][u] = p
    BY <2>1, NoneAssumption
  <2> QED
    BY <2>1, <2>2, Kinship
<1> QED
  BY <1>1, <1>2, <1>3, <1>4, <1>5, ShadowsRead

LEMMA ShadowsEnd ==
    ASSUME IInv, Shadows, NEW p \in Peer, NEW q \in Peer, Forget(p, q)
    PROVE  Shadows'
<1>0. EndEffect(p, q)
  BY EndFacts
<1>1. ASSUME NEW r \in Peer, NEW t \in Peer PROVE Broken(r, t)' /\ \A u \in Id \ undone' : Believed(r, t, u)'
  <2>1. Broken(r, t) /\ \A u \in Id \ undone : Believed(r, t, u)
    BY DEF Shadows
  <2>2. CASE r = p /\ t = q
    <3>1. chan'[r][t] = <<>> /\ r \notin conn'[t]
      BY <1>0, <2>2 DEF EndEffect
    <3>2. \A u \in Id : sessions'[t][u] # r
      BY <1>0, <2>2, NoneAssumption DEF EndEffect
    <3>3. \A u \in Id : Revoked(chan'[r][t], u)
      BY <3>1, EmptySays
    <3> QED
      BY <3>1, <3>2, <3>3 DEF Broken, Believed, Revoked, Ends, After
  <2>3. CASE ~(r = p /\ t = q)
    <3>1. chan'[r][t] = chan[r][t] /\ link'[r][t] = link[r][t] /\ (r \in conn'[t] => r \in conn[t])
      BY <1>0, <2>3 DEF EndEffect
    <3>2. undone' = undone /\ \A u \in Id : /\ Lasts(r, u)' <=> Lasts(r, u)
                                            /\ sessions'[t][u] = r => sessions[t][u] = r
      BY <1>0, NoneAssumption DEF EndEffect, Lasts
    <3> QED
      BY <2>1, <3>1, <3>2, SameBroken, SameBelieved
  <2> QED
    BY <2>2, <2>3
<1> QED
  BY <1>1 DEF Shadows

LEMMA ShadowsCrash ==
    ASSUME IInv, Shadows, NEW p \in Peer, Crash(p)
    PROVE  Shadows'
<1>0. CrashEffect(p)
  BY CrashFacts
<1>1. ASSUME NEW r \in Peer, NEW t \in Peer PROVE Broken(r, t)' /\ \A u \in Id \ undone' : Believed(r, t, u)'
  <2>1. /\ Broken(r, t) /\ \A u \in Id \ undone : Believed(r, t, u)
        /\ chan[r][t] \in Seq(Msg) /\ link[r][t] \in {"dialing", "up"}
        /\ \A u \in Id : sessions[t][u] = r /\ r # t => r \in conn[t]
    BY Shapes, AttachedBy DEF Shadows, IInv
  <2>2. CASE t = p
    <3>1. chan'[r][t] = <<>> /\ r \notin conn'[t] /\ \A u \in Id : sessions'[t][u] # r
      BY <1>0, <2>2, NoneAssumption DEF CrashEffect
    <3>2. \A u \in Id : Revoked(chan'[r][t], u)
      BY <3>1, EmptySays
    <3> QED
      BY <3>1, <3>2 DEF Broken, Believed, Revoked, Ends, After
  <2>3. CASE r = p /\ t # p
    <3>1. Closing(chan'[r][t]) \/ (chan'[r][t] = <<>> /\ r \notin conn[t])
      <4>1. CASE link[r][t] = "up"
        <5>1. chan'[r][t] = Append(chan[r][t], Eof)
          BY <1>0, <2>3, <4>1 DEF CrashEffect
        <5> QED
          BY <2>1, <5>1, AppendSays
      <4>2. CASE link[r][t] # "up"
        <5>1. chan'[r][t] = chan[r][t]
          BY <1>0, <2>3, <4>2 DEF CrashEffect
        <5> QED
          BY <2>1, <4>2, <5>1 DEF Broken
      <4> QED
        BY <4>1, <4>2
    <3>2. (r \in conn'[t] <=> r \in conn[t]) /\ \A u \in Id : sessions'[t][u] = sessions[t][u]
      BY <1>0, <2>3 DEF CrashEffect
    <3>3. chan'[r][t] \in Seq(Msg)
      <4>1. Append(chan[r][t], Eof) \in Seq(Msg)
        BY <2>1, MsgKinds DEF Kinds
      <4> QED
        BY <1>0, <2>1, <2>3, <4>1 DEF CrashEffect
    <3>4. CASE Closing(chan'[r][t])
      <4>1. \A u \in Id : Ends(chan'[r][t], 0, u) /\ Revoked(chan'[r][t], u)
        BY <3>3, <3>4, ClosingSays
      <4> QED
        BY <3>4, <4>1 DEF Broken, Closing, Believed, Revoked, Ends, After
    <3>5. CASE chan'[r][t] = <<>> /\ r \notin conn[t]
      <4>1. \A u \in Id : Revoked(chan'[r][t], u) /\ sessions'[t][u] # r
        BY <2>1, <2>3, <3>2, <3>5, EmptySays
      <4> QED
        BY <3>2, <3>5, <4>1 DEF Broken, Believed, Revoked, Ends, After
    <3> QED
      BY <3>1, <3>4, <3>5
  <2>4. CASE r # p /\ t # p
    <3>1. chan'[r][t] = chan[r][t] /\ link'[r][t] = link[r][t] /\ (r \in conn'[t] => r \in conn[t])
      BY <1>0, <2>4 DEF CrashEffect
    <3>2. undone' = undone /\ \A u \in Id : /\ Lasts(r, u)' <=> Lasts(r, u)
                                            /\ sessions'[t][u] = r => sessions[t][u] = r
      BY <1>0, <2>4 DEF CrashEffect, Lasts
    <3> QED
      BY <2>1, <3>1, <3>2, SameBroken, SameBelieved
  <2> QED
    BY <2>2, <2>3, <2>4
<1> QED
  BY <1>1 DEF Shadows

LEMMA ShadowsInit == Init => Shadows
<1> SUFFICES ASSUME Init PROVE Shadows
  OBVIOUS
<1>1. \A q, p \in Peer, s \in Id :
        chan[q][p] = <<>> /\ q \notin conn[p] /\ sessions[p][s] = None
  BY DEF Init, LinksInit
<1>2. \A s \in Id : Revoked(<<>>, s)
  BY EmptySays
<1>3. \A q, p \in Peer : chan[q][p] = <<>> /\ q \notin conn[p]
  BY DEF Init, LinksInit
<1> QED
  BY <1>1, <1>2, <1>3, NoneAssumption DEF Shadows, Broken, Believed

LEMMA ShadowsStep == IInv /\ Shadows /\ [Next]_vars => Shadows'
<1> SUFFICES ASSUME IInv, Shadows, [Next]_vars PROVE Shadows'
  OBVIOUS
<1>1. ASSUME NEW p \in Peer, NEW s \in Id,
             Start(p, s) \/ Close(p, s) \/ CloseOlder(p, s) \/ Announce(p, s)
      PROVE  Shadows'
  BY <1>1, ShadowsStart, ShadowsClose, ShadowsAnnounce
<1>6. ASSUME NEW p \in Peer, NEW s \in Id, NEW t \in Id, Change(p, s, t) \/ Arrive(p, s, t) PROVE Shadows'
  BY <1>6, ShadowsChange, ShadowsArrive
<1>2. ASSUME NEW p \in Peer, NEW q \in Peer, Connect(p, q) \/ Cut(p, q) PROVE Shadows'
  BY <1>2, ShadowsConnect, ShadowsCut
<1>3. ASSUME NEW p \in Peer, NEW q \in Peer,
             ReadHello(p, q) \/ ReadAdded(p, q) \/ ReadRemoved(p, q) \/ Forget(p, q)
      PROVE  Shadows'
  BY <1>3, ShadowsHello, ShadowsNews, ShadowsGone, ShadowsEnd
<1>4. ASSUME NEW p \in Peer, Crash(p) PROVE Shadows'
  BY <1>4, ShadowsCrash
<1>5. ASSUME UNCHANGED vars PROVE Shadows'
  BY <1>5 DEF Shadows, Broken, Believed, Lasts, Closing, Revoked, Ends, After, vars, links
<1> QED
  BY <1>1, <1>2, <1>3, <1>4, <1>5, <1>6 DEF Next

LEMMA NothingOnTheWay ==
    ASSUME IInv, Quiet, NEW p \in Peer, NEW q \in Peer
    PROVE  chan[q][p] = <<>> /\ (p # q => link[q][p] = "up")
<1>1. p # q => chan[q][p] = <<>> /\ link[q][p] = "up"
  BY DEF Quiet, Settled
<1>2. p = q => chan[q][p] = <<>>
  BY Shapes DEF AllFramed, Framed
<1> QED
  BY <1>1, <1>2

(* Once nothing is under way, every entry of a session map, on whatever    *)
(* peer, is for a session that is there: each end is announced over every  *)
(* connection that is up, and over those that are not the close of the     *)
(* socket takes everything back.  (Save for a session that an older one of *)
(* the same user closed before it was announced.)                          *)
THEOREM NoGhostHolds == Spec => []NoGhost
<1>1. IInv /\ Shadows => NoGhost
  <2> SUFFICES ASSUME IInv, Shadows, Quiet, NEW p \in Peer, NEW s \in Id \ undone, sessions[p][s] # None
               PROVE  object[sessions[p][s]][s] = "live"
    BY DEF NoGhost
  <2>1. PICK q \in Peer : q = sessions[p][s]
    BY Shapes DEF MapsOK
  <2>2. Believed(q, p, s) /\ ~Ends(chan[q][p], 0, s)
    BY NothingOnTheWay, EmptySays DEF Shadows
  <2>3. Lasts(q, s)
    BY <2>1, <2>2 DEF Believed
  <2>4. leaving[q] = {} /\ object[q][s] # "told" /\ object[q][s] \in {"none", "live", "told"}
    BY Shapes DEF Quiet, RestOK
  <2> QED
    BY <2>1, <2>3, <2>4 DEF Lasts
<1>2. Spec => []Shadows
  BY Invariance, ShadowsInit, ShadowsStep, PTL DEF Spec
<1> QED
  BY <1>1, <1>2, Invariance, PTL

-----------------------------------------------------------------------------
(* Of two sessions of one user at least one learns of the other.           *)

\* p has a session that it has announced.
Here(p, s) == object[p][s] = "live" /\ ~Arriving(p, s)

\* Of two peers that have both a session of a user and are connected both ways,
\* one has yet to read that the other has it.
Rivals(p, q, s) ==
    p # q /\ s \notin hasty /\ Here(p, s) /\ Here(q, s)
    /\ link[p][q] = "up" /\ link[q][p] = "up"
      => Has(chan[p][q], News(s)) \/ Has(chan[q][p], News(s))

Contest == \A p, q \in Peer, s \in Id : Rivals(p, q, s)

\* News that is there and is not read stays there.
Lingers(p, q) == \A s \in Id :
    Has(chan[p][q], News(s)) => Has(chan'[p][q], News(s)) \/ object'[q][s] # "live"

\* A step that starts nothing and brings up no link.
LEMMA ContestQuietly ==
    ASSUME IInv, Contest,
           \A p, q \in Peer : link'[p][q] = "up" => link[p][q] = "up" /\ Lingers(p, q),
           \A p \in Peer, s \in Id \ hasty' : Here(p, s)' => Here(p, s),
           hasty \subseteq hasty'
    PROVE  Contest'
<1> SUFFICES ASSUME NEW p \in Peer, NEW q \in Peer, NEW s \in Id, p # q, s \notin hasty',
                    Here(p, s)', Here(q, s)',
                    link'[p][q] = "up", link'[q][p] = "up"
             PROVE  Has(chan'[p][q], News(s)) \/ Has(chan'[q][p], News(s))
  BY DEF Contest, Rivals, Has, News
<1>1. Has(chan[p][q], News(s)) \/ Has(chan[q][p], News(s))
  BY DEF Contest, Rivals
<1>2. Lingers(p, q) /\ Lingers(q, p)
  OBVIOUS
<1> QED
  BY <1>1, <1>2 DEF Lingers, Here

LEMMA SameLingers ==
    ASSUME NEW p \in Peer, NEW q \in Peer, chan'[p][q] = chan[p][q]
    PROVE  Lingers(p, q)
  BY DEF Lingers

LEMMA ContestTold ==
    ASSUME IInv, Contest, NEW p \in Peer, NEW s \in Id, Told(p, s),
           \A r \in Peer, u \in Id : ~(r = p /\ u = s) /\ Here(r, u)' => Here(r, u)
    PROVE  Contest'
<1>0. Told(p, s)
  OBVIOUS
<1> SUFFICES ASSUME NEW r \in Peer, NEW t \in Peer, NEW u \in Id, r # t, u \notin hasty',
                    Here(r, u)', Here(t, u)',
                    link'[r][t] = "up", link'[t][r] = "up"
             PROVE  Has(chan'[r][t], News(u)) \/ Has(chan'[t][r], News(u))
  BY DEF Contest, Rivals, Has, News
<1>1. link[r][t] = "up" /\ link[t][r] = "up" /\ u \notin hasty
      /\ chan[r][t] \in Seq(Msg) /\ chan[t][r] \in Seq(Msg)
  BY <1>0, Shapes DEF Told
<1>2. \A x, y \in Peer : x = p /\ link[x][y] = "up" => chan'[x][y] = Append(chan[x][y], News(s))
  BY <1>0 DEF Told
<1>3. CASE u = s /\ r = p
  <2>1. chan'[r][t] = Append(chan[r][t], News(u))
    BY <1>1, <1>2, <1>3
  <2>2. Has(Append(chan[r][t], News(u)), News(u))
    BY <1>1, AppendHas
  <2> QED
    BY <2>1, <2>2
<1>4. CASE u = s /\ t = p
  <2>1. chan'[t][r] = Append(chan[t][r], News(u))
    BY <1>1, <1>2, <1>4
  <2>2. Has(Append(chan[t][r], News(u)), News(u))
    BY <1>1, AppendHas
  <2> QED
    BY <2>1, <2>2
<1>5. CASE ~(u = s /\ p \in {r, t})
  <2>1. Here(r, u) /\ Here(t, u)
    BY <1>5
  <2>2. Has(chan[r][t], News(u)) \/ Has(chan[t][r], News(u))
    BY <1>1, <2>1 DEF Contest, Rivals
  <2>3. /\ chan'[r][t] = chan[r][t] \/ chan'[r][t] = Append(chan[r][t], News(s))
        /\ chan'[t][r] = chan[t][r] \/ chan'[t][r] = Append(chan[t][r], News(s))
    BY <1>0 DEF Told
  <2>4. /\ Has(chan[r][t], News(u)) => Has(Append(chan[r][t], News(s)), News(u))
        /\ Has(chan[t][r], News(u)) => Has(Append(chan[t][r], News(s)), News(u))
    BY <1>1, AppendHas
  <2> QED
    BY <2>2, <2>3, <2>4
<1> QED
  BY <1>3, <1>4, <1>5

LEMMA ContestStart ==
    ASSUME IInv, Contest, NEW p \in Peer, NEW s \in Id, Start(p, s)
    PROVE  Contest'
<1>1. StartEffect(p, s)
  BY StartFacts
<1>2. \A r \in Peer, u \in Id : ~(r = p /\ u = s) /\ Here(r, u)' => Here(r, u)
  BY <1>1 DEF StartEffect, Here, Arriving
<1> QED
  BY <1>1, <1>2, ToldFacts, ContestTold

LEMMA ContestArrive ==
    ASSUME IInv, Contest, NEW p \in Peer, NEW s \in Id, NEW t \in Id, Arrive(p, s, t)
    PROVE  Contest'
<1>1. ArriveEffect(p, t)
  BY ArriveFacts
<1>2. \A r \in Peer, u \in Id : ~(r = p /\ u = t) /\ Here(r, u)' => Here(r, u)
  BY <1>1 DEF ArriveEffect, Here
<1> QED
  BY <1>1, <1>2, ToldFacts, ContestTold

LEMMA ContestConnect ==
    ASSUME IInv, Contest, NEW p \in Peer, NEW q \in Peer, Connect(p, q)
    PROVE  Contest'
<1> SUFFICES ASSUME NEW r \in Peer, NEW t \in Peer, NEW u \in Id, r # t, u \notin hasty',
                    Here(r, u)', Here(t, u)',
                    link'[r][t] = "up", link'[t][r] = "up"
             PROVE  Has(chan'[r][t], News(u)) \/ Has(chan'[t][r], News(u))
  BY DEF Contest, Rivals, Has, News
<1>1. /\ u \notin hasty /\ Here(r, u) /\ Here(t, u)
      /\ Welcome(chan'[p][q], p)
      /\ \A x, y \in Peer : <<x, y>> # <<p, q>> => chan'[x][y] = chan[x][y] /\ link'[x][y] = link[x][y]
  BY ConnectFacts DEF Here, Arriving
<1>2. u \in Local(r) /\ u \in Local(t)
  BY <1>1 DEF IInv, Hosted, ListedRight, Here
<1>3. CASE r = p /\ t = q
  BY <1>1, <1>2, <1>3 DEF Welcome
<1>4. CASE t = p /\ r = q
  BY <1>1, <1>2, <1>4 DEF Welcome
<1>5. CASE <<r, t>> # <<p, q>> /\ <<t, r>> # <<p, q>>
  <2>1. link[r][t] = "up" /\ link[t][r] = "up" /\ chan'[r][t] = chan[r][t] /\ chan'[t][r] = chan[t][r]
    BY <1>1, <1>5
  <2> QED
    BY <1>1, <2>1 DEF Contest, Rivals
<1> QED
  BY <1>3, <1>4, <1>5

LEMMA ContestStep == IInv /\ Contest /\ [Next]_vars => Contest'
<1> SUFFICES ASSUME IInv, Contest, [Next]_vars PROVE Contest'
  OBVIOUS
<1>0. \A p, q \in Peer : chan[p][q] \in Seq(Msg) /\ link[p][q] \in {"dialing", "up"}
  BY Shapes
<1>1. ASSUME NEW p \in Peer, NEW s \in Id, Start(p, s) PROVE Contest'
  BY <1>1, ContestStart
<1>2. ASSUME NEW p \in Peer, NEW s \in Id, Close(p, s) \/ CloseOlder(p, s) PROVE Contest'
  <2>0. CloseEffect(p, s)
    BY <1>2, Shapes, CloseFacts
  <2>1. UNCHANGED <<link, chan, hasty>> /\ \A r \in Peer, t \in Id : Here(r, t)' => Here(r, t)
    BY <2>0 DEF CloseEffect, Here, Arriving, links
  <2>2. \A r, t \in Peer : Lingers(r, t)
    BY <2>1, SameLingers
  <2> QED
    BY <2>1, <2>2, ContestQuietly
<1>13. ASSUME NEW p \in Peer, NEW s \in Id, NEW t \in Id, Change(p, s, t) PROVE Contest'
  <2>0. ChangeEffect(p, s, t)
    BY <1>13, Shapes, ChangeFacts
  <2>1. UNCHANGED <<link, chan>> /\ hasty \subseteq hasty'
    BY <2>0 DEF ChangeEffect, links
  <2>2. ASSUME NEW r \in Peer, NEW u \in Id, Here(r, u)' PROVE Here(r, u)
    <3>1. Arriving(r, u)' <=> Arriving(r, u) \/ (r = p /\ u = t)
      BY <2>0, ChangeArriving
    <3> QED
      BY <2>0, <2>2, <3>1 DEF ChangeEffect, Here
  <2>3. \A r, x \in Peer : Lingers(r, x)
    BY <2>1, SameLingers
  <2> QED
    BY <2>1, <2>2, <2>3, ContestQuietly
<1>14. ASSUME NEW p \in Peer, NEW s \in Id, NEW t \in Id, Arrive(p, s, t) PROVE Contest'
  BY <1>14, ContestArrive
<1>3. ASSUME NEW p \in Peer, NEW s \in Id, Announce(p, s) PROVE Contest'
  <2>0. AnnounceEffect(p, s)
    BY <1>3, AnnounceFacts
  <2>1. UNCHANGED <<link, hasty>> /\ \A r \in Peer, t \in Id : Here(r, t)' => Here(r, t)
    BY <2>0 DEF AnnounceEffect, Here, Arriving
  <2>2. ASSUME NEW r \in Peer, NEW t \in Peer PROVE Lingers(r, t)
    <3>1. chan'[r][t] = chan[r][t] \/ chan'[r][t] = Append(chan[r][t], Gone(s))
      BY <2>0 DEF AnnounceEffect
    <3>2. \A u \in Id : Has(chan[r][t], News(u)) => Has(Append(chan[r][t], Gone(s)), News(u))
      BY <1>0, AppendHas
    <3> QED
      BY <3>1, <3>2 DEF Lingers
  <2> QED
    BY <2>1, <2>2, ContestQuietly
<1>4. ASSUME NEW p \in Peer, NEW q \in Peer, Connect(p, q) PROVE Contest'
  BY <1>4, ContestConnect
<1>5. ASSUME NEW p \in Peer, NEW q \in Peer, Cut(p, q) PROVE Contest'
  <2>1. /\ hasty' = hasty /\ \A r \in Peer, t \in Id : Here(r, t)' => Here(r, t)
        /\ \A r, t \in Peer : link'[r][t] = "up" => link[r][t] = "up" /\ chan'[r][t] = chan[r][t]
    BY <1>5, CutFacts DEF Here, Arriving
  <2>2. \A r, t \in Peer : link'[r][t] = "up" => Lingers(r, t)
    BY <2>1, SameLingers
  <2> QED
    BY <2>1, <2>2, ContestQuietly
<1>6. ASSUME NEW p \in Peer, NEW q \in Peer, NEW o, Read(p, q, o), hasty' = hasty,
             \A r \in Peer, u \in Id : Here(r, u)' => Here(r, u),
             \A u \in Id : Head(chan[p][q]) = News(u) => object'[q][u] # "live"
      PROVE  Contest'
  <2>1. ASSUME NEW r \in Peer, NEW t \in Peer PROVE Lingers(r, t)
    <3>1. CASE r = p /\ t = q
      <4>1. chan[p][q] # <<>> /\ chan'[p][q] = Tail(chan[p][q])
        BY <1>6 DEF Read
      <4>2. ASSUME NEW u \in Id, Has(chan[p][q], News(u)), Head(chan[p][q]) # News(u)
            PROVE  Has(chan'[p][q], News(u))
        BY <1>0, <4>1, <4>2, TailAfter
      <4> QED
        BY <1>6, <3>1, <4>2 DEF Lingers
    <3>2. CASE ~(r = p /\ t = q)
      BY <1>6, <3>2, SameLingers DEF Read
    <3> QED
      BY <3>1, <3>2
  <2>2. \A r, t \in Peer : link'[r][t] = "up" => link[r][t] = "up" /\ Lingers(r, t)
    BY <1>6, <2>1 DEF Read
  <2> QED
    BY <1>6, <2>2, ContestQuietly
<1>7. ASSUME NEW p \in Peer, NEW q \in Peer, ReadHello(p, q) PROVE Contest'
  <2>1. HelloEffect(p, q)
    BY <1>7, HelloFacts
  <2>2. /\ Read(p, q, "hello") /\ hasty' = hasty /\ \A r \in Peer, u \in Id : Here(r, u)' => Here(r, u)
        /\ \A u \in Id : Head(chan[p][q]) # News(u)
    BY <2>1, Kinship DEF HelloEffect, Here, Arriving
  <2> QED
    BY <1>6, <2>2
<1>8. ASSUME NEW p \in Peer, NEW q \in Peer, ReadAdded(p, q) PROVE Contest'
  <2>1. PICK s \in Id : NewsEffect(p, q, s)
    BY <1>8, NewsFacts
  <2>2. /\ Read(p, q, "added") /\ hasty' = hasty
        /\ \A r \in Peer, u \in Id : Here(r, u)' => Here(r, u)
    BY <2>1 DEF NewsEffect, Here, Arriving
  <2>3. ASSUME NEW u \in Id, Head(chan[p][q]) = News(u) PROVE object'[q][u] # "live"
    <3>1. u = s
      BY <2>1, <2>3, Kinship DEF NewsEffect
    <3>2. object'[q][s] = IF object[q][s] # "none" THEN "told" ELSE object[q][s]
      BY <2>1 DEF NewsEffect
    <3> QED
      BY <3>1, <3>2
  <2> QED
    BY <1>6, <2>2, <2>3
<1>9. ASSUME NEW p \in Peer, NEW q \in Peer, ReadRemoved(p, q) PROVE Contest'
  <2>1. PICK s \in Id : GoneEffect(p, q, s)
    BY <1>9, GoneFacts
  <2>2. /\ Read(p, q, "removed") /\ hasty' = hasty /\ \A r \in Peer, u \in Id : Here(r, u)' => Here(r, u)
        /\ \A u \in Id : Head(chan[p][q]) # News(u)
    BY <2>1, Kinship DEF GoneEffect, Here, Arriving
  <2> QED
    BY <1>6, <2>2
<1>10. ASSUME NEW p \in Peer, NEW q \in Peer, Forget(p, q) PROVE Contest'
  <2>1. EndEffect(p, q)
    BY <1>10, EndFacts
  <2>2. /\ hasty' = hasty /\ \A r \in Peer, u \in Id : Here(r, u)' => Here(r, u)
        /\ \A r, t \in Peer : link'[r][t] = "up" => link[r][t] = "up" /\ chan'[r][t] = chan[r][t]
    BY <2>1 DEF EndEffect, Here, Arriving
  <2>3. \A r, t \in Peer : link'[r][t] = "up" => Lingers(r, t)
    BY <2>2, SameLingers
  <2> QED
    BY <2>2, <2>3, ContestQuietly
<1>11. ASSUME NEW p \in Peer, Crash(p) PROVE Contest'
  <2>1. CrashEffect(p)
    BY <1>11, CrashFacts
  <2>2. /\ hasty' = hasty
        /\ \A r \in Peer, u \in Id : Here(r, u)' => Here(r, u)
        /\ \A r, t \in Peer : link'[r][t] = "up" => link[r][t] = "up" /\ chan'[r][t] = chan[r][t]
    BY <2>1 DEF CrashEffect, Here
  <2>3. \A r, t \in Peer : link'[r][t] = "up" => Lingers(r, t)
    BY <2>2, SameLingers
  <2> QED
    BY <2>2, <2>3, ContestQuietly
<1>12. ASSUME UNCHANGED vars PROVE Contest'
  BY <1>12 DEF Contest, Rivals, Here, Arriving, Has, News, vars, links
<1> QED
  BY <1>1, <1>2, <1>3, <1>4, <1>5, <1>7, <1>8, <1>9, <1>10, <1>11, <1>12, <1>13, <1>14 DEF Next

(* Once nothing is under way no user has two sessions: of two that started *)
(* on different peers, in whatever order the news of them crossed, at      *)
(* least one was told to reconnect and has closed.  (Users who came to a   *)
(* peer that had a session of theirs, or was about to announce the end of  *)
(* one, are not spoken of.)                                                *)
THEOREM OneSessionHolds == Spec => []OneSession
<1>1. IInv /\ Contest => OneSession
  <2> SUFFICES ASSUME IInv, Contest, Quiet, NEW s \in Id \ hasty
               PROVE  Cardinality({p \in Peer : object[p][s] = "live"}) <= 1
    BY DEF OneSession
  <2> DEFINE L == {p \in Peer : object[p][s] = "live"}
  <2>1. ASSUME NEW p \in L, NEW q \in L PROVE p = q
    <3>1. chan[p][q] = <<>> /\ chan[q][p] = <<>> /\ (p # q => link[p][q] = "up" /\ link[q][p] = "up")
      BY NothingOnTheWay
    <3>2. ~Has(chan[p][q], News(s)) /\ ~Has(chan[q][p], News(s))
      BY <3>1, EmptySays
    <3>3. Here(p, s) /\ Here(q, s)
      BY DEF Quiet, Here, Arriving
    <3> QED
      BY <3>1, <3>2, <3>3 DEF Contest, Rivals
  <2> HIDE DEF L
  <2>2. CASE L = {}
    <3>1. Cardinality(L) = 0
      BY <2>2, FS_EmptySet
    <3> QED
      BY <3>1 DEF L
  <2>3. CASE L # {}
    <3>1. PICK p : p \in L
      BY <2>3
    <3>2. L = {p}
      BY <2>1, <3>1
    <3>3. Cardinality(L) = 1
      BY <3>2, FS_Singleton
    <3> QED
      BY <3>3 DEF L
  <2> QED
    BY <2>2, <2>3
<1>2. Init => Contest
  BY DEF Init, Contest, Rivals, Here
<1>3. Spec => []Contest
  BY <1>2, Invariance, ContestStep, PTL DEF Spec
<1> QED
  BY <1>1, <1>3, Invariance, PTL

-----------------------------------------------------------------------------
(* Everyone learns of the session of a user who has been on no other peer. *)

\* Whoever is said to have s, or has it, or will say so, is one of those that have had it.
Traced == \A q, p \in Peer, s \in Id :
    sessions[p][s] = q \/ Has(chan[q][p], News(s)) \/ Lasts(q, s) \/ Arriving(q, s) => q \in hosts[s]

\* q has had s, which no other peer has had, and is connected to p.
Due(q, p, s) ==
    p # q /\ hosts[s] = {q} /\ s \notin hasty /\ Here(q, s) /\ link[q][p] = "up"

\* What p has heard of s, or will hear last, is that it is on q.
Aware(q, p, s) == Stands(chan[q][p], s) \/ (sessions[p][s] = q /\ ~Has(chan[q][p], Gone(s)))

Informed == \A q, p \in Peer, s \in Id : Due(q, p, s) => Aware(q, p, s)

LEMMA TracedBy ==
    ASSUME Traced,
           \A s \in Id : hosts[s] \subseteq hosts'[s],
           \A q, p \in Peer, s \in Id : sessions'[p][s] = q =>
             sessions[p][s] = q \/ Has(chan[q][p], News(s)) \/ q \in hosts'[s],
           \A q, p \in Peer, s \in Id : Has(chan'[q][p], News(s)) =>
             Has(chan[q][p], News(s)) \/ q \in hosts'[s],
           \A q \in Peer, s \in Id : Lasts(q, s)' => Lasts(q, s) \/ q \in hosts'[s],
           \A q \in Peer, s \in Id : Arriving(q, s)' => Arriving(q, s) \/ q \in hosts'[s]
    PROVE  Traced'
<1> SUFFICES ASSUME NEW q \in Peer, NEW p \in Peer, NEW s \in Id,
                    sessions'[p][s] = q \/ Has(chan'[q][p], News(s)) \/ Lasts(q, s)' \/ Arriving(q, s)'
             PROVE  q \in hosts'[s]
  BY DEF Traced, Has, News
<1>1. sessions[p][s] = q \/ Has(chan[q][p], News(s)) \/ Lasts(q, s) \/ Arriving(q, s) \/ q \in hosts'[s]
  OBVIOUS
<1> QED
  BY <1>1 DEF Traced

LEMMA TracedRead ==
    ASSUME IInv, Traced, NEW p \in Peer, NEW q \in Peer, NEW o, Read(p, q, o), hosts' = hosts, changing' = changing,
           \A r \in Peer, u \in Id : Lasts(r, u)' => Lasts(r, u),
           \A r, t \in Peer, u \in Id : sessions'[t][u] = r =>
             sessions[t][u] = r \/ Has(chan[r][t], News(u))
    PROVE  Traced'
<1>1. ASSUME NEW r \in Peer, NEW t \in Peer, NEW u \in Id, Has(chan'[r][t], News(u))
      PROVE  Has(chan[r][t], News(u))
  <2>1. CASE r = p /\ t = q
    <3>1. chan[p][q] \in Seq(Msg) /\ chan[p][q] # <<>> /\ chan'[p][q] = Tail(chan[p][q])
      BY Shapes DEF Read
    <3>2. Has(Tail(chan[p][q]), News(u))
      BY <1>1, <2>1, <3>1
    <3>3. Has(chan[p][q], News(u))
      BY <3>1, <3>2, TailAfter
    <3> QED
      BY <2>1, <3>3
  <2>2. CASE ~(r = p /\ t = q)
    BY <1>1, <2>2 DEF Read
  <2> QED
    BY <2>1, <2>2
<1>2. \A r \in Peer, u \in Id : Arriving(r, u)' => Arriving(r, u)
  BY DEF Arriving
<1> QED
  BY <1>1, <1>2, TracedBy

LEMMA HeadHas ==
    ASSUME NEW p \in Peer, NEW q \in Peer, NEW o, Read(p, q, o), IInv
    PROVE  Has(chan[p][q], Head(chan[p][q]))
<1>1. chan[p][q] \in Seq(Msg) /\ chan[p][q] # <<>>
  BY Shapes DEF Read
<1>2. 1 \in DOMAIN chan[p][q] /\ Head(chan[p][q]) = chan[p][q][1]
  BY <1>1, TailParts
<1> QED
  BY <1>2 DEF Has

LEMMA TracedStep == IInv /\ Traced /\ [Next]_vars => Traced'
<1> SUFFICES ASSUME IInv, Traced, [Next]_vars PROVE Traced'
  OBVIOUS
<1>0. \A p, q \in Peer : chan[p][q] \in Seq(Msg) /\ link[p][q] \in {"dialing", "up"}
  BY Shapes
<1>1. ASSUME NEW p \in Peer, NEW s \in Id, Told(p, s), p \in hosts'[s],
             \A u \in Id : hosts[u] \subseteq hosts'[u],
             \A r \in Peer, u \in Id : Lasts(r, u)' => Lasts(r, u) \/ r \in hosts'[u],
             \A r \in Peer, u \in Id : Arriving(r, u)' => Arriving(r, u)
      PROVE  Traced'
  <2>1. Told(p, s)
    BY <1>1
  <2>2. \A r, t \in Peer, u \in Id : sessions'[t][u] = r => sessions[t][u] = r \/ r \in hosts'[u]
    BY <1>1 DEF Told
  <2>3. ASSUME NEW r \in Peer, NEW t \in Peer, NEW u \in Id, Has(chan'[r][t], News(u))
        PROVE  Has(chan[r][t], News(u)) \/ r \in hosts'[u]
    <3>1. chan'[r][t] = chan[r][t] \/ (r = p /\ chan'[r][t] = Append(chan[r][t], News(s)))
      BY <2>1 DEF Told
    <3>2. Has(Append(chan[r][t], News(s)), News(u)) => Has(chan[r][t], News(u)) \/ News(u) = News(s)
      BY <1>0, AppendHas
    <3> QED
      BY <1>1, <2>3, <3>1, <3>2, Kinship
  <2> QED
    BY <1>1, <2>2, <2>3, TracedBy
<1>12. ASSUME NEW p \in Peer, NEW s \in Id, Start(p, s) PROVE Traced'
  <2>1. StartEffect(p, s)
    BY <1>12, StartFacts
  <2>2. /\ p \in hosts'[s]
        /\ \A u \in Id : hosts[u] \subseteq hosts'[u]
        /\ \A r \in Peer, u \in Id : Lasts(r, u)' => Lasts(r, u) \/ r \in hosts'[u]
        /\ \A r \in Peer, u \in Id : Arriving(r, u)' => Arriving(r, u)
    BY <2>1 DEF StartEffect, Lasts, Arriving
  <2> QED
    BY <1>1, <2>1, <2>2, ToldFacts
<1>13. ASSUME NEW p \in Peer, NEW s \in Id, NEW t \in Id, Arrive(p, s, t) PROVE Traced'
  <2>1. ArriveEffect(p, t)
    BY <1>13, ArriveFacts
  <2>2. hosts' = hosts /\ p \in hosts[t]
    BY <2>1 DEF ArriveEffect, Traced
  <2>3. /\ \A r \in Peer, u \in Id : Lasts(r, u)' => Lasts(r, u)
        /\ \A r \in Peer, u \in Id : Arriving(r, u)' => Arriving(r, u)
    BY <2>1 DEF ArriveEffect, Lasts
  <2> QED
    BY <1>1, <2>1, <2>2, <2>3, ToldFacts
<1>14. ASSUME NEW p \in Peer, NEW s \in Id, NEW t \in Id, Change(p, s, t) PROVE Traced'
  <2>1. ChangeEffect(p, s, t)
    BY <1>14, Shapes, ChangeFacts
  <2>2. UNCHANGED <<chan, sessions>> /\ p \in hosts'[t] /\ \A u \in Id : hosts[u] \subseteq hosts'[u]
    BY <2>1 DEF ChangeEffect, links
  <2>3. ASSUME NEW r \in Peer, NEW u \in Id, Lasts(r, u)' PROVE Lasts(r, u) \/ r \in hosts'[u]
    BY <2>1, <2>2, <2>3 DEF ChangeEffect, Lasts
  <2>4. ASSUME NEW r \in Peer, NEW u \in Id, Arriving(r, u)' PROVE Arriving(r, u) \/ r \in hosts'[u]
    BY <2>1, <2>2, <2>4, ChangeArriving
  <2> QED
    BY <2>2, <2>3, <2>4, TracedBy
<1>2. ASSUME NEW p \in Peer, NEW s \in Id, Close(p, s) \/ CloseOlder(p, s) PROVE Traced'
  <2>0. CloseEffect(p, s)
    BY <1>2, Shapes, CloseFacts
  <2>1. /\ UNCHANGED <<chan, sessions, hosts>>
        /\ \A r \in Peer, u \in Id : Lasts(r, u)' => Lasts(r, u)
        /\ \A r \in Peer, u \in Id : Arriving(r, u)' => Arriving(r, u)
    BY <2>0 DEF CloseEffect, Lasts, Arriving, links
  <2> QED
    BY <2>1, TracedBy
<1>3. ASSUME NEW p \in Peer, NEW s \in Id, Announce(p, s) PROVE Traced'
  <2>1. AnnounceEffect(p, s)
    BY <1>3, AnnounceFacts
  <2>2. /\ hosts' = hosts
        /\ \A r, t \in Peer, u \in Id : sessions'[t][u] = r => sessions[t][u] = r
        /\ \A r \in Peer, u \in Id : Lasts(r, u)' => Lasts(r, u)
        /\ \A r \in Peer, u \in Id : Arriving(r, u)' => Arriving(r, u)
    BY <2>1, NoneAssumption DEF AnnounceEffect, Lasts, Arriving
  <2>3. ASSUME NEW r \in Peer, NEW t \in Peer, NEW u \in Id, Has(chan'[r][t], News(u))
        PROVE  Has(chan[r][t], News(u))
    <3>1. chan'[r][t] = chan[r][t] \/ chan'[r][t] = Append(chan[r][t], Gone(s))
      BY <2>1 DEF AnnounceEffect
    <3>2. Has(Append(chan[r][t], Gone(s)), News(u)) => Has(chan[r][t], News(u)) \/ News(u) = Gone(s)
      BY <1>0, AppendHas
    <3> QED
      BY <2>3, <3>1, <3>2, Kinship
  <2> QED
    BY <2>2, <2>3, TracedBy
<1>4. ASSUME NEW p \in Peer, NEW q \in Peer, Connect(p, q) PROVE Traced'
  <2>1. /\ UNCHANGED <<sessions, hosts, object, ends>> /\ Welcome(chan'[p][q], p)
        /\ \A r, t \in Peer : <<r, t>> # <<p, q>> => chan'[r][t] = chan[r][t]
    BY <1>4, ConnectFacts
  <2>2. ASSUME NEW r \in Peer, NEW t \in Peer, NEW u \in Id, Has(chan'[r][t], News(u))
        PROVE  Has(chan[r][t], News(u)) \/ r \in hosts'[u]
    <3>1. CASE r = p /\ t = q
      <4>1. u \in Local(p)
        BY <2>1, <2>2, <3>1 DEF Welcome
      <4>2. sessions[p][u] = p
        BY <4>1 DEF Local
      <4> QED
        BY <2>1, <3>1, <4>2 DEF Traced
    <3>2. CASE <<r, t>> # <<p, q>>
      BY <2>1, <2>2, <3>2
    <3> QED
      BY <3>1, <3>2
  <2>3. \A r \in Peer, u \in Id : (Lasts(r, u)' => Lasts(r, u)) /\ (Arriving(r, u)' => Arriving(r, u))
    BY <2>1 DEF Lasts, Arriving
  <2> QED
    BY <2>1, <2>2, <2>3, TracedBy
<1>5. ASSUME NEW p \in Peer, NEW q \in Peer, Cut(p, q) PROVE Traced'
  <2>1. PICK n \in 0 .. Len(chan[p][q]) : chan' = [chan EXCEPT ![p][q] = Append(SubSeq(@, 1, n), Eof)]
    BY <1>5 DEF Cut, Break
  <2>2. UNCHANGED <<sessions, hosts, object, ends>>
    BY <1>5, CutFacts
  <2>3. ASSUME NEW r \in Peer, NEW t \in Peer, NEW u \in Id, Has(chan'[r][t], News(u))
        PROVE  Has(chan[r][t], News(u))
    <3>1. CASE r = p /\ t = q
      <4> DEFINE c == chan[p][q]
                 b == SubSeq(c, 1, n)
      <4>1. c \in Seq(Msg) /\ b \in Seq(Msg) /\ \A i \in DOMAIN b : i \in DOMAIN c /\ b[i] = c[i]
        BY <1>0, <2>1
      <4>2. chan'[p][q] = Append(b, Eof)
        BY <2>1, Shapes DEF LinksOK
      <4> HIDE DEF b
      <4>3. Has(Append(b, Eof), News(u)) => Has(b, News(u)) \/ News(u) = Eof
        BY <4>1, AppendHas
      <4>4. Has(b, News(u))
        BY <2>3, <3>1, <4>2, <4>3, Kinship
      <4>5. Has(c, News(u))
        BY <4>1, <4>4 DEF Has
      <4> QED
        BY <3>1, <4>5
    <3>2. CASE <<r, t>> # <<p, q>>
      BY <1>5, <2>3, <3>2, CutFacts
    <3> QED
      BY <3>1, <3>2
  <2>4. \A r \in Peer, u \in Id : (Lasts(r, u)' => Lasts(r, u)) /\ (Arriving(r, u)' => Arriving(r, u))
    BY <2>2 DEF Lasts, Arriving
  <2> QED
    BY <2>2, <2>3, <2>4, TracedBy
<1>6. ASSUME NEW p \in Peer, NEW q \in Peer, ReadHello(p, q) PROVE Traced'
  <2>1. HelloEffect(p, q)
    BY <1>6, HelloFacts
  <2>2. /\ Read(p, q, "hello") /\ UNCHANGED <<sessions, hosts, changing>>
        /\ \A r \in Peer, u \in Id : Lasts(r, u)' => Lasts(r, u)
    BY <2>1 DEF HelloEffect, Lasts
  <2> QED
    BY <2>2, TracedRead
<1>7. ASSUME NEW p \in Peer, NEW q \in Peer, ReadAdded(p, q) PROVE Traced'
  <2>1. PICK s \in Id : NewsEffect(p, q, s)
    BY <1>7, NewsFacts
  <2>2. /\ Read(p, q, "added") /\ UNCHANGED <<hosts, changing>>
        /\ \A r \in Peer, u \in Id : Lasts(r, u)' => Lasts(r, u)
    BY <2>1 DEF NewsEffect, Lasts
  <2>3. Has(chan[p][q], News(s))
    BY <2>1, HeadHas DEF NewsEffect
  <2>4. \A r, t \in Peer, u \in Id : sessions'[t][u] = r =>
          sessions[t][u] = r \/ Has(chan[r][t], News(u))
    BY <2>1, <2>3 DEF NewsEffect
  <2> QED
    BY <2>2, <2>4, TracedRead
<1>8. ASSUME NEW p \in Peer, NEW q \in Peer, ReadRemoved(p, q) PROVE Traced'
  <2>1. PICK s \in Id : GoneEffect(p, q, s)
    BY <1>8, GoneFacts
  <2>2. /\ Read(p, q, "removed") /\ UNCHANGED <<hosts, changing>>
        /\ \A r \in Peer, u \in Id : Lasts(r, u)' => Lasts(r, u)
        /\ \A r, t \in Peer, u \in Id : sessions'[t][u] = r => sessions[t][u] = r
    BY <2>1, NoneAssumption DEF GoneEffect, Lasts
  <2> QED
    BY <2>2, TracedRead
<1>9. ASSUME NEW p \in Peer, NEW q \in Peer, Forget(p, q) PROVE Traced'
  <2>1. EndEffect(p, q)
    BY <1>9, EndFacts
  <2>2. /\ hosts' = hosts
        /\ \A r \in Peer, u \in Id : (Lasts(r, u)' => Lasts(r, u)) /\ (Arriving(r, u)' => Arriving(r, u))
        /\ \A r, t \in Peer, u \in Id : sessions'[t][u] = r => sessions[t][u] = r
        /\ \A r, t \in Peer : chan'[r][t] = chan[r][t] \/ chan'[r][t] = <<>>
    BY <2>1, NoneAssumption DEF EndEffect, Lasts, Arriving
  <2>3. \A r, t \in Peer, u \in Id : Has(chan'[r][t], News(u)) => Has(chan[r][t], News(u))
    BY <2>2, EmptySays
  <2> QED
    BY <2>2, <2>3, TracedBy
<1>10. ASSUME NEW p \in Peer, Crash(p) PROVE Traced'
  <2>1. CrashEffect(p)
    BY <1>10, CrashFacts
  <2>2. /\ hosts' = hosts
        /\ \A r \in Peer, u \in Id : (Lasts(r, u)' => Lasts(r, u)) /\ (Arriving(r, u)' => Arriving(r, u))
        /\ \A r, t \in Peer, u \in Id : sessions'[t][u] = r => sessions[t][u] = r
    BY <2>1, NoneAssumption DEF CrashEffect, Lasts
  <2>3. ASSUME NEW r \in Peer, NEW t \in Peer, NEW u \in Id, Has(chan'[r][t], News(u))
        PROVE  Has(chan[r][t], News(u))
    <3>0. chan'[r][t] = IF r = p /\ link[r][t] = "up" THEN Append(chan[r][t], Eof)
                        ELSE IF t = p THEN <<>> ELSE chan[r][t]
      BY <2>1 DEF CrashEffect
    <3>1. chan'[r][t] = chan[r][t] \/ chan'[r][t] = <<>> \/ chan'[r][t] = Append(chan[r][t], Eof)
      BY <3>0
    <3>2. ~Has(<<>>, News(u))
      BY EmptySays
    <3>3. Has(Append(chan[r][t], Eof), News(u)) => Has(chan[r][t], News(u)) \/ News(u) = Eof
      BY <1>0, AppendHas
    <3> QED
      BY <2>3, <3>1, <3>2, <3>3, Kinship
  <2> QED
    BY <2>2, <2>3, TracedBy
<1>11. ASSUME UNCHANGED vars PROVE Traced'
  BY <1>11 DEF Traced, Has, News, Lasts, Arriving, vars, links
<1> QED
  BY <1>12, <1>13, <1>14, <1>2, <1>3, <1>4, <1>5, <1>6, <1>7, <1>8, <1>9, <1>10, <1>11 DEF Next

\* What p is aware of stays so if nothing is read and what it has heard stays.
LEMMA SameAware ==
    ASSUME NEW q \in Peer, NEW p \in Peer, NEW s \in Id, Aware(q, p, s),
           chan'[q][p] = chan[q][p], sessions[p][s] = q => sessions'[p][s] = q
    PROVE  Aware(q, p, s)'
  BY DEF Aware, Stands, After, Has, News, Gone

LEMMA AppendAware ==
    ASSUME IInv, NEW q \in Peer, NEW p \in Peer, NEW s \in Id, Aware(q, p, s), NEW m, m # Gone(s),
           chan'[q][p] = Append(chan[q][p], m), sessions[p][s] = q => sessions'[p][s] = q
    PROVE  Aware(q, p, s)'
<1>1. chan[q][p] \in Seq(Msg)
  BY Shapes
<1>2. Stands(chan[q][p], s) => Stands(chan'[q][p], s)
  BY <1>1, AppendSays
<1>3. Has(Append(chan[q][p], m), Gone(s)) => Has(chan[q][p], Gone(s)) \/ Gone(s) = m
  BY <1>1, AppendHas
<1> QED
  BY <1>2, <1>3 DEF Aware, Stands, After, Has, News, Gone

LEMMA ReadAware ==
    ASSUME IInv, NEW q \in Peer, NEW p \in Peer, NEW o, Read(q, p, o), NEW s \in Id, Aware(q, p, s),
           Head(chan[q][p]) = News(s) => sessions'[p][s] = q,
           sessions[p][s] = q /\ Head(chan[q][p]) # Gone(s) => sessions'[p][s] = q
    PROVE  Aware(q, p, s)'
<1> DEFINE c == chan[q][p]
<1>1. c \in Seq(Msg) /\ c # <<>> /\ chan'[q][p] = Tail(c)
  BY Shapes DEF Read
<1>2. Has(c, Head(c))
  BY HeadHas
<1> HIDE DEF c
<1>3. CASE Stands(c, s)
  <2>1. CASE Head(c) = News(s)
    <3>1. Stands(Tail(c), s) \/ ~Has(Tail(c), Gone(s))
      BY <1>1, <1>3, TailSays
    <3>2. sessions'[p][s] = q
      BY <2>1 DEF c
    <3> QED
      BY <1>1, <3>1, <3>2 DEF Aware, Stands, After, Has, News, Gone
  <2>2. CASE Head(c) # News(s)
    <3>1. Stands(Tail(c), s)
      BY <1>1, <1>3, <2>2, TailSays
    <3> QED
      BY <1>1, <3>1 DEF Aware, Stands, After, Has, News, Gone
  <2> QED
    BY <2>1, <2>2
<1>4. CASE sessions[p][s] = q /\ ~Has(c, Gone(s))
  <2>1. Head(c) # Gone(s)
    BY <1>2, <1>4
  <2>2. sessions'[p][s] = q
    BY <1>4, <2>1 DEF c
  <2>3. ~Has(Tail(c), Gone(s))
    BY <1>1, <1>4, TailAfter
  <2> QED
    BY <1>1, <2>2, <2>3 DEF Aware, Stands, After, Has, News, Gone
<1> QED
  BY <1>3, <1>4 DEF Aware, c

LEMMA WelcomeAware ==
    ASSUME NEW q \in Peer, NEW p \in Peer, NEW s \in Id, Welcome(chan'[q][p], q), s \in Local(q)
    PROVE  Aware(q, p, s)'
<1>1. Has(chan'[q][p], News(s)) /\ ~Has(chan'[q][p], Gone(s))
  BY DEF Welcome
<1>2. Stands(chan'[q][p], s)
  BY <1>1 DEF Stands, Has, After
<1> QED
  BY <1>2 DEF Aware, Stands, After, Has, News, Gone

LEMMA InformedStep == IInv /\ Traced /\ Informed /\ [Next]_vars => Informed'
<1> SUFFICES ASSUME IInv, Traced, Informed, [Next]_vars,
                    NEW q \in Peer, NEW p \in Peer, NEW s \in Id, Due(q, p, s)'
             PROVE  Aware(q, p, s)'
  BY DEF Informed
<1>0. p # q /\ hosts'[s] = {q} /\ s \notin hasty' /\ Here(q, s)' /\ link'[q][p] = "up"
  BY DEF Due
<1>1. ASSUME Due(q, p, s) PROVE Aware(q, p, s)
  BY <1>1 DEF Informed
<1>2. ASSUME hosts' = hosts, NEW r \in Peer,
             r # q, Lasts(r, s) \/ Arriving(r, s) \/ \E t \in Peer : Has(chan[r][t], News(s))
      PROVE  FALSE
  BY <1>0, <1>2 DEF Traced
<1>3. ASSUME NEW x \in Peer, NEW u \in Id, Told(x, u), u = s => x = q,
             u # s => hosts'[s] = hosts[s] /\ (Here(q, s)' => Here(q, s))
      PROVE  Aware(q, p, s)'
  <2>0. Told(x, u)
    BY <1>3
  <2>1. link' = link /\ s \notin hasty /\ chan[q][p] \in Seq(Msg)
    BY <1>0, <2>0, Shapes DEF Told
  <2>2. CASE u = s
    <3>1. chan'[q][p] = Append(chan[q][p], News(s))
      <4>1. x = q /\ link[q][p] = "up"
        BY <1>0, <1>3, <2>1, <2>2
      <4>2. chan'[q][p] = IF q = x /\ link[q][p] = "up" THEN Append(chan[q][p], News(u)) ELSE chan[q][p]
        BY <2>0 DEF Told
      <4> QED
        BY <2>2, <4>1, <4>2
    <3>2. Stands(Append(chan[q][p], News(s)), s)
      BY <2>1, AppendSays
    <3> QED
      BY <3>1, <3>2 DEF Aware, Stands, After, Has, News, Gone
  <2>3. CASE u # s
    <3>1. hosts'[s] = hosts[s] /\ Here(q, s) /\ sessions'[p][s] = sessions[p][s]
      BY <1>0, <1>3, <2>0, <2>3 DEF Told
    <3>2. Aware(q, p, s)
      BY <1>0, <1>1, <2>1, <3>1 DEF Due
    <3>3. chan'[q][p] = chan[q][p] \/ chan'[q][p] = Append(chan[q][p], News(u))
      BY <2>0 DEF Told
    <3>4. News(u) # Gone(s)
      BY Kinship
    <3> QED
      BY <3>1, <3>2, <3>3, <3>4, SameAware, AppendAware
  <2> QED
    BY <2>2, <2>3
<1>15. ASSUME NEW x \in Peer, NEW u \in Id, Start(x, u) PROVE Aware(q, p, s)'
  <2>1. StartEffect(x, u)
    BY <1>15, StartFacts
  <2>2. u = s => x = q
    BY <1>0, <2>1 DEF StartEffect
  <2>3. u # s => hosts'[s] = hosts[s] /\ (Here(q, s)' => Here(q, s))
    BY <2>1 DEF StartEffect, Here, Arriving
  <2> QED
    BY <1>3, <2>1, <2>2, <2>3, ToldFacts
<1>16. ASSUME NEW x \in Peer, NEW v \in Id, NEW u \in Id, Arrive(x, v, u) PROVE Aware(q, p, s)'
  <2>1. ArriveEffect(x, u)
    BY <1>16, ArriveFacts
  <2>2. hosts' = hosts /\ Arriving(x, u)
    BY <2>1 DEF ArriveEffect
  <2>3. u = s => x = q
    BY <1>2, <2>2
  <2>4. u # s => (Here(q, s)' => Here(q, s))
    BY <2>1 DEF ArriveEffect, Here
  <2> QED
    BY <1>3, <2>1, <2>2, <2>3, <2>4, ToldFacts
<1>17. ASSUME NEW x \in Peer, NEW v \in Id, NEW u \in Id, Change(x, v, u) PROVE Aware(q, p, s)'
  <2>1. ChangeEffect(x, v, u)
    BY <1>17, Shapes, ChangeFacts
  <2>2. Arriving(q, s)' <=> Arriving(q, s) \/ (q = x /\ s = u)
    BY <2>1, ChangeArriving
  <2>3. UNCHANGED <<link, chan, sessions>> /\ s \notin hasty
    BY <1>0, <2>1 DEF ChangeEffect, links
  <2>4. s # u
    <3>1. CASE s = u
      <4>1. x = q
        BY <1>0, <2>1, <3>1 DEF ChangeEffect
      <4> QED
        BY <1>0, <2>2, <3>1, <4>1 DEF Here
    <3> QED
      BY <3>1
  <2>5. hosts'[s] = hosts[s] /\ Here(q, s)
    BY <1>0, <2>1, <2>2, <2>4 DEF ChangeEffect, Here
  <2>6. Aware(q, p, s)
    BY <1>0, <1>1, <2>3, <2>5 DEF Due
  <2> QED
    BY <2>3, <2>6, SameAware
<1>4. ASSUME NEW x \in Peer, NEW u \in Id, Close(x, u) \/ CloseOlder(x, u) PROVE Aware(q, p, s)'
  <2>0. CloseEffect(x, u)
    BY <1>4, Shapes, CloseFacts
  <2>1. UNCHANGED <<link, chan, sessions, hosts, hasty>> /\ Here(q, s)
    BY <1>0, <2>0 DEF CloseEffect, Here, Arriving, links
  <2>2. Aware(q, p, s)
    BY <1>0, <1>1, <2>1 DEF Due
  <2> QED
    BY <2>1, <2>2, SameAware
<1>5. ASSUME NEW x \in Peer, NEW u \in Id, Announce(x, u) PROVE Aware(q, p, s)'
  <2>0. AnnounceEffect(x, u)
    BY <1>5, AnnounceFacts
  <2>1. UNCHANGED <<link, object, changing, hosts, hasty, undone>> /\ u \in leaving[x]
    BY <2>0 DEF AnnounceEffect
  <2>2. Here(q, s) /\ Aware(q, p, s)
    BY <1>0, <1>1, <2>1 DEF Due, Here, Arriving
  <2>3. u # s
    <3>1. ASSUME s \in leaving[x] PROVE FALSE
      <4>1. x = q
        BY <1>2, <2>1, <3>1 DEF Lasts
      <4> QED
        BY <1>0, <2>1, <2>2, <3>1, <4>1 DEF IInv, Overtaken, Here, Arriving
    <3> QED
      BY <2>1, <3>1
  <2>4. chan'[q][p] = chan[q][p] \/ chan'[q][p] = Append(chan[q][p], Gone(u))
    BY <2>0 DEF AnnounceEffect
  <2>5. sessions'[p][s] = sessions[p][s] /\ Gone(u) # Gone(s)
    BY <2>0, <2>3, Kinship DEF AnnounceEffect
  <2> QED
    BY <2>2, <2>4, <2>5, SameAware, AppendAware
<1>6. ASSUME NEW x \in Peer, NEW y \in Peer, Connect(x, y) PROVE Aware(q, p, s)'
  <2>1. /\ UNCHANGED <<sessions, object, changing, hosts, hasty, undone>> /\ Welcome(chan'[x][y], x)
        /\ <<q, p>> # <<x, y>> => chan'[q][p] = chan[q][p] /\ link'[q][p] = link[q][p]
    BY <1>6, ConnectFacts
  <2>0. Here(q, s)
    BY <1>0, <2>1 DEF Here, Arriving
  <2>2. CASE q = x /\ p = y
    <3>1. s \in Local(q)
      BY <1>0, <2>0, <2>1 DEF IInv, Hosted, ListedRight, Here
    <3> QED
      BY <2>1, <2>2, <3>1, WelcomeAware
  <2>3. CASE <<q, p>> # <<x, y>>
    <3>1. Aware(q, p, s)
      BY <1>0, <1>1, <2>0, <2>1, <2>3 DEF Due
    <3> QED
      BY <2>1, <2>3, <3>1, SameAware
  <2> QED
    BY <2>2, <2>3
<1>7. ASSUME NEW x \in Peer, NEW y \in Peer, Cut(x, y) PROVE Aware(q, p, s)'
  <2>1. /\ UNCHANGED <<sessions, object, changing, hosts, hasty, undone>>
        /\ chan'[q][p] = chan[q][p] /\ link[q][p] = "up"
    BY <1>0, <1>7, CutFacts
  <2>2. Aware(q, p, s)
    BY <1>0, <1>1, <2>1 DEF Due, Here, Arriving
  <2> QED
    BY <2>1, <2>2, SameAware
<1>8. ASSUME NEW x \in Peer, NEW y \in Peer, NEW o, Read(x, y, o),
             UNCHANGED <<hosts, hasty, undone>>, Here(q, s),
             x = q /\ y = p /\ Head(chan[q][p]) = News(s) => sessions'[p][s] = q,
             x = q /\ y = p /\ sessions[p][s] = q /\ Head(chan[q][p]) # Gone(s) => sessions'[p][s] = q,
             ~(x = q /\ y = p) /\ sessions[p][s] = q => sessions'[p][s] = q
      PROVE  Aware(q, p, s)'
  <2>1. Aware(q, p, s)
    BY <1>0, <1>1, <1>8 DEF Due, Read
  <2>2. CASE x = q /\ y = p
    <3>1. /\ Read(q, p, o)
          /\ Head(chan[q][p]) = News(s) => sessions'[p][s] = q
          /\ sessions[p][s] = q /\ Head(chan[q][p]) # Gone(s) => sessions'[p][s] = q
      BY <1>8, <2>2
    <3> QED
      BY <2>1, <3>1, ReadAware
  <2>3. CASE ~(x = q /\ y = p)
    <3>1. chan'[q][p] = chan[q][p]
      BY <1>8, <2>3 DEF Read
    <3> QED
      BY <1>8, <2>1, <2>3, <3>1, SameAware
  <2> QED
    BY <2>2, <2>3
<1>9. ASSUME NEW x \in Peer, NEW y \in Peer, ReadHello(x, y) PROVE Aware(q, p, s)'
  <2>1. HelloEffect(x, y)
    BY <1>9, HelloFacts
  <2>2. /\ Read(x, y, "hello") /\ UNCHANGED <<hosts, hasty, undone, sessions>> /\ Here(q, s)
        /\ Head(chan[x][y]) # News(s)
    BY <1>0, <2>1, Kinship DEF HelloEffect, Here, Arriving
  <2> QED
    BY <1>8, <2>2
<1>10. ASSUME NEW x \in Peer, NEW y \in Peer, ReadAdded(x, y) PROVE Aware(q, p, s)'
  <2>1. PICK u \in Id : NewsEffect(x, y, u)
    BY <1>10, NewsFacts
  <2>2. /\ Read(x, y, "added") /\ UNCHANGED <<hosts, hasty, undone, changing>> /\ Head(chan[x][y]) = News(u)
        /\ sessions'[p][s] = IF p = y /\ s = u THEN x ELSE sessions[p][s]
        /\ object'[q][s] = IF q = y /\ s = u /\ object[y][u] # "none" THEN "told" ELSE object[q][s]
    BY <2>1 DEF NewsEffect
  <2>3. Here(q, s)
    BY <1>0, <2>2 DEF Here, Arriving
  <2>4. u = s => x = q
    <3>1. Has(chan[x][y], News(u))
      BY <2>2, HeadHas
    <3> QED
      BY <1>2, <2>2, <3>1
  <2>5. Head(chan[x][y]) = News(s) => u = s
    BY <2>2, Kinship
  <2> QED
    BY <1>8, <2>2, <2>3, <2>4, <2>5
<1>11. ASSUME NEW x \in Peer, NEW y \in Peer, ReadRemoved(x, y) PROVE Aware(q, p, s)'
  <2>1. PICK u \in Id : GoneEffect(x, y, u)
    BY <1>11, GoneFacts
  <2>2. /\ Read(x, y, "removed") /\ UNCHANGED <<hosts, hasty, undone>> /\ Here(q, s) /\ Head(chan[x][y]) = Gone(u)
        /\ sessions'[p][s] = IF p = y /\ s = u /\ sessions[y][u] = x THEN None ELSE sessions[p][s]
        /\ Gone(u) # News(s)
    BY <1>0, <2>1, Kinship DEF GoneEffect, Here, Arriving
  <2> QED
    BY <1>0, <1>8, <2>2
<1>12. ASSUME NEW x \in Peer, NEW y \in Peer, Forget(x, y) PROVE Aware(q, p, s)'
  <2>0. EndEffect(x, y)
    BY <1>12, EndFacts
  <2>1. UNCHANGED <<link, hosts, hasty>> /\ Here(q, s) /\ ~(q = x /\ p = y)
    BY <1>0, <2>0 DEF EndEffect, Here, Arriving
  <2>2. /\ chan'[q][p] = chan[q][p]
        /\ sessions'[p][s] = IF p = y /\ sessions[p][s] = x THEN None ELSE sessions[p][s]
    BY <2>0, <2>1 DEF EndEffect
  <2>3. Aware(q, p, s)
    BY <1>0, <1>1, <2>1 DEF Due
  <2> QED
    BY <2>1, <2>2, <2>3, SameAware
<1>13. ASSUME NEW x \in Peer, Crash(x) PROVE Aware(q, p, s)'
  <2>0. CrashEffect(x)
    BY <1>13, CrashFacts
  <2>1. link'[q][p] = (IF x \in {p, q} THEN "dialing" ELSE link[q][p]) /\ UNCHANGED <<hosts, hasty, undone>>
    BY <2>0 DEF CrashEffect
  <2>2. x # p /\ x # q /\ link[q][p] = "up"
    BY <1>0, <2>1
  <2>3. chan'[q][p] = chan[q][p] /\ sessions'[p][s] = sessions[p][s] /\ Here(q, s)
    BY <1>0, <2>0, <2>2 DEF CrashEffect, Here
  <2>4. Aware(q, p, s)
    BY <1>0, <1>1, <2>1, <2>2, <2>3 DEF Due
  <2> QED
    BY <2>3, <2>4, SameAware
<1>14. ASSUME UNCHANGED vars PROVE Aware(q, p, s)'
  <2>1. UNCHANGED <<link, chan, sessions, object, changing, hosts, hasty>>
    BY <1>14 DEF vars, links
  <2>2. Aware(q, p, s)
    BY <1>0, <1>1, <2>1 DEF Due, Here, Arriving
  <2> QED
    BY <2>1, <2>2, SameAware
<1> QED
  BY <1>15, <1>16, <1>17, <1>4, <1>5, <1>6, <1>7, <1>9, <1>10, <1>11, <1>12, <1>13, <1>14 DEF Next

(* Once nothing is under way everyone knows where a user is who has been   *)
(* on one peer only: each connection opens with the list of what there is, *)
(* and what happens after that is announced, in this order, over each.     *)
THEOREM KnownHolds == Spec => []Known
<1>1. IInv /\ Informed => Known
  <2> SUFFICES ASSUME IInv, Informed, Quiet, NEW p \in Peer, NEW q \in Peer, NEW s \in Id,
                      object[q][s] = "live", s \notin hasty, hosts[s] = {q}
               PROVE  sessions[p][s] = q
    BY DEF Known
  <2>0. Here(q, s)
    BY DEF Quiet, Here, Arriving
  <2>1. CASE p = q
    BY <2>0, <2>1 DEF IInv, Hosted, ListedRight, Local, Here
  <2>2. CASE p # q
    <3>1. chan[q][p] = <<>> /\ link[q][p] = "up"
      BY <2>2, NothingOnTheWay
    <3>2. Due(q, p, s)
      BY <2>0, <2>2, <3>1 DEF Due
    <3>3. Aware(q, p, s) /\ ~Stands(chan[q][p], s)
      BY <3>1, <3>2, EmptySays DEF Informed
    <3> QED
      BY <3>3 DEF Aware
  <2> QED
    BY <2>1, <2>2
<1>2. Init => Traced
  <2> SUFFICES ASSUME Init PROVE Traced
    OBVIOUS
  <2>1. \A q, p \in Peer, s \in Id :
          chan[q][p] = <<>> /\ sessions[p][s] = None /\ object[q][s] = "none" /\ leaving[q] = {} /\ changing[q] = {}
    BY DEF Init, LinksInit
  <2>2. ASSUME NEW q \in Peer, NEW p \in Peer, NEW s \in Id
        PROVE  ~Has(chan[q][p], News(s)) /\ sessions[p][s] # q /\ ~Lasts(q, s) /\ ~Arriving(q, s)
    <3>1. ~Has(<<>>, News(s))
      BY EmptySays
    <3>2. ~Has(chan[q][p], News(s))
      BY <2>1, <3>1
    <3>3. sessions[p][s] # q
      BY <2>1, NoneAssumption
    <3>4. ~Lasts(q, s) /\ ~Arriving(q, s)
      BY <2>1 DEF Lasts, Arriving
    <3> QED
      BY <3>2, <3>3, <3>4
  <2> QED
    BY <2>2 DEF Traced
<1>3. Init => Informed
  <2> SUFFICES ASSUME Init PROVE Informed
    OBVIOUS
  <2>1. \A s \in Id : hosts[s] = {}
    BY DEF Init
  <2> QED
    BY <2>1 DEF Informed, Due
<1>4. Spec => []Traced
  BY <1>2, Invariance, TracedStep, PTL DEF Spec
<1>5. Spec => []Informed
  BY <1>3, <1>4, Invariance, InformedStep, PTL DEF Spec
<1> QED
  BY <1>1, <1>5, Invariance, PTL

=============================================================================
