----------------------- MODULE SessionRegistryProofs -----------------------
(* Theorems about SessionRegistry, for any number of users, connections    *)
(* and events: the map finds the session of every user, the directory      *)
(* lists the sessions that are here, no call finds a session that is gone, *)
(* every connection gets its session and no session is left over.          *)
(*                                                                         *)
(* The argument: the calls a session makes to the managers are handled in  *)
(* the order it makes them, so that what is still to be handled says for   *)
(* which user the map has the session now (Was).  An entry and its session *)
(* agree on that user, or the user is one whose entries have been mixed    *)
(* up; and each connection is in one queue at a time until it is bound.    *)
EXTENDS SessionRegistry, FiniteSetTheorems, SequenceTheorems, TLAPS

-----------------------------------------------------------------------------
(* The inductive invariant, over the values of the variables: q is main, a *)
(* asked, o session, b inbox, w owes, m sessions, up upset, cl closed, bd  *)
(* bound and ph phase.                                                     *)

Object == [state : {"unborn", "live", "gone"}, home : {"main", "scene"},
           user : User \cup {None}, conn : Conn \cup {None},
           timer : BOOLEAN, setting : Conn \cup {None}]

\* A call waits in a line.
Has(l, c) == \E i \in DOMAIN l : l[i].call = c

\* The call c of a session.
Call(x, c, s) == x.call = c /\ x.session = s

\* Who is the user y when its calls are handled is u before the i-th is handled:
\* u is the user its next change of user starts from.
Was(q, y, s, i, u) ==
    \/ y = u /\ \A j \in i .. Len(q) : ~Call(q[j], "changed", s)
    \/ \E j \in i .. Len(q) :
        /\ Call(q[j], "changed", s) /\ q[j].user = u
        /\ \A k \in i .. j - 1 : ~Call(q[k], "changed", s)

\* The map finds the session for the user it still has it for.
Held(q, o, m, up, s) ==
    \A u \in User : Was(q, o[s].user, s, 1, u) => u \in up \/ m[u] = s

\* The user the map has the session for has been mixed up.
Mixed(q, o, up, s) == \A u \in User : Was(q, o[s].user, s, 1, u) => u \in up

Alive(o) == {s \in Sess : o[s].state = "live"}

\* What the map finds is a session that is there, and will be until it is removed.
Entries(o, m, up, b) ==
    /\ \A u \in User : m[u] = Null => u \in up
    /\ \A u, v \in User : m[u] \in Sess /\ m[u] = m[v] => u = v
    /\ \A u \in User : m[u] \in Sess => o[m[u]].state = "live" /\ ~Has(b[m[u]], "delete")

\* It is the session of that user, once its calls are handled.
Agreed(q, o, m, up) ==
    \A u \in User : u \notin up /\ m[u] \in Sess => Was(q, o[m[u]].user, m[u], 1, u)

\* And every session that has not closed is found.
Found(q, o, m, up, cl) ==
    \A s \in Sess : s \notin cl /\ o[s].state # "unborn" => Held(q, o, m, up, s)

\* A change of user leads to the next.
Changes(q, o) ==
    \A i \in 1 .. Len(q) : \A s \in Sess :
        Call(q[i], "changed", s) => Was(q, o[s].user, s, i + 1, q[i].new)

\* A session that closes is found until then, and closes once.
Closes(q, o, m, up, cl) ==
    \A i \in 1 .. Len(q) : \A s \in Sess :
        Call(q[i], "closed", s) =>
            /\ s \in cl /\ Was(q, o[s].user, s, i, q[i].user)
            /\ \/ q[i].user \in up
               \/ /\ Held(q, o, m, up, s)
                  /\ \A j \in 1 .. i - 1 : ~Call(q[j], "closed", s)

Closing(q, s) == \E i \in 1 .. Len(q) : Call(q[i], "closed", s)

\* A session that has closed goes, unless its user has been mixed up.
Goes(q, o, up, b, s) == Mixed(q, o, up, s) \/ Has(b[s], "delete") \/ Closing(q, s)

\* All of this, but for those in but: they need not go.
KeptBut(q, o, m, up, cl, b, but) ==
    /\ Entries(o, m, up, b) /\ Agreed(q, o, m, up) /\ Found(q, o, m, up, cl)
    /\ Changes(q, o) /\ Closes(q, o, m, up, cl)
    /\ \A s \in cl \ but : o[s].state = "live" => Goes(q, o, up, b, s)

Kept(q, o, m, up, cl, b) == KeptBut(q, o, m, up, cl, b, {})

-----------------------------------------------------------------------------
(* The directory.                                                          *)

ForUser(x, c, s, u) == Call(x, c, s) /\ x.user = u

\* From the i-th call on, s takes u off the directory, or puts it there.
Telling(q, w, c, s, i, u) ==
    \/ \E j \in i .. Len(q) : ForUser(q[j], c, s, u)
    \/ \E j \in 1 .. Len(w[s]) : ForUser(w[s][j], c, s, u)

\* s becomes u by one of the calls from the i-th to the j-th.
Becomes(q, s, i, j, u) == \E k \in i .. j : Call(q[k], "changed", s) /\ q[k].new = u

\* When the i-th call puts u on the directory for s, s is there as u.
Puts(q, m, up, s, i, u) ==
    /\ Becomes(q, s, 1, i - 1, u) \/ u \in up \/ m[u] = s
    /\ \A j \in 1 .. i - 1 :
        Call(q[j], "changed", s) \/ Call(q[j], "closed", s) => Becomes(q, s, j, i - 1, u)

\* Who closes or becomes another is taken off the directory, and put there.
Announced(q, w) ==
    \A i \in 1 .. Len(q) : \A s \in Sess :
        /\ Call(q[i], "closed", s) => Telling(q, w, "removed", s, i + 1, q[i].user)
        /\ Call(q[i], "changed", s) =>
            /\ Telling(q, w, "removed", s, i + 1, q[i].user)
            /\ Telling(q, w, "added", s, i + 1, q[i].new)

\* What a session owes are such calls of its own.
Owing(w) ==
    \A s \in Sess : \A i \in 1 .. Len(w[s]) :
        Call(w[s][i], "removed", s) \/ Call(w[s][i], "added", s)

Added(q, w, m, up) ==
    \A s \in Sess :
        /\ \A i \in 1 .. Len(q) : Call(q[i], "added", s) => Puts(q, m, up, s, i, q[i].user)
        /\ \A i \in 1 .. Len(w[s]) :
            Call(w[s][i], "added", s) => Puts(q, m, up, s, Len(q) + 1, w[s][i].user)

\* What is listed here is found, or will be taken off.
Here(q, w, m, up, dir) ==
    \A u \in User : u \notin up /\ dir[u] = "here" /\ m[u] \notin Sess =>
        \E s \in Sess : Telling(q, w, "removed", s, 1, u)

\* What is found is listed here, or will be, or it goes.
Away(q, w, m, up, dir, b) ==
    \A u \in User : u \notin up /\ m[u] \in Sess /\ dir[u] # "here" =>
        \/ Has(b[m[u]], "reconnect") \/ Closing(q, m[u])
        \/ Telling(q, w, "added", m[u], 1, u)

Told(q, w, m, up, dir, b) ==
    /\ Announced(q, w) /\ Owing(w) /\ Added(q, w, m, up)
    /\ Here(q, w, m, up, dir) /\ Away(q, w, m, up, dir, b)

-----------------------------------------------------------------------------
(* Sessions and connections.                                               *)

\* One session: its object, what waits for it, what it owes, and if it has closed.
Fit(x, l, k, shut) ==
    /\ x.state = "unborn" => x = Unborn /\ l = <<>> /\ k = <<>> /\ ~shut
    /\ x.state # "unborn" => x.user \in User
    /\ x.state = "gone" => l = <<>>
    /\ x.state # "live" => ~x.timer /\ x.conn = None /\ x.setting = None
    /\ x.state = "live" => (x.timer <=> x.conn = None)
    /\ x.setting # None => x.home = "scene" /\ x.conn = None
    /\ x.home = "main" => k = <<>> /\ \A i \in 1 .. Len(l) : l[i].call \in {"user", "delete"}

Fits(o, b, w, cl) == \A s \in Sess : Fit(o[s], b[s], w[s], s \in cl)

\* Only a session in the thread of an instance calls; only one that is there logs on.
Called(q, a, o, bd) ==
    /\ \A i \in 1 .. Len(q) : \A s \in Sess :
        q[i].call \in {"closed", "changed", "removed", "added"} /\ q[i].session = s =>
            o[s].home = "scene"
    /\ \A i \in 1 .. Len(a) : a[i].ask = "log" => o[a[i].session].state # "unborn"
    /\ \A c \in Conn : bd[c] # None => o[bd[c]].state # "unborn"

\* The queues in which a connection waits: main, asked, and the calls of each session.
Queue == Sess \cup {0, -1}
Lines(q, a, b) == [x \in Queue |-> IF x = 0 THEN q ELSE IF x = -1 THEN a ELSE b[x]]

\* A connection waits in such a queue by an entry of the kind.
Pass(x, n, c) ==
    /\ CASE x = 0 -> n.call \in {"unset", "token"}
         [] x = -1 -> n.ask \in {"create", "validate"}
         [] OTHER -> n.call = "set"
    /\ n.conn = c

Waits(l, x, i, c) == i \in 1 .. Len(l[x]) /\ Pass(x, l[x][i], c)

\* The connections that wait; and those that may still be sent to the database.
Waiting(l) == {c \in Conn : \E x \in Queue, i \in Nat : Waits(l, x, i, c)}
Turned(l) == {c \in Conn : \E x \in Queue \ {-1}, i \in Nat :
                Waits(l, x, i, c) /\ l[x][i].call # "token"}

\* Each waits once, and until it is bound.
Single(l) ==
    \A c \in Conn : \A x, y \in Queue : \A i, j \in Nat :
        Waits(l, x, i, c) /\ Waits(l, y, j, c) => x = y /\ i = j

Unbound(t, o, bd, ph) ==
    \A c \in Conn : c \in t \/ ph[c] = "away" =>
        bd[c] = None /\ (\A s \in Sess : o[s].setting # c)
                     /\ ~(c \in t /\ ph[c] = "away")

\* There are as many objects and rows as there were events for them, at most.
Sessions(o, t, n) ==
    \E k \in Nat : /\ \A s \in Sess : o[s].state = "unborn" <=> s > k
                   /\ k + Cardinality(t) <= n
Rows(r, t, a, n) ==
    \E k \in Nat : /\ \A u \in User : r[u] = "none" <=> u > Guests + Accounts + k
                   /\ k + Cardinality(t) + Len(a) <= n

Queued(l, a, o, bd, ph, r, n) ==
    /\ Single(l) /\ Unbound(Waiting(l), o, bd, ph)
    /\ Sessions(o, Waiting(l), n) /\ Rows(r, Turned(l), a, n)

Open(p) == p \in {"open", "leaving", "bye"}

\* A session and its connection agree, until the session is told.
Tied(o, bd, ph, b) ==
    /\ \A s \in Sess, c \in Conn :
        /\ o[s].conn = c => bd[c] = s /\ (Open(ph[c]) \/ Has(b[s], "clear"))
        /\ o[s].setting = c /\ Open(ph[c]) => bd[c] = s
    /\ \A c \in Conn, s \in Sess :
        bd[c] = s /\ o[s].state = "live" /\ o[s].home = "main" /\ Open(ph[c]) => o[s].conn = c

\* A connection that is not lost has a session, or waits for one.
Attended(q, o, up, cl, bd, ph, lt, t) ==
    \A c \in Conn : c \notin lt /\ ph[c] = "open" =>
        /\ c \in t \/ bd[c] # None
        /\ \A s \in Sess : bd[c] = s =>
            \/ Mixed(q, o, up, s)
            \/ s \notin cl /\ o[s].state = "live" /\ (o[s].conn = c \/ o[s].setting = c)

Inv ==
    /\ TypeOK
    /\ Fits(session, inbox, owes, closed) /\ Called(main, asked, session, bound)
    /\ Queued(Lines(main, asked, inbox), asked, session, bound, phase, record, events)
    /\ Kept(main, session, sessions, upset, closed, inbox)
    /\ Told(main, owes, sessions, upset, directory, inbox)
    /\ Tied(session, bound, phase, inbox)
    /\ Attended(main, session, upset, closed, bound, phase, late,
                Waiting(Lines(main, asked, inbox)))
    /\ Survives

-----------------------------------------------------------------------------
(* Lines of calls.                                                         *)

(* The first call of a line, and the others.                               *)
LEMMA Headed ==
  ASSUME NEW S, NEW q \in Seq(S), q # <<>>
  PROVE  /\ Head(q) = q[1] /\ q[1] \in S /\ Tail(q) \in Seq(S)
         /\ Len(q) \in Nat \ {0} /\ Len(Tail(q)) = Len(q) - 1
         /\ \A i \in 1 .. Len(q) - 1 : Tail(q)[i] = q[i + 1]
<1>1. Head(q) \in S /\ Tail(q) \in Seq(S) /\ Len(Tail(q)) = Len(q) - 1
      /\ \A i \in 1 .. Len(Tail(q)) : Tail(q)[i] = q[i + 1]
  BY HeadTailProperties
<1>2. Len(q) \in Nat /\ Len(q) # 0
  BY EmptySeq, LenProperties
<1>3. Head(q) = q[1]
  OBVIOUS
<1> QED
  BY <1>1, <1>2, <1>3

(* A call at the end of a line.                                            *)
LEMMA Appended ==
  ASSUME NEW S, NEW q \in Seq(S), NEW n \in S
  PROVE  /\ Append(q, n) \in Seq(S) /\ Len(q) \in Nat
         /\ Len(Append(q, n)) = Len(q) + 1
         /\ Append(q, n)[Len(q) + 1] = n
         /\ \A i \in 1 .. Len(q) : Append(q, n)[i] = q[i]
  BY AppendProperties, LenProperties

(* Two calls at the end of a line.                                         *)
LEMMA TwoAppended ==
  ASSUME NEW S, NEW q \in Seq(S), NEW y \in S, NEW z \in S
  PROVE  q \o <<y, z>> = Append(Append(q, y), z)
<1>1. PICK p \in Seq(S) : p = <<y>>
  <2>1. <<y>> \in Seq(S)
    OBVIOUS
  <2> QED
    BY <2>1
<1>2. PICK e : e = <<y, z>>
  OBVIOUS
<1>3. e \in Seq(S) /\ Len(e) = 2 /\ e[1] = y /\ e[2] = z
  BY <1>2
<1>4. Len(p) = 1 /\ p[1] = y
  BY <1>1
<1>5. PICK t \in Seq(S) : t = Append(p, z)
  BY Appended
<1>6. Len(t) = 2 /\ t[1] = y /\ t[2] = z
  <2>1. PICK k : k = Len(p)
    OBVIOUS
  <2>2. Len(t) = k + 1 /\ t[k + 1] = z /\ \A i \in 1 .. k : t[i] = p[i]
    BY <1>5, <2>1, Appended
  <2> QED
    BY <1>4, <2>1, <2>2
<1>7. e = t
  <2>1. \A i \in 1 .. 2 : e[i] = t[i]
    BY <1>3, <1>6
  <2> QED
    BY <1>3, <1>6, <2>1, SeqEqual
<1>8. t = p \o <<z>> /\ Append(q, y) = q \o p
  BY <1>1, <1>5, AppendIsConcat
<1>9. Append(q, y) \in Seq(S) /\ <<z>> \in Seq(S)
  BY Appended
<1>10. Append(Append(q, y), z) = (q \o p) \o <<z>>
  BY <1>8, <1>9, AppendIsConcat
<1>11. (q \o p) \o <<z>> = q \o (p \o <<z>>)
  BY <1>9, ConcatAssociative
<1> QED
  BY <1>2, <1>7, <1>8, <1>10, <1>11

(* What waits in a line with one call more, or with one less.              *)
LEMMA HasMore ==
  ASSUME NEW S, NEW q \in Seq(S), NEW n \in S, NEW c
  PROVE  Has(Append(q, n), c) <=> Has(q, c) \/ n.call = c
<1>1. DOMAIN q = 1 .. Len(q) /\ DOMAIN Append(q, n) = 1 .. Len(q) + 1
  BY Appended, LenProperties
<1> QED
  BY <1>1, Appended DEF Has

LEMMA HasLess ==
  ASSUME NEW S, NEW q \in Seq(S), q # <<>>, NEW c
  PROVE  Has(q, c) <=> Has(Tail(q), c) \/ q[1].call = c
<1>1. DOMAIN q = 1 .. Len(q) /\ DOMAIN Tail(q) = 1 .. Len(q) - 1
  BY Headed, LenProperties
<1>2. Len(q) \in Nat \ {0} /\ \A i \in 1 .. Len(q) - 1 : Tail(q)[i] = q[i + 1]
  BY Headed
<1>3. ASSUME Has(q, c)  PROVE Has(Tail(q), c) \/ q[1].call = c
  <2>1. PICK i \in DOMAIN q : q[i].call = c
    BY <1>3 DEF Has
  <2>2. CASE i # 1
    <3>1. i - 1 \in DOMAIN Tail(q) /\ Tail(q)[i - 1] = q[i]
      BY <1>1, <1>2, <2>2
    <3> QED
      BY <2>1, <3>1 DEF Has
  <2> QED
    BY <2>1, <2>2
<1>4. ASSUME Has(Tail(q), c)  PROVE Has(q, c)
  BY <1>1, <1>2, <1>4 DEF Has
<1>5. ASSUME q[1].call = c  PROVE Has(q, c)
  BY <1>1, <1>2, <1>5 DEF Has
<1> QED
  BY <1>3, <1>4, <1>5

LEMMA HasNone == ASSUME NEW c  PROVE ~Has(<<>>, c)
  BY DEF Has

-----------------------------------------------------------------------------
(* Which user a session still is to the map.                               *)

(* It is one user at most.                                                 *)
LEMMA WasOne ==
  ASSUME NEW q \in Seq(MainCall), NEW y, NEW s, NEW i \in Nat, NEW u, NEW v,
         Was(q, y, s, i, u), Was(q, y, s, i, v)
  PROVE  u = v
<1>1. Len(q) \in Nat
  BY LenProperties
<1>2. CASE \E j \in i .. Len(q) : Call(q[j], "changed", s)
  <2>1. PICK j \in i .. Len(q) : /\ Call(q[j], "changed", s) /\ q[j].user = u
                                 /\ \A k \in i .. j - 1 : ~Call(q[k], "changed", s)
    BY <1>2 DEF Was
  <2>2. PICK k \in i .. Len(q) : /\ Call(q[k], "changed", s) /\ q[k].user = v
                                 /\ \A n \in i .. k - 1 : ~Call(q[n], "changed", s)
    BY <1>2 DEF Was
  <2>3. j = k
    BY <1>1, <2>1, <2>2
  <2> QED
    BY <2>1, <2>2, <2>3
<1>3. CASE ~\E j \in i .. Len(q) : Call(q[j], "changed", s)
  BY <1>3 DEF Was
<1> QED
  BY <1>2, <1>3

(* It is the user it is, unless a change of user waits.                    *)
LEMMA WasNone ==
  ASSUME NEW q, NEW y, NEW s, NEW i, \A j \in i .. Len(q) : ~Call(q[j], "changed", s), NEW u
  PROVE  Was(q, y, s, i, u) <=> u = y
  BY DEF Was

(* The first call is handled.                                              *)
LEMMA WasTail ==
  ASSUME NEW q \in Seq(MainCall), q # <<>>, NEW y, NEW s, NEW i \in 1 .. Len(q), NEW u
  PROVE  Was(Tail(q), y, s, i, u) <=> Was(q, y, s, i + 1, u)
<1>1. PICK n \in Nat \ {0} : n = Len(q)
  BY Headed
<1>2. PICK t : t = Tail(q)
  OBVIOUS
<1>3. Len(t) = n - 1 /\ \A j \in 1 .. n - 1 : t[j] = q[j + 1]
  BY <1>1, <1>2, Headed
<1>4. (\A j \in i .. Len(t) : ~Call(t[j], "changed", s))
        <=> (\A j \in i + 1 .. n : ~Call(q[j], "changed", s))
  <2>1. ASSUME \A j \in i .. Len(t) : ~Call(t[j], "changed", s), NEW j \in i + 1 .. n
        PROVE  ~Call(q[j], "changed", s)
    <3>1. j - 1 \in i .. Len(t) /\ t[j - 1] = q[j]
      BY <1>1, <1>3
    <3> QED
      BY <2>1, <3>1
  <2>2. ASSUME \A j \in i + 1 .. n : ~Call(q[j], "changed", s), NEW j \in i .. Len(t)
        PROVE  ~Call(t[j], "changed", s)
    <3>1. j + 1 \in i + 1 .. n /\ t[j] = q[j + 1]
      BY <1>1, <1>3
    <3> QED
      BY <2>2, <3>1
  <2> QED
    BY <2>1, <2>2
<1>5. ASSUME NEW j \in i .. Len(t), Call(t[j], "changed", s), t[j].user = u,
             \A k \in i .. j - 1 : ~Call(t[k], "changed", s)
      PROVE  Was(q, y, s, i + 1, u)
  <2>1. j + 1 \in i + 1 .. n /\ t[j] = q[j + 1]
    BY <1>1, <1>3
  <2>2. ASSUME NEW k \in i + 1 .. j  PROVE ~Call(q[k], "changed", s)
    <3>1. k - 1 \in i .. j - 1 /\ t[k - 1] = q[k]
      BY <1>1, <1>3
    <3> QED
      BY <1>5, <3>1
  <2>3. (j + 1) - 1 = j
    BY <1>1
  <2> QED
    BY <1>1, <1>5, <2>1, <2>2, <2>3 DEF Was
<1>6. ASSUME NEW j \in i + 1 .. n, Call(q[j], "changed", s), q[j].user = u,
             \A k \in i + 1 .. j - 1 : ~Call(q[k], "changed", s)
      PROVE  Was(t, y, s, i, u)
  <2>1. j - 1 \in i .. Len(t) /\ t[j - 1] = q[j]
    BY <1>1, <1>3
  <2>2. ASSUME NEW k \in i .. (j - 1) - 1  PROVE ~Call(t[k], "changed", s)
    <3>1. k + 1 \in i + 1 .. j - 1 /\ t[k] = q[k + 1]
      BY <1>1, <1>3
    <3> QED
      BY <1>6, <3>1
  <2> QED
    BY <1>6, <2>1, <2>2 DEF Was
<1>7. Was(t, y, s, i, u) => Was(q, y, s, i + 1, u)
  BY <1>1, <1>4, <1>5 DEF Was
<1>8. Was(q, y, s, i + 1, u) => Was(t, y, s, i, u)
  BY <1>1, <1>4, <1>6 DEF Was
<1> QED
  BY <1>2, <1>7, <1>8

(* The first call changes the user, or not.                                *)
LEMMA WasHead ==
  ASSUME NEW q \in Seq(MainCall), q # <<>>, NEW y, NEW s, NEW u
  PROVE  /\ Call(q[1], "changed", s) => (Was(q, y, s, 1, u) <=> u = q[1].user)
         /\ ~Call(q[1], "changed", s) => (Was(q, y, s, 1, u) <=> Was(Tail(q), y, s, 1, u))
<1>1. PICK n \in Nat \ {0} : n = Len(q)
  BY Headed
<1>2. ASSUME Call(q[1], "changed", s)
      PROVE  Was(q, y, s, 1, u) <=> u = q[1].user
  <2>1. Was(q, y, s, 1, q[1].user)
    <3>1. 1 \in 1 .. n /\ \A k \in 1 .. 1 - 1 : ~Call(q[k], "changed", s)
      BY <1>1
    <3> QED
      BY <1>1, <1>2, <3>1 DEF Was
  <2> QED
    BY <2>1, WasOne
<1>3. ASSUME ~Call(q[1], "changed", s)
      PROVE  Was(q, y, s, 1, u) <=> Was(q, y, s, 2, u)
  <2>1. (\A j \in 1 .. n : ~Call(q[j], "changed", s))
          <=> (\A j \in 2 .. n : ~Call(q[j], "changed", s))
    BY <1>1, <1>3
  <2>2. ASSUME NEW j \in 1 .. n, Call(q[j], "changed", s)
        PROVE  j \in 2 .. n /\ ((\A k \in 1 .. j - 1 : ~Call(q[k], "changed", s))
                                  <=> (\A k \in 2 .. j - 1 : ~Call(q[k], "changed", s)))
    BY <1>1, <1>3, <2>2
  <2>3. ASSUME NEW j \in 2 .. n, Call(q[j], "changed", s)
        PROVE  j \in 1 .. n
    BY <1>1
  <2> QED
    BY <1>1, <2>1, <2>2, <2>3 DEF Was
<1>4. Was(Tail(q), y, s, 1, u) <=> Was(q, y, s, 2, u)
  BY <1>1, WasTail
<1> QED
  BY <1>2, <1>3, <1>4

(* A call is added that changes another, or nobody.                        *)
LEMMA WasMore ==
  ASSUME NEW q \in Seq(MainCall), NEW n \in MainCall, NEW s, ~Call(n, "changed", s),
         NEW y, NEW i \in 1 .. Len(q) + 1, NEW u
  PROVE  Was(Append(q, n), y, s, i, u) <=> Was(q, y, s, i, u)
<1>1. PICK r : r = Append(q, n)
  OBVIOUS
<1>2. PICK k \in Nat : k = Len(q)
  BY LenProperties
<1>3. Len(r) = k + 1 /\ r[k + 1] = n /\ \A j \in 1 .. k : r[j] = q[j]
  BY <1>1, <1>2, Appended
<1>4. (\A j \in i .. Len(r) : ~Call(r[j], "changed", s))
        <=> (\A j \in i .. k : ~Call(q[j], "changed", s))
  BY <1>2, <1>3
<1>5. ASSUME NEW j \in i .. k
      PROVE  /\ j \in i .. Len(r) /\ r[j] = q[j]
             /\ (\A x \in i .. j - 1 : ~Call(r[x], "changed", s))
                  <=> (\A x \in i .. j - 1 : ~Call(q[x], "changed", s))
  <2>1. \A x \in i .. j - 1 : r[x] = q[x]
    BY <1>2, <1>3
  <2> QED
    BY <1>2, <1>3, <2>1
<1>6. ASSUME NEW j \in i .. Len(r), Call(r[j], "changed", s)  PROVE j \in i .. k
  BY <1>2, <1>3, <1>6
<1>7. Was(r, y, s, i, u) <=> Was(q, y, s, i, u)
  <2>1. ASSUME Was(r, y, s, i, u)  PROVE Was(q, y, s, i, u)
    BY <1>2, <1>4, <1>5, <1>6, <2>1 DEF Was
  <2>2. ASSUME Was(q, y, s, i, u)  PROVE Was(r, y, s, i, u)
    BY <1>2, <1>4, <1>5, <2>2 DEF Was
  <2> QED
    BY <2>1, <2>2
<1> QED
  BY <1>1, <1>7

(* A call is added that changes it: it was who changes.                    *)
LEMMA WasChange ==
  ASSUME NEW q \in Seq(MainCall), NEW n \in MainCall, NEW s, Call(n, "changed", s),
         NEW y, NEW i \in 1 .. Len(q) + 1, NEW u
  PROVE  Was(Append(q, n), y, s, i, u) <=> Was(q, n.user, s, i, u)
<1>1. PICK r : r = Append(q, n)
  OBVIOUS
<1>2. PICK k \in Nat : k = Len(q)
  BY LenProperties
<1>3. Len(r) = k + 1 /\ r[k + 1] = n /\ \A j \in 1 .. k : r[j] = q[j]
  BY <1>1, <1>2, Appended
<1>4. k + 1 \in i .. Len(r) /\ Call(r[k + 1], "changed", s)
  BY <1>2, <1>3
<1>5. ASSUME NEW j \in i .. k
      PROVE  /\ j \in i .. Len(r) /\ r[j] = q[j]
             /\ (\A x \in i .. j - 1 : ~Call(r[x], "changed", s))
                  <=> (\A x \in i .. j - 1 : ~Call(q[x], "changed", s))
  <2>1. \A x \in i .. j - 1 : r[x] = q[x]
    BY <1>2, <1>3
  <2> QED
    BY <1>2, <1>3, <2>1
<1>6. (\A x \in i .. (k + 1) - 1 : ~Call(r[x], "changed", s))
        <=> (\A x \in i .. k : ~Call(q[x], "changed", s))
  BY <1>2, <1>3
<1>7. ASSUME Was(r, y, s, i, u)  PROVE Was(q, n.user, s, i, u)
  <2>1. PICK j \in i .. Len(r) : /\ Call(r[j], "changed", s) /\ r[j].user = u
                                 /\ \A x \in i .. j - 1 : ~Call(r[x], "changed", s)
    BY <1>4, <1>7 DEF Was
  <2>2. CASE j = k + 1
    BY <1>2, <1>3, <1>6, <2>1, <2>2 DEF Was
  <2>3. CASE j # k + 1
    <3>1. j \in i .. k
      BY <1>2, <1>3, <2>3
    <3> QED
      BY <1>2, <1>5, <2>1, <3>1 DEF Was
  <2> QED
    BY <2>2, <2>3
<1>8. ASSUME Was(q, n.user, s, i, u)  PROVE Was(r, y, s, i, u)
  <2>1. CASE n.user = u /\ \A x \in i .. k : ~Call(q[x], "changed", s)
    BY <1>3, <1>4, <1>6, <2>1 DEF Was
  <2>2. CASE \E j \in i .. k : /\ Call(q[j], "changed", s) /\ q[j].user = u
                               /\ \A x \in i .. j - 1 : ~Call(q[x], "changed", s)
    BY <1>5, <2>2 DEF Was
  <2> QED
    BY <1>2, <1>8, <2>1, <2>2 DEF Was
<1> QED
  BY <1>1, <1>7, <1>8

(* The arguments of a call to the managers.                                *)
LEMMA CallFields ==
  ASSUME NEW n \in MainCall
  PROVE  /\ n.call \in {"unset", "token", "closed", "removed", "added", "changed"}
         /\ n.call \in {"unset", "token"} => n.conn \in Conn
         /\ n.call \notin {"unset"} => n.user \in User
         /\ n.call \in {"closed", "removed", "added", "changed"} => n.session \in Sess
         /\ n.call = "changed" => n.new \in User
  BY DEF MainCall

-----------------------------------------------------------------------------
(* Steps that leave the entries alone.                                     *)

\* Who was mixed up still is.
MixedStill(q, o, up, q2, o2, up2) ==
    \A s \in Sess : o[s].state # "unborn" /\ Mixed(q, o, up, s) => Mixed(q2, o2, up2, s)

(* Every object has its user and state, every line its call to delete.     *)
Alike(o, b, o2, b2) ==
    \A s \in Sess : /\ o2[s].user = o[s].user /\ o2[s].state = o[s].state
                    /\ Has(b2[s], "delete") <=> Has(b[s], "delete")

LEMMA KeptStay ==
  ASSUME NEW q, NEW o, NEW m, NEW up, NEW cl \in SUBSET Sess, NEW b, Kept(q, o, m, up, cl, b),
         NEW o2, NEW b2, Alike(o, b, o2, b2), NEW up2, up \subseteq up2
  PROVE  Kept(q, o2, m, up2, cl, b2) /\ MixedStill(q, o, up, q, o2, up2)
<1>1. Entries(o, m, up, b) /\ Agreed(q, o, m, up) /\ Found(q, o, m, up, cl)
      /\ Changes(q, o) /\ Closes(q, o, m, up, cl)
      /\ \A s \in cl : o[s].state = "live" => Goes(q, o, up, b, s)
  BY DEF Kept, KeptBut
<1>2. ASSUME NEW s \in Sess
      PROVE  /\ o2[s].user = o[s].user /\ o2[s].state = o[s].state
             /\ Has(b2[s], "delete") <=> Has(b[s], "delete")
             /\ Held(q, o, m, up, s) => Held(q, o2, m, up2, s)
             /\ Mixed(q, o, up, s) => Mixed(q, o2, up2, s)
             /\ Goes(q, o, up, b, s) => Goes(q, o2, up2, b2, s)
  <2>1. o2[s].user = o[s].user /\ o2[s].state = o[s].state
        /\ (Has(b2[s], "delete") <=> Has(b[s], "delete"))
    BY DEF Alike
  <2>2. Mixed(q, o, up, s) => Mixed(q, o2, up2, s)
    BY <2>1 DEF Mixed
  <2> QED
    BY <2>1, <2>2 DEF Held, Goes
<1>3. Entries(o2, m, up2, b2)
  BY <1>1, <1>2 DEF Entries
<1>4. Agreed(q, o2, m, up2)
  BY <1>1, <1>2 DEF Agreed
<1>5. Found(q, o2, m, up2, cl)
  BY <1>1, <1>2 DEF Found
<1>6. Changes(q, o2)
  BY <1>1, <1>2 DEF Changes
<1>7. Closes(q, o2, m, up2, cl)
  BY <1>1, <1>2 DEF Closes
<1>8. \A s \in cl : o2[s].state = "live" => Goes(q, o2, up2, b2, s)
  BY <1>1, <1>2
<1> QED
  BY <1>2, <1>3, <1>4, <1>5, <1>6, <1>7, <1>8 DEF Kept, KeptBut, MixedStill

(* A call that neither closes nor changes a session.                       *)
Plain(n) == n.call \notin {"closed", "changed"}

(* It is handled, or one is added.                                         *)
LEMMA KeptTail ==
  ASSUME NEW q \in Seq(MainCall), q # <<>>, Plain(q[1]),
         NEW o, NEW m, NEW up, NEW cl \in SUBSET Sess, NEW b, Kept(q, o, m, up, cl, b)
  PROVE  Kept(Tail(q), o, m, up, cl, b) /\ MixedStill(q, o, up, Tail(q), o, up)
<1>1. Entries(o, m, up, b) /\ Agreed(q, o, m, up) /\ Found(q, o, m, up, cl)
      /\ Changes(q, o) /\ Closes(q, o, m, up, cl)
      /\ \A s \in cl : o[s].state = "live" => Goes(q, o, up, b, s)
  BY DEF Kept, KeptBut
<1>2. PICK t : t = Tail(q)
  OBVIOUS
<1>3. PICK n \in Nat \ {0} : n = Len(q)
  BY Headed
<1>4. Len(t) = n - 1 /\ \A i \in 1 .. n - 1 : t[i] = q[i + 1] /\ i + 1 \in 1 .. n
  BY <1>2, <1>3, Headed
<1>5. \A s : ~Call(q[1], "changed", s) /\ ~Call(q[1], "closed", s)
  BY DEF Plain, Call
<1>6. \A y, s, u : Was(q, y, s, 1, u) <=> Was(t, y, s, 1, u)
  BY <1>2, <1>5, WasHead
<1>7. \A y, s, u : \A i \in 1 .. n : Was(t, y, s, i, u) <=> Was(q, y, s, i + 1, u)
  BY <1>2, <1>3, WasTail
<1>8. ASSUME NEW s \in Sess
      PROVE  /\ Held(q, o, m, up, s) => Held(t, o, m, up, s)
             /\ Mixed(q, o, up, s) => Mixed(t, o, up, s)
  BY <1>6 DEF Held, Mixed
<1>9. ASSUME NEW s, Closing(q, s)  PROVE Closing(t, s)
  <2>1. PICK i \in 1 .. n : Call(q[i], "closed", s)
    BY <1>3, <1>9 DEF Closing
  <2>2. i # 1
    BY <2>1, <1>5
  <2>3. i - 1 \in 1 .. Len(t) /\ t[i - 1] = q[i]
    BY <1>3, <1>4, <2>2
  <2> QED
    BY <2>1, <2>3 DEF Closing
<1>10. Agreed(t, o, m, up)
  BY <1>1, <1>6 DEF Agreed
<1>11. Found(t, o, m, up, cl)
  BY <1>1, <1>8 DEF Found
<1>12. Changes(t, o)
  <2> SUFFICES ASSUME NEW i \in 1 .. Len(t), NEW s \in Sess, Call(t[i], "changed", s)
               PROVE  Was(t, o[s].user, s, i + 1, t[i].new)
    BY DEF Changes
  <2>1. i + 1 \in 1 .. n /\ t[i] = q[i + 1]
    BY <1>3, <1>4
  <2>2. Was(q, o[s].user, s, (i + 1) + 1, q[i + 1].new)
    BY <1>1, <1>3, <2>1 DEF Changes
  <2> QED
    BY <1>7, <2>1, <2>2
<1>13. Closes(t, o, m, up, cl)
  <2> SUFFICES ASSUME NEW i \in 1 .. Len(t), NEW s \in Sess, Call(t[i], "closed", s)
               PROVE  /\ s \in cl /\ Was(t, o[s].user, s, i, t[i].user)
                      /\ \/ t[i].user \in up
                         \/ /\ Held(t, o, m, up, s)
                            /\ \A j \in 1 .. i - 1 : ~Call(t[j], "closed", s)
    BY DEF Closes
  <2>1. i + 1 \in 1 .. n /\ t[i] = q[i + 1] /\ i \in 1 .. n
    BY <1>3, <1>4
  <2>2. /\ s \in cl /\ Was(q, o[s].user, s, i + 1, q[i + 1].user)
        /\ \/ q[i + 1].user \in up
           \/ /\ Held(q, o, m, up, s)
              /\ \A j \in 1 .. (i + 1) - 1 : ~Call(q[j], "closed", s)
    BY <1>1, <1>3, <2>1 DEF Closes
  <2>3. Was(t, o[s].user, s, i, t[i].user)
    BY <1>7, <2>1, <2>2
  <2>4. ASSUME \A j \in 1 .. (i + 1) - 1 : ~Call(q[j], "closed", s), NEW j \in 1 .. i - 1
        PROVE  ~Call(t[j], "closed", s)
    <3>1. j + 1 \in 1 .. (i + 1) - 1 /\ t[j] = q[j + 1]
      BY <1>3, <1>4, <2>1
    <3> QED
      BY <2>4, <3>1
  <2> QED
    BY <1>8, <2>1, <2>2, <2>3, <2>4
<1>14. \A s \in cl : o[s].state = "live" => Goes(t, o, up, b, s)
  BY <1>1, <1>8, <1>9 DEF Goes
<1> QED
  BY <1>1, <1>2, <1>8, <1>10, <1>11, <1>12, <1>13, <1>14 DEF Kept, KeptBut, MixedStill

LEMMA KeptMore ==
  ASSUME NEW q \in Seq(MainCall), NEW n \in MainCall, Plain(n),
         NEW o, NEW m, NEW up, NEW cl \in SUBSET Sess, NEW b, Kept(q, o, m, up, cl, b)
  PROVE  Kept(Append(q, n), o, m, up, cl, b) /\ MixedStill(q, o, up, Append(q, n), o, up)
<1>1. Entries(o, m, up, b) /\ Agreed(q, o, m, up) /\ Found(q, o, m, up, cl)
      /\ Changes(q, o) /\ Closes(q, o, m, up, cl)
      /\ \A s \in cl : o[s].state = "live" => Goes(q, o, up, b, s)
  BY DEF Kept, KeptBut
<1>2. PICK r : r = Append(q, n)
  OBVIOUS
<1>3. PICK k \in Nat : k = Len(q)
  BY LenProperties
<1>4. Len(r) = k + 1 /\ r[k + 1] = n /\ \A i \in 1 .. k : r[i] = q[i]
  BY <1>2, <1>3, Appended
<1>5. \A s : ~Call(n, "changed", s) /\ ~Call(n, "closed", s)
  BY DEF Plain, Call
<1>6. \A y, s, u : \A i \in 1 .. k + 1 : Was(r, y, s, i, u) <=> Was(q, y, s, i, u)
  BY <1>2, <1>3, <1>5, WasMore
<1>7. \A s : \A i \in 1 .. Len(r) : Call(r[i], "changed", s) \/ Call(r[i], "closed", s) => i \in 1 .. k
  BY <1>3, <1>4, <1>5
<1>8. ASSUME NEW s \in Sess
      PROVE  /\ Held(q, o, m, up, s) => Held(r, o, m, up, s)
             /\ Mixed(q, o, up, s) => Mixed(r, o, up, s)
             /\ Closing(q, s) => Closing(r, s)
  <2>1. 1 \in 1 .. k + 1
    BY <1>3
  <2>2. Closing(q, s) => Closing(r, s)
    BY <1>3, <1>4 DEF Closing
  <2> QED
    BY <1>6, <2>1, <2>2 DEF Held, Mixed
<1>9. Agreed(r, o, m, up)
  <2>1. 1 \in 1 .. k + 1
    BY <1>3
  <2> QED
    BY <1>1, <1>6, <2>1 DEF Agreed
<1>10. Found(r, o, m, up, cl)
  BY <1>1, <1>8 DEF Found
<1>11. Changes(r, o)
  <2> SUFFICES ASSUME NEW i \in 1 .. Len(r), NEW s \in Sess, Call(r[i], "changed", s)
               PROVE  Was(r, o[s].user, s, i + 1, r[i].new)
    BY DEF Changes
  <2>1. i \in 1 .. k /\ r[i] = q[i] /\ i + 1 \in 1 .. k + 1
    BY <1>3, <1>4, <1>7
  <2>2. Was(q, o[s].user, s, i + 1, q[i].new)
    BY <1>1, <1>3, <2>1 DEF Changes
  <2> QED
    BY <1>6, <2>1, <2>2
<1>12. Closes(r, o, m, up, cl)
  <2> SUFFICES ASSUME NEW i \in 1 .. Len(r), NEW s \in Sess, Call(r[i], "closed", s)
               PROVE  /\ s \in cl /\ Was(r, o[s].user, s, i, r[i].user)
                      /\ \/ r[i].user \in up
                         \/ /\ Held(r, o, m, up, s)
                            /\ \A j \in 1 .. i - 1 : ~Call(r[j], "closed", s)
    BY DEF Closes
  <2>1. i \in 1 .. k /\ r[i] = q[i] /\ i \in 1 .. k + 1
    BY <1>3, <1>4, <1>7
  <2>2. /\ s \in cl /\ Was(q, o[s].user, s, i, q[i].user)
        /\ \/ q[i].user \in up
           \/ /\ Held(q, o, m, up, s)
              /\ \A j \in 1 .. i - 1 : ~Call(q[j], "closed", s)
    BY <1>1, <1>3, <2>1 DEF Closes
  <2>3. Was(r, o[s].user, s, i, r[i].user)
    BY <1>6, <2>1, <2>2
  <2>4. \A j \in 1 .. i - 1 : r[j] = q[j]
    BY <1>3, <1>4, <2>1
  <2> QED
    BY <1>8, <2>1, <2>2, <2>3, <2>4
<1>13. \A s \in cl : o[s].state = "live" => Goes(r, o, up, b, s)
  BY <1>1, <1>8 DEF Goes
<1> QED
  BY <1>1, <1>2, <1>8, <1>9, <1>10, <1>11, <1>12, <1>13 DEF Kept, KeptBut, MixedStill

(* What is left when the first call is handled still leads from one user   *)
(* to the next, and each session in it still closes once.                  *)
LEMMA ChangesTail ==
  ASSUME NEW q \in Seq(MainCall), q # <<>>, NEW o, Changes(q, o)
  PROVE  Changes(Tail(q), o)
<1>1. PICK t : t = Tail(q)
  OBVIOUS
<1>2. PICK n \in Nat \ {0} : n = Len(q)
  BY Headed
<1>3. Len(t) = n - 1 /\ \A i \in 1 .. n - 1 : t[i] = q[i + 1] /\ i + 1 \in 1 .. n
  BY <1>1, <1>2, Headed
<1>4. \A y, s, u : \A i \in 1 .. n : Was(t, y, s, i, u) <=> Was(q, y, s, i + 1, u)
  BY <1>1, <1>2, WasTail
<1> SUFFICES ASSUME NEW i \in 1 .. Len(t), NEW s \in Sess, Call(t[i], "changed", s)
             PROVE  Was(t, o[s].user, s, i + 1, t[i].new)
  BY <1>1 DEF Changes
<1>5. i + 1 \in 1 .. n /\ t[i] = q[i + 1]
  BY <1>2, <1>3
<1>6. Was(q, o[s].user, s, (i + 1) + 1, q[i + 1].new)
  BY <1>2, <1>5 DEF Changes
<1> QED
  BY <1>4, <1>5, <1>6

LEMMA ClosesTail ==
  ASSUME NEW q \in Seq(MainCall), q # <<>>, NEW o, NEW m, NEW up, NEW cl,
         Closes(q, o, m, up, cl), NEW m2, NEW up2, up \subseteq up2,
         \A s \in Sess : Held(q, o, m, up, s) => Held(Tail(q), o, m2, up2, s)
  PROVE  Closes(Tail(q), o, m2, up2, cl)
<1>1. PICK t : t = Tail(q)
  OBVIOUS
<1>2. PICK n \in Nat \ {0} : n = Len(q)
  BY Headed
<1>3. Len(t) = n - 1 /\ \A i \in 1 .. n - 1 : t[i] = q[i + 1] /\ i + 1 \in 1 .. n
  BY <1>1, <1>2, Headed
<1>4. \A y, s, u : \A i \in 1 .. n : Was(t, y, s, i, u) <=> Was(q, y, s, i + 1, u)
  BY <1>1, <1>2, WasTail
<1> SUFFICES ASSUME NEW i \in 1 .. Len(t), NEW s \in Sess, Call(t[i], "closed", s)
             PROVE  /\ s \in cl /\ Was(t, o[s].user, s, i, t[i].user)
                    /\ \/ t[i].user \in up2
                       \/ /\ Held(t, o, m2, up2, s)
                          /\ \A j \in 1 .. i - 1 : ~Call(t[j], "closed", s)
  BY <1>1 DEF Closes
<1>5. i + 1 \in 1 .. n /\ t[i] = q[i + 1] /\ i \in 1 .. n
  BY <1>2, <1>3
<1>6. /\ s \in cl /\ Was(q, o[s].user, s, i + 1, q[i + 1].user)
      /\ \/ q[i + 1].user \in up
         \/ /\ Held(q, o, m, up, s)
            /\ \A j \in 1 .. (i + 1) - 1 : ~Call(q[j], "closed", s)
  BY <1>2, <1>5 DEF Closes
<1>7. Was(t, o[s].user, s, i, t[i].user)
  BY <1>4, <1>5, <1>6
<1>8. ASSUME \A j \in 1 .. (i + 1) - 1 : ~Call(q[j], "closed", s), NEW j \in 1 .. i - 1
      PROVE  ~Call(t[j], "closed", s)
  <2>1. j + 1 \in 1 .. (i + 1) - 1 /\ t[j] = q[j + 1]
    BY <1>2, <1>3, <1>5
  <2> QED
    BY <1>8, <2>1
<1>9. Held(q, o, m, up, s) => Held(t, o, m2, up2, s)
  BY <1>1
<1> QED
  BY <1>5, <1>6, <1>7, <1>8, <1>9

(* Who was to close is still to, if not by the first call.                 *)
LEMMA ClosingTail ==
  ASSUME NEW q \in Seq(MainCall), q # <<>>, NEW s, Closing(q, s), ~Call(q[1], "closed", s)
  PROVE  Closing(Tail(q), s)
<1>1. PICK t : t = Tail(q)
  OBVIOUS
<1>2. PICK n \in Nat \ {0} : n = Len(q)
  BY Headed
<1>3. Len(t) = n - 1 /\ \A i \in 1 .. n - 1 : t[i] = q[i + 1]
  BY <1>1, <1>2, Headed
<1>4. PICK i \in 1 .. n : Call(q[i], "closed", s)
  BY <1>2 DEF Closing
<1>5. i - 1 \in 1 .. Len(t) /\ t[i - 1] = q[i]
  BY <1>2, <1>3, <1>4
<1> QED
  BY <1>1, <1>4, <1>5 DEF Closing

-----------------------------------------------------------------------------
(* Sessions that start and sessions that close.                            *)

\* A session s for u, that nothing is known of yet.
Starts(o, m, up, o2, m2, up2, s, u) ==
    /\ o[s].state = "unborn" /\ o2[s].state = "live" /\ o2[s].user = u
    /\ \A t \in Sess \ {s} : o2[t].user = o[t].user /\ o2[t].state = o[t].state
    /\ m2[u] = s /\ \A v \in User \ {u} : m2[v] = m[v]
    /\ up2 = up \cup (IF m[u] # None THEN {u} ELSE {})

\* No call of s waits.
Silent(q, s) == \A i \in 1 .. Len(q) : ~Call(q[i], "changed", s) /\ ~Call(q[i], "closed", s)

(* Session::Session, and its entry.                                        *)
LEMMA KeptStart ==
  ASSUME NEW q, NEW o, NEW m, NEW up, NEW cl \in SUBSET Sess, NEW b, Kept(q, o, m, up, cl, b),
         NEW s \in Sess, NEW u \in User, s \notin cl, Silent(q, s), ~Has(b[s], "delete"),
         NEW o2, NEW m2, NEW up2, Starts(o, m, up, o2, m2, up2, s, u)
  PROVE  Kept(q, o2, m2, up2, cl, b) /\ MixedStill(q, o, up, q, o2, up2)
<1>1. Entries(o, m, up, b) /\ Agreed(q, o, m, up) /\ Found(q, o, m, up, cl)
      /\ Changes(q, o) /\ Closes(q, o, m, up, cl)
      /\ \A t \in cl : o[t].state = "live" => Goes(q, o, up, b, t)
  BY DEF Kept, KeptBut
<1>2. /\ o[s].state = "unborn" /\ o2[s].state = "live" /\ o2[s].user = u
      /\ \A t \in Sess \ {s} : o2[t].user = o[t].user /\ o2[t].state = o[t].state
      /\ m2[u] = s /\ \A v \in User \ {u} : m2[v] = m[v]
      /\ up \subseteq up2 /\ (m[u] # None => u \in up2)
  BY DEF Starts
<1>3. s # None /\ s # Null /\ \A t \in Sess : t # None /\ t # Null
  BY DEF Sess, None, Null
<1>4. \A v \in User : m[v] # s
  BY <1>1, <1>2 DEF Entries
<1>5. \A v : Was(q, u, s, 1, v) <=> v = u
  BY WasNone DEF Silent
<1>6. ASSUME NEW t \in Sess, t # s
      PROVE  /\ Held(q, o, m, up, t) => Held(q, o2, m2, up2, t)
             /\ Mixed(q, o, up, t) => Mixed(q, o2, up2, t)
             /\ Goes(q, o, up, b, t) => Goes(q, o2, up2, b, t)
  <2>1. o2[t].user = o[t].user
    BY <1>2, <1>6
  <2>2. Mixed(q, o, up, t) => Mixed(q, o2, up2, t)
    BY <1>2, <2>1 DEF Mixed
  <2>3. ASSUME NEW v \in User, v \in up \/ m[v] = t  PROVE v \in up2 \/ m2[v] = t
    BY <1>2, <1>3, <2>3
  <2>4. Held(q, o, m, up, t) => Held(q, o2, m2, up2, t)
    BY <2>1, <2>3 DEF Held
  <2> QED
    BY <2>2, <2>4 DEF Goes
<1>7. Held(q, o2, m2, up2, s)
  BY <1>2, <1>5 DEF Held
<1>8. Entries(o2, m2, up2, b)
  <2>1. \A v \in User : m2[v] = Null => v \in up2
    BY <1>1, <1>2, <1>3 DEF Entries
  <2>2. \A v, x \in User : m2[v] \in Sess /\ m2[v] = m2[x] => v = x
    BY <1>1, <1>2, <1>4 DEF Entries
  <2>3. ASSUME NEW v \in User, m2[v] \in Sess
        PROVE  o2[m2[v]].state = "live" /\ ~Has(b[m2[v]], "delete")
    <3>1. CASE v = u
      BY <1>2, <3>1
    <3>2. CASE v # u
      <4>1. m2[v] = m[v] /\ m[v] # s
        BY <1>2, <1>4, <3>2
      <4> QED
        BY <1>1, <1>2, <2>3, <4>1 DEF Entries
    <3> QED
      BY <3>1, <3>2
  <2> QED
    BY <2>1, <2>2, <2>3 DEF Entries
<1>9. Agreed(q, o2, m2, up2)
  <2> SUFFICES ASSUME NEW v \in User, v \notin up2, m2[v] \in Sess
               PROVE  Was(q, o2[m2[v]].user, m2[v], 1, v)
    BY DEF Agreed
  <2>1. CASE v = u
    BY <1>2, <1>5, <2>1
  <2>2. CASE v # u
    <3>1. m2[v] = m[v] /\ m[v] # s /\ v \notin up
      BY <1>2, <1>4, <2>2
    <3>2. o2[m[v]].user = o[m[v]].user
      BY <1>2, <3>1
    <3> QED
      BY <1>1, <3>1, <3>2 DEF Agreed
  <2> QED
    BY <2>1, <2>2
<1>10. Found(q, o2, m2, up2, cl)
  BY <1>1, <1>2, <1>6, <1>7 DEF Found
<1>11. Changes(q, o2)
  BY <1>1, <1>2 DEF Changes, Silent
<1>12. Closes(q, o2, m2, up2, cl)
  <2> SUFFICES ASSUME NEW i \in 1 .. Len(q), NEW t \in Sess, Call(q[i], "closed", t)
               PROVE  /\ t \in cl /\ Was(q, o2[t].user, t, i, q[i].user)
                      /\ \/ q[i].user \in up2
                         \/ /\ Held(q, o2, m2, up2, t)
                            /\ \A j \in 1 .. i - 1 : ~Call(q[j], "closed", t)
    BY DEF Closes
  <2>1. t # s
    BY DEF Silent
  <2>2. o2[t].user = o[t].user
    BY <1>2, <2>1
  <2>3. /\ t \in cl /\ Was(q, o[t].user, t, i, q[i].user)
        /\ \/ q[i].user \in up
           \/ /\ Held(q, o, m, up, t)
              /\ \A j \in 1 .. i - 1 : ~Call(q[j], "closed", t)
    BY <1>1 DEF Closes
  <2> QED
    BY <1>2, <1>6, <2>1, <2>2, <2>3
<1>13. \A t \in cl : o2[t].state = "live" => Goes(q, o2, up2, b, t)
  BY <1>1, <1>2, <1>6
<1> QED
  BY <1>2, <1>6, <1>8, <1>9, <1>10, <1>11, <1>12, <1>13 DEF Kept, KeptBut, MixedStill

(* A session closes: it need not be found, and must go.                    *)
LEMMA KeptShut ==
  ASSUME NEW q, NEW o, NEW m, NEW up, NEW cl \in SUBSET Sess, NEW b, Kept(q, o, m, up, cl, b),
         NEW s \in Sess
  PROVE  KeptBut(q, o, m, up, cl \cup {s}, b, {s})
<1>1. Entries(o, m, up, b) /\ Agreed(q, o, m, up) /\ Found(q, o, m, up, cl)
      /\ Changes(q, o) /\ Closes(q, o, m, up, cl)
      /\ \A t \in cl : o[t].state = "live" => Goes(q, o, up, b, t)
  BY DEF Kept, KeptBut
<1>2. Found(q, o, m, up, cl \cup {s})
  BY <1>1 DEF Found
<1>3. Closes(q, o, m, up, cl \cup {s})
  BY <1>1 DEF Closes
<1> QED
  BY <1>1, <1>2, <1>3 DEF KeptBut

\* The entry of u goes, and who is found there is deleted.
Removed(m, b, m2, b2, u) ==
    /\ m2[u] = None /\ \A v \in User \ {u} : m2[v] = m[v]
    /\ \A t \in Sess : Has(b2[t], "delete") <=> Has(b[t], "delete") \/ t = m[u]

(* ConnectionManager::sessionClosed, for a session that has closed.        *)
LEMMA KeptRemoved ==
  ASSUME NEW q, NEW o, NEW m, NEW up, NEW cl \in SUBSET Sess, NEW b, NEW s \in cl,
         KeptBut(q, o, m, up, cl, b, {s}), NEW u \in User, u \in up \/ m[u] = s,
         m[u] = s \/ Mixed(q, o, up, s),
         \A i \in 1 .. Len(q) : Call(q[i], "closed", s) => q[i].user \in up,
         NEW m2, NEW b2, Removed(m, b, m2, b2, u)
  PROVE  Kept(q, o, m2, up, cl, b2)
<1>1. Entries(o, m, up, b) /\ Agreed(q, o, m, up) /\ Found(q, o, m, up, cl)
      /\ Changes(q, o) /\ Closes(q, o, m, up, cl)
      /\ \A t \in cl \ {s} : o[t].state = "live" => Goes(q, o, up, b, t)
  BY DEF KeptBut
<1>2. /\ m2[u] = None /\ \A v \in User \ {u} : m2[v] = m[v]
      /\ \A t \in Sess : Has(b2[t], "delete") <=> Has(b[t], "delete") \/ t = m[u]
  BY DEF Removed
<1>3. None \notin Sess /\ None # Null
  BY DEF Sess, None, Null
<1>4. ASSUME NEW t \in Sess, t # s, Held(q, o, m, up, t)  PROVE Held(q, o, m2, up, t)
  BY <1>2, <1>4 DEF Held
<1>5. Entries(o, m2, up, b2)
  <2>1. \A v \in User : m2[v] = Null => v \in up
    BY <1>1, <1>2, <1>3 DEF Entries
  <2>2. \A v, x \in User : m2[v] \in Sess /\ m2[v] = m2[x] => v = x
    BY <1>1, <1>2, <1>3 DEF Entries
  <2>3. ASSUME NEW v \in User, m2[v] \in Sess
        PROVE  o[m2[v]].state = "live" /\ ~Has(b2[m2[v]], "delete")
    <3>1. v # u /\ m2[v] = m[v]
      BY <1>2, <1>3, <2>3
    <3>2. m[v] # m[u]
      BY <1>1, <2>3, <3>1 DEF Entries
    <3> QED
      BY <1>1, <1>2, <2>3, <3>1, <3>2 DEF Entries
  <2> QED
    BY <2>1, <2>2, <2>3 DEF Entries
<1>6. Agreed(q, o, m2, up)
  BY <1>1, <1>2, <1>3 DEF Agreed
<1>7. Found(q, o, m2, up, cl)
  BY <1>1, <1>4 DEF Found
<1>8. Closes(q, o, m2, up, cl)
  BY <1>1, <1>4 DEF Closes
<1>9. \A t \in cl : o[t].state = "live" => Goes(q, o, up, b2, t)
  <2> SUFFICES ASSUME NEW t \in cl, o[t].state = "live"  PROVE Goes(q, o, up, b2, t)
    OBVIOUS
  <2>1. CASE t = s
    BY <1>2, <2>1 DEF Goes
  <2>2. CASE t # s
    BY <1>1, <1>2, <2>2 DEF Goes
  <2> QED
    BY <2>1, <2>2
<1> QED
  BY <1>1, <1>5, <1>6, <1>7, <1>8, <1>9 DEF Kept, KeptBut

(* The first call closes s: the entry of its user is that of s, or mixed   *)
(* up; and no other call closes s, but for a user who is.                  *)
LEMMA KeptClosed ==
  ASSUME NEW q \in Seq(MainCall), q # <<>>, NEW s \in Sess, Call(q[1], "closed", s),
         NEW o, NEW m, NEW up, NEW cl \in SUBSET Sess, NEW b, Kept(q, o, m, up, cl, b)
  PROVE  /\ s \in cl /\ KeptBut(Tail(q), o, m, up, cl, b, {s})
         /\ q[1].user \in up \/ m[q[1].user] = s
         /\ m[q[1].user] = s \/ Mixed(Tail(q), o, up, s)
         /\ \A i \in 1 .. Len(Tail(q)) : Call(Tail(q)[i], "closed", s) => Tail(q)[i].user \in up
         /\ MixedStill(q, o, up, Tail(q), o, up)
<1>1. Entries(o, m, up, b) /\ Agreed(q, o, m, up) /\ Found(q, o, m, up, cl)
      /\ Changes(q, o) /\ Closes(q, o, m, up, cl)
      /\ \A t \in cl : o[t].state = "live" => Goes(q, o, up, b, t)
  BY DEF Kept, KeptBut
<1>2. PICK t : t = Tail(q)
  OBVIOUS
<1>3. PICK n \in Nat \ {0} : n = Len(q)
  BY Headed
<1>4. Len(t) = n - 1 /\ \A i \in 1 .. n - 1 : t[i] = q[i + 1] /\ i + 1 \in 1 .. n
  BY <1>2, <1>3, Headed
<1>5. PICK u \in User : u = q[1].user
  <2>1. q[1] \in MainCall /\ q[1].call \notin {"unset"}
    BY Headed DEF Call
  <2> QED
    BY <2>1, CallFields
<1>6. /\ \A x : ~Call(q[1], "changed", x)
      /\ \A x : x # s => ~Call(q[1], "closed", x)
  BY DEF Call
<1>7. \A y, x, v : Was(q, y, x, 1, v) <=> Was(t, y, x, 1, v)
  BY <1>2, <1>6, WasHead
<1>8. \A x \in Sess : /\ Held(q, o, m, up, x) => Held(t, o, m, up, x)
                      /\ Mixed(q, o, up, x) => Mixed(t, o, up, x)
  BY <1>7 DEF Held, Mixed
<1>9. s \in cl /\ Was(q, o[s].user, s, 1, u) /\ (u \in up \/ Held(q, o, m, up, s))
  <2>1. 1 \in 1 .. Len(q)
    BY <1>3
  <2> QED
    BY <1>1, <1>5, <2>1 DEF Closes
<1>10. u \in up \/ m[u] = s
  BY <1>9 DEF Held
<1>11. ASSUME u \in up  PROVE Mixed(t, o, up, s)
  <2>1. \A v \in User : Was(q, o[s].user, s, 1, v) => v = u
    BY <1>9, WasOne
  <2> QED
    BY <1>8, <1>11, <2>1 DEF Mixed
<1>12. ASSUME NEW i \in 1 .. Len(t), Call(t[i], "closed", s)  PROVE t[i].user \in up
  <2>1. i + 1 \in 1 .. Len(q) /\ t[i] = q[i + 1] /\ 1 \in 1 .. (i + 1) - 1
    BY <1>3, <1>4
  <2>2. \/ q[i + 1].user \in up
        \/ \A j \in 1 .. (i + 1) - 1 : ~Call(q[j], "closed", s)
    BY <1>1, <1>12, <2>1 DEF Closes
  <2> QED
    BY <2>1, <2>2
<1>13. Agreed(t, o, m, up)
  BY <1>1, <1>7 DEF Agreed
<1>14. Found(t, o, m, up, cl)
  BY <1>1, <1>8 DEF Found
<1>15. Changes(t, o)
  BY <1>1, <1>2, ChangesTail
<1>16. Closes(t, o, m, up, cl)
  BY <1>1, <1>2, <1>8, ClosesTail
<1>17. ASSUME NEW x \in cl \ {s}, o[x].state = "live"  PROVE Goes(t, o, up, b, x)
  <2>1. Goes(q, o, up, b, x)
    BY <1>1, <1>17
  <2>2. Closing(q, x) => Closing(t, x)
    BY <1>2, <1>6, <1>17, ClosingTail
  <2> QED
    BY <1>8, <2>1, <2>2 DEF Goes
<1>18. KeptBut(t, o, m, up, cl, b, {s})
  BY <1>1, <1>13, <1>14, <1>15, <1>16, <1>17 DEF KeptBut
<1> QED
  BY <1>2, <1>5, <1>8, <1>9, <1>10, <1>11, <1>12, <1>18 DEF MixedStill

(* Session::close in the thread of an instance: the call is on its way.    *)
LEMMA KeptCloses ==
  ASSUME NEW q \in Seq(MainCall), NEW n \in MainCall, NEW s \in Sess, Call(n, "closed", s),
         NEW o, NEW m, NEW up, NEW cl \in SUBSET Sess, NEW b, Kept(q, o, m, up, cl, b),
         n.user = o[s].user, o[s].state # "unborn",
         NEW up2, up2 = IF s \in cl THEN up \cup {o[s].user} ELSE up
  PROVE  Kept(Append(q, n), o, m, up2, cl \cup {s}, b) /\ MixedStill(q, o, up, Append(q, n), o, up2)
<1>1. Entries(o, m, up, b) /\ Agreed(q, o, m, up) /\ Found(q, o, m, up, cl)
      /\ Changes(q, o) /\ Closes(q, o, m, up, cl)
      /\ \A t \in cl : o[t].state = "live" => Goes(q, o, up, b, t)
  BY DEF Kept, KeptBut
<1>2. PICK r : r = Append(q, n)
  OBVIOUS
<1>3. PICK k \in Nat : k = Len(q)
  BY LenProperties
<1>4. Len(r) = k + 1 /\ r[k + 1] = n /\ \A i \in 1 .. k : r[i] = q[i]
  BY <1>2, <1>3, Appended
<1>5. (\A t : ~Call(n, "changed", t)) /\ (\A t : t # s => ~Call(n, "closed", t))
      /\ up \subseteq up2
  BY DEF Call
<1>6. \A y, t, u : \A i \in 1 .. k + 1 : Was(r, y, t, i, u) <=> Was(q, y, t, i, u)
  BY <1>2, <1>3, <1>5, WasMore
<1>7. 1 \in 1 .. k + 1 /\ k + 1 \in 1 .. k + 1
  BY <1>3
<1>8. ASSUME NEW t \in Sess
      PROVE  /\ Held(q, o, m, up, t) => Held(r, o, m, up2, t)
             /\ Mixed(q, o, up, t) => Mixed(r, o, up2, t)
             /\ Closing(q, t) => Closing(r, t)
  <2>1. Closing(q, t) => Closing(r, t)
    BY <1>3, <1>4 DEF Closing
  <2> QED
    BY <1>5, <1>6, <1>7, <2>1 DEF Held, Mixed
<1>9. Agreed(r, o, m, up2)
  BY <1>1, <1>5, <1>6, <1>7 DEF Agreed
<1>10. Found(r, o, m, up2, cl \cup {s})
  BY <1>1, <1>8 DEF Found
<1>11. Changes(r, o)
  <2> SUFFICES ASSUME NEW i \in 1 .. Len(r), NEW t \in Sess, Call(r[i], "changed", t)
               PROVE  Was(r, o[t].user, t, i + 1, r[i].new)
    BY DEF Changes
  <2>1. i \in 1 .. k /\ r[i] = q[i] /\ i + 1 \in 1 .. k + 1
    BY <1>3, <1>4, <1>5
  <2>2. Was(q, o[t].user, t, i + 1, q[i].new)
    BY <1>1, <1>3, <2>1 DEF Changes
  <2> QED
    BY <1>6, <2>1, <2>2
<1>12. Closes(r, o, m, up2, cl \cup {s})
  <2> SUFFICES ASSUME NEW i \in 1 .. Len(r), NEW t \in Sess, Call(r[i], "closed", t)
               PROVE  /\ t \in cl \cup {s} /\ Was(r, o[t].user, t, i, r[i].user)
                      /\ \/ r[i].user \in up2
                         \/ /\ Held(r, o, m, up2, t)
                            /\ \A j \in 1 .. i - 1 : ~Call(r[j], "closed", t)
    BY DEF Closes
  <2>1. CASE i \in 1 .. k
    <3>1. r[i] = q[i] /\ i \in 1 .. k + 1 /\ \A j \in 1 .. i - 1 : r[j] = q[j]
      BY <1>3, <1>4, <2>1
    <3>2. /\ t \in cl /\ Was(q, o[t].user, t, i, q[i].user)
          /\ \/ q[i].user \in up
             \/ /\ Held(q, o, m, up, t)
                /\ \A j \in 1 .. i - 1 : ~Call(q[j], "closed", t)
      BY <1>1, <1>3, <2>1, <3>1 DEF Closes
    <3> QED
      BY <1>5, <1>6, <1>8, <3>1, <3>2
  <2>2. CASE i = k + 1
    <3>1. t = s /\ r[i] = n
      BY <1>4, <1>5, <2>2
    <3>2. Was(q, o[s].user, s, k + 1, n.user)
      <4>1. \A j \in k + 1 .. Len(q) : FALSE
        BY <1>3
      <4> QED
        BY <4>1 DEF Was
    <3>3. CASE s \in cl
      BY <1>6, <1>7, <2>2, <3>1, <3>2, <3>3
    <3>4. CASE s \notin cl
      <4>1. Held(r, o, m, up2, s)
        BY <1>1, <1>8, <3>4 DEF Found
      <4>2. \A j \in 1 .. k : ~Call(q[j], "closed", s)
        BY <1>1, <1>3, <3>4 DEF Closes
      <4>3. \A j \in 1 .. i - 1 : ~Call(r[j], "closed", s)
        <5>1. i - 1 = k
          BY <1>3, <2>2
        <5> QED
          BY <1>4, <4>2, <5>1
      <4> QED
        BY <1>6, <1>7, <2>2, <3>1, <3>2, <4>1, <4>3
    <3> QED
      BY <3>3, <3>4
  <2> QED
    BY <1>3, <1>4, <2>1, <2>2
<1>13. \A t \in cl \cup {s} : o[t].state = "live" => Goes(r, o, up2, b, t)
  <2>1. Closing(r, s)
    BY <1>3, <1>4 DEF Closing
  <2> QED
    BY <1>1, <1>8, <2>1 DEF Goes
<1> QED
  <2>1. Entries(o, m, up2, b)
    BY <1>1, <1>5 DEF Entries
  <2> QED
    BY <1>2, <1>8, <1>9, <1>10, <1>11, <1>12, <1>13, <2>1 DEF Kept, KeptBut, MixedStill

-----------------------------------------------------------------------------
(* Users that change.                                                      *)

\* The entry of u goes to v, and what is not that of s is mixed up.
Moved(m, up, m2, up2, s, u, v) ==
    /\ m2[v] = IF m[u] = None THEN Null ELSE m[u]
    /\ u # v => m2[u] = None
    /\ \A x \in User \ {u, v} : m2[x] = m[x]
    /\ up2 = up \cup (IF m[u] # s \/ u \in up THEN {u, v} ELSE {})
                \cup (IF u # v /\ m[v] # None THEN {v} ELSE {})

\* s, which the map had as u, is one it has as v; the others are as they were.
Renamed(q, o, q2, o2, s, u, v) ==
    /\ \A x : Was(q, o[s].user, s, 1, x) <=> x = u
    /\ \A x : Was(q2, o2[s].user, s, 1, x) <=> x = v
    /\ \A t \in Sess \ {s} : \A x : Was(q2, o2[t].user, t, 1, x) <=> Was(q, o[t].user, t, 1, x)
    /\ \A t \in Sess : o2[t].state = o[t].state

(* ConnectionManager::sessionChanged: what was found is found again, but   *)
(* for users who are mixed up.                                             *)
LEMMA Moves ==
  ASSUME NEW q, NEW o, NEW m \in [User -> Sess \cup {None, Null}], NEW up, NEW b,
         Entries(o, m, up, b), Agreed(q, o, m, up),
         NEW s \in Sess, NEW u \in User, NEW v \in User, NEW q2, NEW o2,
         Renamed(q, o, q2, o2, s, u, v), NEW m2, NEW up2, Moved(m, up, m2, up2, s, u, v)
  PROVE  /\ up \subseteq up2 /\ Entries(o2, m2, up2, b) /\ Agreed(q2, o2, m2, up2)
         /\ \A t \in Sess : /\ Held(q, o, m, up, t) => Held(q2, o2, m2, up2, t)
                            /\ Mixed(q, o, up, t) => Mixed(q2, o2, up2, t)
<1>1. /\ m2[v] = IF m[u] = None THEN Null ELSE m[u]
      /\ u # v => m2[u] = None
      /\ \A x \in User \ {u, v} : m2[x] = m[x]
      /\ up \subseteq up2 /\ (m[u] # s \/ u \in up => u \in up2 /\ v \in up2)
      /\ (u # v /\ m[v] # None => v \in up2)
  BY DEF Moved
<1>2. /\ \A x : Was(q, o[s].user, s, 1, x) <=> x = u
      /\ \A x : Was(q2, o2[s].user, s, 1, x) <=> x = v
      /\ \A t \in Sess \ {s} : \A x : Was(q2, o2[t].user, t, 1, x) <=> Was(q, o[t].user, t, 1, x)
      /\ \A t \in Sess : o2[t].state = o[t].state
  BY DEF Renamed
<1>3. None \notin Sess /\ Null \notin Sess /\ None # Null
  BY DEF Sess, None, Null
<1>4. Entries(o2, m2, up2, b)
  <2>1. ASSUME NEW x \in User, m2[x] = Null  PROVE x \in up2
    <3>1. CASE x = v
      <4>1. m[u] # s
        BY <1>1, <1>3, <2>1, <3>1
      <4> QED
        BY <1>1, <3>1, <4>1
    <3>2. CASE x # v
      BY <1>1, <1>3, <2>1, <3>2 DEF Entries
    <3> QED
      BY <3>1, <3>2
  <2>2. ASSUME NEW x \in User, m2[x] \in Sess
        PROVE  \E y \in User : m[y] = m2[x] /\ (IF x = v THEN y = u ELSE y = x /\ x # u)
    <3>1. CASE x = v
      BY <1>1, <1>3, <2>2, <3>1
    <3>2. CASE x # v
      BY <1>1, <1>3, <2>2, <3>2
    <3> QED
      BY <3>1, <3>2
  <2>3. ASSUME NEW x \in User, NEW y \in User, m2[x] \in Sess, m2[x] = m2[y]  PROVE x = y
    <3>1. PICK x1 \in User : m[x1] = m2[x] /\ (IF x = v THEN x1 = u ELSE x1 = x /\ x # u)
      BY <2>2, <2>3
    <3>2. PICK y1 \in User : m[y1] = m2[y] /\ (IF y = v THEN y1 = u ELSE y1 = y /\ y # u)
      BY <2>2, <2>3
    <3>3. x1 = y1
      BY <2>3, <3>1, <3>2 DEF Entries
    <3> QED
      BY <3>1, <3>2, <3>3
  <2>4. ASSUME NEW x \in User, m2[x] \in Sess
        PROVE  o2[m2[x]].state = "live" /\ ~Has(b[m2[x]], "delete")
    <3>1. PICK y \in User : m[y] = m2[x]
      BY <2>2, <2>4
    <3> QED
      BY <1>2, <2>4, <3>1 DEF Entries
  <2> QED
    BY <2>1, <2>3, <2>4 DEF Entries
<1>5. Agreed(q2, o2, m2, up2)
  <2> SUFFICES ASSUME NEW x \in User, x \notin up2, m2[x] \in Sess
               PROVE  Was(q2, o2[m2[x]].user, m2[x], 1, x)
    BY DEF Agreed
  <2>1. CASE x = v
    <3>1. m[u] = s /\ m2[x] = s
      BY <1>1, <1>3, <2>1
    <3> QED
      BY <1>2, <2>1, <3>1
  <2>2. CASE x # v
    <3>1. x # u /\ m2[x] = m[x] /\ x \notin up
      BY <1>1, <1>3, <2>2
    <3>2. Was(q, o[m[x]].user, m[x], 1, x)
      BY <3>1 DEF Agreed
    <3>3. m[x] # s
      BY <1>2, <3>1, <3>2
    <3> QED
      BY <1>2, <3>1, <3>2, <3>3
  <2> QED
    BY <2>1, <2>2
<1>6. ASSUME NEW t \in Sess, Held(q, o, m, up, t)  PROVE Held(q2, o2, m2, up2, t)
  <2> SUFFICES ASSUME NEW x \in User, Was(q2, o2[t].user, t, 1, x)
               PROVE  x \in up2 \/ m2[x] = t
    BY DEF Held
  <2>1. CASE t = s
    <3>1. x = v /\ (u \in up \/ m[u] = s)
      BY <1>2, <1>6, <2>1 DEF Held
    <3> QED
      BY <1>1, <1>3, <2>1, <3>1
  <2>2. CASE t # s
    <3>1. x \in up \/ m[x] = t
      BY <1>2, <1>6, <2>2 DEF Held
    <3>2. CASE x = v
      BY <1>1, <1>3, <2>2, <3>1, <3>2
    <3>3. CASE x # v
      BY <1>1, <1>3, <2>2, <3>1, <3>3
    <3> QED
      BY <3>2, <3>3
  <2> QED
    BY <2>1, <2>2
<1>7. ASSUME NEW t \in Sess, Mixed(q, o, up, t)  PROVE Mixed(q2, o2, up2, t)
  <2> SUFFICES ASSUME NEW x \in User, Was(q2, o2[t].user, t, 1, x)
               PROVE  x \in up2
    BY DEF Mixed
  <2>1. CASE t = s
    <3>1. x = v /\ u \in up
      BY <1>2, <1>7, <2>1 DEF Mixed
    <3> QED
      BY <1>1, <3>1
  <2>2. CASE t # s
    BY <1>1, <1>2, <1>7, <2>2 DEF Mixed
  <2> QED
    BY <2>1, <2>2
<1> QED
  BY <1>1, <1>4, <1>5, <1>6, <1>7

(* The first call changes s.                                               *)
LEMMA KeptChanged ==
  ASSUME NEW q \in Seq(MainCall), q # <<>>, NEW s \in Sess, Call(q[1], "changed", s),
         NEW o, NEW m \in [User -> Sess \cup {None, Null}], NEW up,
         NEW cl \in SUBSET Sess, NEW b, Kept(q, o, m, up, cl, b),
         NEW m2, NEW up2, Moved(m, up, m2, up2, s, q[1].user, q[1].new)
  PROVE  Kept(Tail(q), o, m2, up2, cl, b) /\ MixedStill(q, o, up, Tail(q), o, up2)
<1>1. Entries(o, m, up, b) /\ Agreed(q, o, m, up) /\ Found(q, o, m, up, cl)
      /\ Changes(q, o) /\ Closes(q, o, m, up, cl)
      /\ \A t \in cl : o[t].state = "live" => Goes(q, o, up, b, t)
  BY DEF Kept, KeptBut
<1>2. PICK r : r = Tail(q)
  OBVIOUS
<1>3. PICK n \in Nat \ {0} : n = Len(q)
  BY Headed
<1>4. q[1] \in MainCall /\ q[1].call = "changed"
  BY Headed DEF Call
<1>5. PICK u \in User : u = q[1].user
  BY <1>4, CallFields
<1>6. PICK v \in User : v = q[1].new
  BY <1>4, CallFields
<1>7. \A t : t # s => ~Call(q[1], "changed", t)
  BY DEF Call
<1>8. \A t : ~Call(q[1], "closed", t)
  BY <1>4 DEF Call
<1>9. Renamed(q, o, r, o, s, u, v)
  <2>1. \A x : Was(q, o[s].user, s, 1, x) <=> x = u
    BY <1>5, WasHead
  <2>2. Was(r, o[s].user, s, 1, v)
    <3>1. 1 \in 1 .. n
      BY <1>3
    <3>2. Was(q, o[s].user, s, 1 + 1, v)
      BY <1>1, <1>3, <1>6, <3>1 DEF Changes
    <3> QED
      BY <1>2, <1>3, <3>1, <3>2, WasTail
  <2>3. r \in Seq(MainCall)
    BY <1>2, Headed
  <2>4. \A x : Was(r, o[s].user, s, 1, x) <=> x = v
    BY <2>2, <2>3, WasOne
  <2>5. \A t \in Sess \ {s} : \A x : Was(r, o[t].user, t, 1, x) <=> Was(q, o[t].user, t, 1, x)
    BY <1>2, <1>7, WasHead
  <2> QED
    BY <2>1, <2>4, <2>5 DEF Renamed
<1>10. /\ up \subseteq up2 /\ Entries(o, m2, up2, b) /\ Agreed(r, o, m2, up2)
       /\ \A t \in Sess : /\ Held(q, o, m, up, t) => Held(r, o, m2, up2, t)
                          /\ Mixed(q, o, up, t) => Mixed(r, o, up2, t)
  <2>1. Entries(o, m, up, b) /\ Agreed(q, o, m, up) /\ Moved(m, up, m2, up2, s, u, v)
    BY <1>1, <1>5, <1>6
  <2>2. up \subseteq up2
    BY <1>9, <2>1, Moves
  <2>3. Entries(o, m2, up2, b) /\ Agreed(r, o, m2, up2)
    BY <1>9, <2>1, Moves
  <2>4. \A t \in Sess : Held(q, o, m, up, t) => Held(r, o, m2, up2, t)
    BY <1>9, <2>1, Moves
  <2>5. \A t \in Sess : Mixed(q, o, up, t) => Mixed(r, o, up2, t)
    BY <1>9, <2>1, Moves
  <2> QED
    BY <2>2, <2>3, <2>4, <2>5
<1>11. Found(r, o, m2, up2, cl)
  BY <1>1, <1>10 DEF Found
<1>12. Changes(r, o)
  BY <1>1, <1>2, ChangesTail
<1>13. Closes(r, o, m2, up2, cl)
  BY <1>1, <1>2, <1>10, ClosesTail
<1>14. ASSUME NEW t \in cl, o[t].state = "live"  PROVE Goes(r, o, up2, b, t)
  <2>1. Goes(q, o, up, b, t)
    BY <1>1, <1>14
  <2>2. Closing(q, t) => Closing(r, t)
    BY <1>2, <1>8, ClosingTail
  <2> QED
    BY <1>10, <2>1, <2>2 DEF Goes
<1> QED
  BY <1>2, <1>10, <1>11, <1>12, <1>13, <1>14 DEF Kept, KeptBut, MixedStill

\* s is v and no longer u.
Turns(o, o2, s, u, v) ==
    /\ o[s].user = u /\ o2[s].user = v
    /\ \A t \in Sess : o2[t].state = o[t].state
    /\ \A t \in Sess \ {s} : o2[t].user = o[t].user

(* A session of the main thread changes its user at once.                  *)
LEMMA KeptBecame ==
  ASSUME NEW q \in Seq(MainCall), NEW s \in Sess, Silent(q, s),
         NEW o, NEW m \in [User -> Sess \cup {None, Null}], NEW up,
         NEW cl \in SUBSET Sess, NEW b, Kept(q, o, m, up, cl, b),
         NEW u \in User, NEW v \in User, NEW o2, Turns(o, o2, s, u, v),
         NEW m2, NEW up2, Moved(m, up, m2, up2, s, u, v)
  PROVE  Kept(q, o2, m2, up2, cl, b) /\ MixedStill(q, o, up, q, o2, up2)
<1>1. Entries(o, m, up, b) /\ Agreed(q, o, m, up) /\ Found(q, o, m, up, cl)
      /\ Changes(q, o) /\ Closes(q, o, m, up, cl)
      /\ \A t \in cl : o[t].state = "live" => Goes(q, o, up, b, t)
  BY DEF Kept, KeptBut
<1>2. Renamed(q, o, q, o2, s, u, v)
  <2>1. \A y, x : Was(q, y, s, 1, x) <=> x = y
    BY WasNone DEF Silent
  <2> QED
    BY <2>1 DEF Renamed, Turns
<1>3. /\ up \subseteq up2 /\ Entries(o2, m2, up2, b) /\ Agreed(q, o2, m2, up2)
      /\ \A t \in Sess : /\ Held(q, o, m, up, t) => Held(q, o2, m2, up2, t)
                         /\ Mixed(q, o, up, t) => Mixed(q, o2, up2, t)
  <2>1. Entries(o, m, up, b) /\ Agreed(q, o, m, up) /\ Moved(m, up, m2, up2, s, u, v)
    BY <1>1
  <2>2. up \subseteq up2
    BY <1>2, <2>1, Moves
  <2>3. Entries(o2, m2, up2, b) /\ Agreed(q, o2, m2, up2)
    BY <1>2, <2>1, Moves
  <2>4. \A t \in Sess : Held(q, o, m, up, t) => Held(q, o2, m2, up2, t)
    BY <1>2, <2>1, Moves
  <2>5. \A t \in Sess : Mixed(q, o, up, t) => Mixed(q, o2, up2, t)
    BY <1>2, <2>1, Moves
  <2> QED
    BY <2>2, <2>3, <2>4, <2>5
<1>4. Found(q, o2, m2, up2, cl)
  BY <1>1, <1>3 DEF Found, Turns
<1>5. Changes(q, o2)
  BY <1>1 DEF Changes, Silent, Turns
<1>6. Closes(q, o2, m2, up2, cl)
  <2> SUFFICES ASSUME NEW i \in 1 .. Len(q), NEW t \in Sess, Call(q[i], "closed", t)
               PROVE  /\ t \in cl /\ Was(q, o2[t].user, t, i, q[i].user)
                      /\ \/ q[i].user \in up2
                         \/ /\ Held(q, o2, m2, up2, t)
                            /\ \A j \in 1 .. i - 1 : ~Call(q[j], "closed", t)
    BY DEF Closes
  <2>1. t # s
    BY DEF Silent
  <2>2. o2[t].user = o[t].user
    BY <2>1 DEF Turns
  <2>3. /\ t \in cl /\ Was(q, o[t].user, t, i, q[i].user)
        /\ \/ q[i].user \in up
           \/ /\ Held(q, o, m, up, t)
              /\ \A j \in 1 .. i - 1 : ~Call(q[j], "closed", t)
    BY <1>1 DEF Closes
  <2> QED
    BY <1>3, <2>2, <2>3
<1>7. \A t \in cl : o2[t].state = "live" => Goes(q, o2, up2, b, t)
  BY <1>1, <1>3 DEF Goes, Turns
<1> QED
  BY <1>3, <1>4, <1>5, <1>6, <1>7 DEF Kept, KeptBut, MixedStill

(* One in the thread of an instance does: the call is on its way.          *)
LEMMA KeptTurns ==
  ASSUME NEW q \in Seq(MainCall), NEW n \in MainCall, NEW s \in Sess, Call(n, "changed", s),
         NEW o, NEW m, NEW up, NEW cl \in SUBSET Sess, NEW b, Kept(q, o, m, up, cl, b),
         NEW o2, Turns(o, o2, s, n.user, n.new)
  PROVE  Kept(Append(q, n), o2, m, up, cl, b) /\ MixedStill(q, o, up, Append(q, n), o2, up)
<1>1. Entries(o, m, up, b) /\ Agreed(q, o, m, up) /\ Found(q, o, m, up, cl)
      /\ Changes(q, o) /\ Closes(q, o, m, up, cl)
      /\ \A t \in cl : o[t].state = "live" => Goes(q, o, up, b, t)
  BY DEF Kept, KeptBut
<1>2. PICK r : r = Append(q, n)
  OBVIOUS
<1>3. PICK k \in Nat : k = Len(q)
  BY LenProperties
<1>4. Len(r) = k + 1 /\ r[k + 1] = n /\ \A i \in 1 .. k : r[i] = q[i]
  BY <1>2, <1>3, Appended
<1>5. (\A t : t # s => ~Call(n, "changed", t)) /\ (\A t : ~Call(n, "closed", t))
  BY DEF Call
<1>6. /\ o[s].user = n.user /\ o2[s].user = n.new
      /\ \A t \in Sess : o2[t].state = o[t].state
      /\ \A t \in Sess \ {s} : o2[t].user = o[t].user
  BY DEF Turns
<1>7. ASSUME NEW t \in Sess, NEW u, NEW i \in 1 .. k + 1
      PROVE  Was(r, o2[t].user, t, i, u) <=> Was(q, o[t].user, t, i, u)
  <2>1. CASE t = s
    BY <1>2, <1>3, <1>6, <2>1, WasChange
  <2>2. CASE t # s
    <3>1. o2[t].user = o[t].user
      BY <1>6, <2>2
    <3> QED
      BY <1>2, <1>3, <1>5, <2>2, <3>1, WasMore
  <2> QED
    BY <2>1, <2>2
<1>8. 1 \in 1 .. k + 1
  BY <1>3
<1>9. ASSUME NEW t \in Sess
      PROVE  /\ Held(q, o, m, up, t) => Held(r, o2, m, up, t)
             /\ Mixed(q, o, up, t) => Mixed(r, o2, up, t)
             /\ Closing(q, t) => Closing(r, t)
  <2>1. Closing(q, t) => Closing(r, t)
    BY <1>3, <1>4 DEF Closing
  <2>2. \A u : Was(r, o2[t].user, t, 1, u) <=> Was(q, o[t].user, t, 1, u)
    BY <1>7, <1>8
  <2> QED
    BY <2>1, <2>2 DEF Held, Mixed
<1>10. Agreed(r, o2, m, up)
  BY <1>1, <1>7, <1>8 DEF Agreed
<1>11. Found(r, o2, m, up, cl)
  BY <1>1, <1>6, <1>9 DEF Found
<1>12. Changes(r, o2)
  <2> SUFFICES ASSUME NEW i \in 1 .. Len(r), NEW t \in Sess, Call(r[i], "changed", t)
               PROVE  Was(r, o2[t].user, t, i + 1, r[i].new)
    BY DEF Changes
  <2>1. CASE i \in 1 .. k
    <3>1. r[i] = q[i] /\ i + 1 \in 1 .. k + 1
      BY <1>3, <1>4, <2>1
    <3>2. Was(q, o[t].user, t, i + 1, q[i].new)
      BY <1>1, <1>3, <2>1, <3>1 DEF Changes
    <3> QED
      BY <1>7, <3>1, <3>2
  <2>2. CASE i = k + 1
    <3>1. t = s /\ r[i] = n
      BY <1>4, <1>5, <2>2
    <3>2. \A j \in i + 1 .. Len(r) : FALSE
      BY <1>3, <1>4, <2>2
    <3> QED
      BY <1>6, <3>1, <3>2 DEF Was
  <2> QED
    BY <1>3, <1>4, <2>1, <2>2
<1>13. Closes(r, o2, m, up, cl)
  <2> SUFFICES ASSUME NEW i \in 1 .. Len(r), NEW t \in Sess, Call(r[i], "closed", t)
               PROVE  /\ t \in cl /\ Was(r, o2[t].user, t, i, r[i].user)
                      /\ \/ r[i].user \in up
                         \/ /\ Held(r, o2, m, up, t)
                            /\ \A j \in 1 .. i - 1 : ~Call(r[j], "closed", t)
    BY DEF Closes
  <2>1. i \in 1 .. k /\ r[i] = q[i] /\ i \in 1 .. k + 1 /\ \A j \in 1 .. i - 1 : r[j] = q[j]
    BY <1>3, <1>4, <1>5
  <2>2. /\ t \in cl /\ Was(q, o[t].user, t, i, q[i].user)
        /\ \/ q[i].user \in up
           \/ /\ Held(q, o, m, up, t)
              /\ \A j \in 1 .. i - 1 : ~Call(q[j], "closed", t)
    BY <1>1, <1>3, <2>1 DEF Closes
  <2> QED
    BY <1>7, <1>9, <2>1, <2>2
<1>14. \A t \in cl : o2[t].state = "live" => Goes(r, o2, up, b, t)
  BY <1>1, <1>6, <1>9 DEF Goes
<1>15. Entries(o2, m, up, b)
  BY <1>1, <1>6 DEF Entries
<1> QED
  BY <1>2, <1>9, <1>10, <1>11, <1>12, <1>13, <1>14, <1>15 DEF Kept, KeptBut, MixedStill

\* s is deleted, and what waits for it dropped.
Dies(o, b, o2, b2, s) ==
    /\ o[s].state = "live" /\ Has(b[s], "delete")
    /\ o2[s].state = "gone" /\ ~Has(b2[s], "delete")
    /\ \A t \in Sess \ {s} : o2[t].state = o[t].state /\ b2[t] = b[t]
    /\ \A t \in Sess : o2[t].user = o[t].user

(* Session::~Session.                                                      *)
LEMMA KeptDies ==
  ASSUME NEW q, NEW o, NEW m, NEW up, NEW cl \in SUBSET Sess, NEW b, Kept(q, o, m, up, cl, b),
         NEW s \in Sess, NEW o2, NEW b2, Dies(o, b, o2, b2, s)
  PROVE  Kept(q, o2, m, up, cl, b2) /\ MixedStill(q, o, up, q, o2, up)
<1>1. Entries(o, m, up, b) /\ Agreed(q, o, m, up) /\ Found(q, o, m, up, cl)
      /\ Changes(q, o) /\ Closes(q, o, m, up, cl)
      /\ \A t \in cl : o[t].state = "live" => Goes(q, o, up, b, t)
  BY DEF Kept, KeptBut
<1>2. \A u \in User : m[u] # s
  BY <1>1 DEF Entries, Dies
<1>3. Entries(o2, m, up, b2)
  BY <1>1, <1>2 DEF Entries, Dies
<1>4. ASSUME NEW t \in Sess
      PROVE  /\ Held(q, o, m, up, t) => Held(q, o2, m, up, t)
             /\ Mixed(q, o, up, t) => Mixed(q, o2, up, t)
             /\ o2[t].user = o[t].user
  <2>1. o2[t].user = o[t].user
    BY DEF Dies
  <2> QED
    BY <2>1 DEF Held, Mixed
<1>5. Agreed(q, o2, m, up)
  BY <1>1, <1>4 DEF Agreed
<1>6. Found(q, o2, m, up, cl)
  <2>1. \A t \in Sess : o2[t].state # "unborn" => o[t].state # "unborn"
    BY DEF Dies
  <2> QED
    BY <1>1, <1>4, <2>1 DEF Found
<1>7. Changes(q, o2)
  BY <1>1, <1>4 DEF Changes
<1>8. Closes(q, o2, m, up, cl)
  BY <1>1, <1>4 DEF Closes
<1>9. ASSUME NEW t \in cl, o2[t].state = "live"  PROVE Goes(q, o2, up, b2, t)
  <2>1. t # s /\ o[t].state = "live" /\ b2[t] = b[t]
    BY <1>9 DEF Dies
  <2> QED
    BY <1>1, <1>4, <2>1 DEF Goes
<1> QED
  BY <1>3, <1>4, <1>5, <1>6, <1>7, <1>8, <1>9 DEF Kept, KeptBut, MixedStill

-----------------------------------------------------------------------------
(* The directory: calls that are handled.                                  *)

(* What a session still tells is told by a call after the first, or not    *)
(* told by the first.                                                      *)
LEMMA TellingTail ==
  ASSUME NEW q \in Seq(MainCall), q # <<>>, NEW w, NEW c, NEW s, NEW u
  PROVE  /\ \A i \in 1 .. Len(q) : Telling(q, w, c, s, i + 1, u) => Telling(Tail(q), w, c, s, i, u)
         /\ Telling(q, w, c, s, 1, u) => Telling(Tail(q), w, c, s, 1, u) \/ ForUser(q[1], c, s, u)
<1>1. PICK t : t = Tail(q)
  OBVIOUS
<1>2. PICK n \in Nat \ {0} : n = Len(q)
  BY Headed
<1>3. Len(t) = n - 1 /\ \A i \in 1 .. n - 1 : t[i] = q[i + 1]
  BY <1>1, <1>2, Headed
<1>4. ASSUME NEW i \in 1 .. n, NEW j \in i + 1 .. n, ForUser(q[j], c, s, u)
      PROVE  Telling(t, w, c, s, i, u)
  <2>1. j - 1 \in i .. Len(t) /\ t[j - 1] = q[j]
    BY <1>2, <1>3
  <2> QED
    BY <1>4, <2>1 DEF Telling
<1>5. ASSUME NEW i \in 1 .. n, Telling(q, w, c, s, i + 1, u)  PROVE Telling(t, w, c, s, i, u)
  BY <1>2, <1>4, <1>5 DEF Telling
<1>6. ASSUME Telling(q, w, c, s, 1, u), ~ForUser(q[1], c, s, u)  PROVE Telling(t, w, c, s, 1, u)
  <2>1. CASE \E j \in 1 .. n : ForUser(q[j], c, s, u)
    <3>1. PICK j \in 1 .. n : ForUser(q[j], c, s, u)
      BY <2>1
    <3>2. 1 \in 1 .. n /\ j \in 1 + 1 .. n
      BY <1>2, <1>6, <3>1
    <3> QED
      BY <1>4, <3>1, <3>2
  <2>2. CASE \E j \in 1 .. Len(w[s]) : ForUser(w[s][j], c, s, u)
    BY <2>2 DEF Telling
  <2> QED
    BY <1>2, <1>6, <2>1, <2>2 DEF Telling
<1> QED
  BY <1>1, <1>2, <1>5, <1>6

LEMMA AnnouncedTail ==
  ASSUME NEW q \in Seq(MainCall), q # <<>>, NEW w, Announced(q, w)
  PROVE  Announced(Tail(q), w)
<1>1. PICK t : t = Tail(q)
  OBVIOUS
<1>2. PICK n \in Nat \ {0} : n = Len(q)
  BY Headed
<1>3. Len(t) = n - 1 /\ \A i \in 1 .. n - 1 : t[i] = q[i + 1]
  BY <1>1, <1>2, Headed
<1>4. \A c, s, u : \A i \in 1 .. n : Telling(q, w, c, s, i + 1, u) => Telling(t, w, c, s, i, u)
  BY <1>1, <1>2, TellingTail
<1> SUFFICES ASSUME NEW i \in 1 .. Len(t), NEW s \in Sess
             PROVE  /\ Call(t[i], "closed", s) => Telling(t, w, "removed", s, i + 1, t[i].user)
                    /\ Call(t[i], "changed", s) =>
                        /\ Telling(t, w, "removed", s, i + 1, t[i].user)
                        /\ Telling(t, w, "added", s, i + 1, t[i].new)
  BY <1>1 DEF Announced
<1>5. i + 1 \in 1 .. n /\ t[i] = q[i + 1]
  BY <1>2, <1>3
<1>6. /\ Call(q[i + 1], "closed", s) => Telling(q, w, "removed", s, (i + 1) + 1, q[i + 1].user)
      /\ Call(q[i + 1], "changed", s) =>
          /\ Telling(q, w, "removed", s, (i + 1) + 1, q[i + 1].user)
          /\ Telling(q, w, "added", s, (i + 1) + 1, q[i + 1].new)
  BY <1>2, <1>5 DEF Announced
<1> QED
  BY <1>4, <1>5, <1>6

\* After the first call s is found as v, if it becomes v by that call; and who was
\* found before still is, unless the call closes it or makes it another.
Finds(n, m, up, m2, up2) ==
    /\ up \subseteq up2
    /\ \A s \in Sess, v \in User :
        /\ Call(n, "changed", s) /\ n.new = v => v \in up2 \/ m2[v] = s
        /\ m[v] = s => \/ v \in up2 \/ m2[v] = s
                       \/ Call(n, "closed", s) \/ Call(n, "changed", s)

LEMMA PutsTail ==
  ASSUME NEW q \in Seq(MainCall), q # <<>>, NEW m, NEW up, NEW m2, NEW up2,
         Finds(q[1], m, up, m2, up2), NEW s \in Sess, NEW u \in User,
         NEW i \in 1 .. Len(q), Puts(q, m, up, s, i + 1, u)
  PROVE  Puts(Tail(q), m2, up2, s, i, u)
<1>1. PICK t : t = Tail(q)
  OBVIOUS
<1>2. PICK n \in Nat \ {0} : n = Len(q)
  BY Headed
<1>3. Len(t) = n - 1 /\ \A j \in 1 .. n - 1 : t[j] = q[j + 1]
  BY <1>1, <1>2, Headed
<1>4. ASSUME NEW j \in 1 .. i, Becomes(q, s, j + 1, i, u)  PROVE Becomes(t, s, j, i - 1, u)
  <2>1. PICK k \in j + 1 .. i : Call(q[k], "changed", s) /\ q[k].new = u
    BY <1>4 DEF Becomes
  <2>2. k - 1 \in j .. i - 1 /\ t[k - 1] = q[k]
    BY <1>2, <1>3
  <2> QED
    BY <2>1, <2>2 DEF Becomes
<1>5. /\ Becomes(q, s, 1, i, u) \/ u \in up \/ m[u] = s
      /\ \A j \in 1 .. i :
          Call(q[j], "changed", s) \/ Call(q[j], "closed", s) => Becomes(q, s, j, i, u)
  <2>1. (i + 1) - 1 = i
    BY <1>2
  <2> QED
    BY <2>1 DEF Puts
<1>6. Becomes(q, s, 1, i, u) => Becomes(t, s, 1, i - 1, u) \/ u \in up2 \/ m2[u] = s
  <2> SUFFICES ASSUME NEW k \in 1 .. i, Call(q[k], "changed", s), q[k].new = u
               PROVE  Becomes(t, s, 1, i - 1, u) \/ u \in up2 \/ m2[u] = s
    BY DEF Becomes
  <2>1. CASE k = 1
    BY <2>1 DEF Finds
  <2>2. CASE k # 1
    <3>1. 1 \in 1 .. i /\ k \in 1 + 1 .. i
      BY <1>2, <2>2
    <3>2. Becomes(q, s, 1 + 1, i, u)
      BY <3>1 DEF Becomes
    <3> QED
      BY <1>4, <3>1, <3>2
  <2> QED
    BY <2>1, <2>2
<1>7. Becomes(t, s, 1, i - 1, u) \/ u \in up2 \/ m2[u] = s
  <2>1. CASE Becomes(q, s, 1, i, u)
    BY <1>6, <2>1
  <2>2. CASE u \in up
    BY <2>2 DEF Finds
  <2>3. CASE m[u] = s
    <3>1. \/ u \in up2 \/ m2[u] = s
          \/ Call(q[1], "closed", s) \/ Call(q[1], "changed", s)
      BY <2>3 DEF Finds
    <3>2. 1 \in 1 .. i
      BY <1>2
    <3> QED
      BY <1>5, <1>6, <3>1, <3>2
  <2> QED
    BY <1>5, <2>1, <2>2, <2>3
<1>8. ASSUME NEW j \in 1 .. i - 1, Call(t[j], "changed", s) \/ Call(t[j], "closed", s)
      PROVE  Becomes(t, s, j, i - 1, u)
  <2>1. j \in 1 .. i /\ j + 1 \in 1 .. i /\ t[j] = q[j + 1]
    BY <1>2, <1>3
  <2>2. Becomes(q, s, j + 1, i, u)
    BY <1>5, <1>8, <2>1
  <2> QED
    BY <1>4, <2>1, <2>2
<1>9. Puts(t, m2, up2, s, i, u)
  BY <1>7, <1>8 DEF Puts
<1> QED
  BY <1>1, <1>9

LEMMA AddedTail ==
  ASSUME NEW q \in Seq(MainCall), q # <<>>, NEW w \in [Sess -> Seq(MainCall)],
         NEW m, NEW up, Added(q, w, m, up), NEW m2, NEW up2, Finds(q[1], m, up, m2, up2)
  PROVE  Added(Tail(q), w, m2, up2)
<1>1. PICK t : t = Tail(q)
  OBVIOUS
<1>2. PICK n \in Nat \ {0} : n = Len(q)
  BY Headed
<1>3. Len(t) = n - 1 /\ \A i \in 1 .. n - 1 : t[i] = q[i + 1]
  BY <1>1, <1>2, Headed
<1>4. \A s \in Sess, u \in User : \A i \in 1 .. n :
        Puts(q, m, up, s, i + 1, u) => Puts(t, m2, up2, s, i, u)
  BY <1>1, <1>2, PutsTail
<1>5. \A x \in MainCall, s \in Sess : Call(x, "added", s) => x.user \in User
  BY CallFields DEF Call
<1>6. ASSUME NEW s \in Sess, NEW i \in 1 .. Len(t), Call(t[i], "added", s)
      PROVE  Puts(t, m2, up2, s, i, t[i].user)
  <2>1. i + 1 \in 1 .. n /\ t[i] = q[i + 1] /\ i \in 1 .. n
    BY <1>2, <1>3
  <2>2. q[i + 1] \in MainCall
    BY <1>2, <2>1, ElementOfSeq
  <2>3. q[i + 1].user \in User
    BY <1>5, <1>6, <2>1, <2>2
  <2>4. Puts(q, m, up, s, i + 1, q[i + 1].user)
    BY <1>2, <1>6, <2>1 DEF Added
  <2> QED
    BY <1>4, <2>1, <2>3, <2>4
<1>7. ASSUME NEW s \in Sess, NEW i \in 1 .. Len(w[s]), Call(w[s][i], "added", s)
      PROVE  Puts(t, m2, up2, s, Len(t) + 1, w[s][i].user)
  <2>1. w[s][i] \in MainCall
    BY ElementOfSeq
  <2>2. w[s][i].user \in User
    BY <1>5, <1>7, <2>1
  <2>3. Puts(q, m, up, s, n + 1, w[s][i].user)
    BY <1>2, <1>7 DEF Added
  <2>4. n \in 1 .. n /\ Len(t) + 1 = n
    BY <1>2, <1>3
  <2> QED
    BY <1>4, <2>2, <2>3, <2>4
<1> QED
  BY <1>1, <1>6, <1>7 DEF Added

\* The lines of reconnect calls are not shorter.
Stays(b, b2) == \A s \in Sess : Has(b[s], "reconnect") => Has(b2[s], "reconnect")

(* A call that asks for no session is handled.                             *)
LEMMA ToldTail ==
  ASSUME NEW q \in Seq(MainCall), q # <<>>, q[1].call \in {"unset", "token"},
         NEW w \in [Sess -> Seq(MainCall)], NEW m, NEW up, NEW dir, NEW b, Told(q, w, m, up,
         dir, b)
  PROVE  Told(Tail(q), w, m, up, dir, b)
<1>1. Announced(q, w) /\ Owing(w) /\ Added(q, w, m, up)
      /\ Here(q, w, m, up, dir) /\ Away(q, w, m, up, dir, b)
  BY DEF Told
<1>2. PICK t : t = Tail(q)
  OBVIOUS
<1>3. \A c \in {"changed", "closed", "removed", "added"} : \A s : ~Call(q[1], c, s)
  BY DEF Call
<1>4. Finds(q[1], m, up, m, up)
  BY <1>3 DEF Finds
<1>5. Added(t, w, m, up)
  BY <1>1, <1>2, <1>4, AddedTail
<1>6. Announced(t, w)
  BY <1>1, <1>2, AnnouncedTail
<1>7. \A c \in {"removed", "added"} : \A s, u :
        Telling(q, w, c, s, 1, u) => Telling(t, w, c, s, 1, u)
  BY <1>2, <1>3, TellingTail DEF ForUser
<1>8. Here(t, w, m, up, dir)
  BY <1>1, <1>7 DEF Here
<1>9. \A s : Closing(q, s) => Closing(t, s)
  BY <1>2, <1>3, ClosingTail
<1>10. Away(t, w, m, up, dir, b)
  BY <1>1, <1>7, <1>9 DEF Away
<1> QED
  BY <1>1, <1>2, <1>5, <1>6, <1>8, <1>10 DEF Told

\* Of the users not mixed up, the map has s for u at most.
Only(m, up, s, u) == \A v \in User \ up : m[v] = s => v = u

(* The entry of a session that has closed is removed.                      *)
LEMMA ToldClosed ==
  ASSUME NEW q \in Seq(MainCall), q # <<>>, NEW s \in Sess, Call(q[1], "closed", s),
         NEW w \in [Sess -> Seq(MainCall)], NEW m, NEW up, NEW dir, NEW b, Told(q, w, m, up,
         dir, b),
         NEW u \in User, u = q[1].user, u \in up \/ m[u] = s,
         Only(m, up, s, u), NEW m2, NEW b2, Removed(m, b, m2, b2, u), Stays(b, b2)
  PROVE  Told(Tail(q), w, m2, up, dir, b2)
<1>1. Announced(q, w) /\ Owing(w) /\ Added(q, w, m, up)
      /\ Here(q, w, m, up, dir) /\ Away(q, w, m, up, dir, b)
  BY DEF Told
<1>2. PICK t : t = Tail(q)
  OBVIOUS
<1>3. /\ \A c \in {"changed", "removed", "added"} : \A x : ~Call(q[1], c, x)
      /\ \A x : x # s => ~Call(q[1], "closed", x)
  BY DEF Call
<1>4. m2[u] = None /\ None \notin Sess /\ \A v \in User \ {u} : m2[v] = m[v]
  BY DEF Removed, Sess, None
<1>5. Finds(q[1], m, up, m2, up)
  BY <1>3, <1>4 DEF Finds
<1>6. Added(t, w, m2, up)
  BY <1>1, <1>2, <1>5, AddedTail
<1>7. Announced(t, w)
  BY <1>1, <1>2, AnnouncedTail
<1>8. \A c \in {"removed", "added"} : \A x, v :
        Telling(q, w, c, x, 1, v) => Telling(t, w, c, x, 1, v)
  BY <1>2, <1>3, TellingTail DEF ForUser
<1>9. Telling(t, w, "removed", s, 1, u)
  <2>1. Len(q) \in Nat \ {0}
    BY Headed
  <2>2. 1 \in 1 .. Len(q)
    BY <2>1
  <2>3. Telling(q, w, "removed", s, 1 + 1, u)
    BY <1>1, <2>2 DEF Announced
  <2> QED
    BY <1>2, <2>2, <2>3, TellingTail
<1>10. Here(t, w, m2, up, dir)
  BY <1>1, <1>4, <1>8, <1>9 DEF Here
<1>11. \A x : x # s /\ Closing(q, x) => Closing(t, x)
  BY <1>2, <1>3, ClosingTail
<1>12. Away(t, w, m2, up, dir, b2)
  BY <1>1, <1>4, <1>8, <1>11 DEF Away, Stays, Only
<1> QED
  BY <1>1, <1>2, <1>6, <1>7, <1>10, <1>12 DEF Told

(* The entry of a session that is another user goes to the new id.         *)
LEMMA ToldChanged ==
  ASSUME NEW q \in Seq(MainCall), q # <<>>, NEW s \in Sess, Call(q[1], "changed", s),
         NEW w \in [Sess -> Seq(MainCall)], NEW m, NEW up, NEW dir, NEW b, Told(q, w, m, up,
         dir, b),
         NEW m2, NEW up2, Moved(m, up, m2, up2, s, q[1].user, q[1].new)
  PROVE  Told(Tail(q), w, m2, up2, dir, b)
<1>1. Announced(q, w) /\ Owing(w) /\ Added(q, w, m, up)
      /\ Here(q, w, m, up, dir) /\ Away(q, w, m, up, dir, b)
  BY DEF Told
<1>2. PICK t : t = Tail(q)
  OBVIOUS
<1>3. q[1] \in MainCall /\ q[1].call = "changed"
  BY Headed DEF Call
<1>4. PICK u \in User : u = q[1].user
  BY <1>3, CallFields
<1>5. PICK v \in User : v = q[1].new
  BY <1>3, CallFields
<1>6. /\ \A c \in {"closed", "removed", "added"} : \A x : ~Call(q[1], c, x)
      /\ \A x : x # s => ~Call(q[1], "changed", x)
  BY DEF Call
<1>7. /\ m2[v] = IF m[u] = None THEN Null ELSE m[u]
      /\ u # v => m2[u] = None
      /\ \A x \in User \ {u, v} : m2[x] = m[x]
      /\ up \subseteq up2 /\ (m[u] # s \/ u \in up => u \in up2 /\ v \in up2)
      /\ (u # v /\ m[v] # None => v \in up2)
  BY <1>4, <1>5 DEF Moved
<1>8. None \notin Sess /\ Null \notin Sess
  BY DEF Sess, None, Null
<1>9. Finds(q[1], m, up, m2, up2)
  <2>1. ASSUME NEW x \in Sess, NEW y \in User, Call(q[1], "changed", x), q[1].new = y
        PROVE  y \in up2 \/ m2[y] = x
    BY <1>5, <1>6, <1>7, <1>8, <2>1
  <2>2. ASSUME NEW x \in Sess, NEW y \in User, m[y] = x
        PROVE  y \in up2 \/ m2[y] = x \/ Call(q[1], "changed", x)
    BY <1>7, <1>8, <2>2
  <2> QED
    BY <1>7, <2>1, <2>2 DEF Finds
<1>10. Added(t, w, m2, up2)
  BY <1>1, <1>2, <1>9, AddedTail
<1>11. Announced(t, w)
  BY <1>1, <1>2, AnnouncedTail
<1>12. \A c \in {"removed", "added"} : \A x, y :
        Telling(q, w, c, x, 1, y) => Telling(t, w, c, x, 1, y)
  BY <1>2, <1>6, TellingTail DEF ForUser
<1>13. Telling(t, w, "removed", s, 1, u) /\ Telling(t, w, "added", s, 1, v)
  <2>1. Len(q) \in Nat \ {0}
    BY Headed
  <2>2. 1 \in 1 .. Len(q)
    BY <2>1
  <2>3. Telling(q, w, "removed", s, 1 + 1, u) /\ Telling(q, w, "added", s, 1 + 1, v)
    BY <1>1, <1>4, <1>5, <2>2 DEF Announced
  <2> QED
    BY <1>2, <2>2, <2>3, TellingTail
<1>14. Here(t, w, m2, up2, dir)
  BY <1>1, <1>7, <1>8, <1>12, <1>13 DEF Here
<1>15. \A x : Closing(q, x) => Closing(t, x)
  BY <1>2, <1>6, ClosingTail
<1>16. Away(t, w, m2, up2, dir, b)
  BY <1>1, <1>7, <1>8, <1>12, <1>13, <1>15 DEF Away
<1> QED
  BY <1>1, <1>2, <1>10, <1>11, <1>14, <1>16 DEF Told

\* u is no longer listed here.
Unlisted(dir, dir2, u) == dir2[u] # "here" /\ \A v \in User \ {u} : dir2[v] = dir[v]

(* A user is taken off the directory.                                      *)
LEMMA ToldRemoved ==
  ASSUME NEW q \in Seq(MainCall), q # <<>>, NEW s \in Sess, Call(q[1], "removed", s),
         NEW w \in [Sess -> Seq(MainCall)], NEW m, NEW up, NEW dir, NEW b, Told(q, w, m, up,
         dir, b),
         NEW u \in User, u = q[1].user,
         NEW dir2, Unlisted(dir, dir2, u),
         NEW up2, up2 = up \cup (IF m[u] # None THEN {u} ELSE {})
  PROVE  Told(Tail(q), w, m, up2, dir2, b)
<1>1. Announced(q, w) /\ Owing(w) /\ Added(q, w, m, up)
      /\ Here(q, w, m, up, dir) /\ Away(q, w, m, up, dir, b)
  BY DEF Told
<1>2. PICK t : t = Tail(q)
  OBVIOUS
<1>3. \A c \in {"changed", "closed", "added"} : \A x : ~Call(q[1], c, x)
  BY DEF Call
<1>4. /\ up \subseteq up2 /\ (m[u] # None => u \in up2) /\ None \notin Sess
      /\ dir2[u] # "here" /\ \A v \in User \ {u} : dir2[v] = dir[v]
  BY DEF Sess, None, Unlisted
<1>5. Finds(q[1], m, up, m, up2)
  BY <1>3, <1>4 DEF Finds
<1>6. Added(t, w, m, up2)
  BY <1>1, <1>2, <1>5, AddedTail
<1>7. Announced(t, w)
  BY <1>1, <1>2, AnnouncedTail
<1>8. \A x, v : v # u /\ Telling(q, w, "removed", x, 1, v) => Telling(t, w, "removed", x, 1, v)
  BY <1>2, TellingTail DEF ForUser
<1>9. \A x, v : Telling(q, w, "added", x, 1, v) => Telling(t, w, "added", x, 1, v)
  BY <1>2, <1>3, TellingTail DEF ForUser
<1>10. Here(t, w, m, up2, dir2)
  BY <1>1, <1>4, <1>8 DEF Here
<1>11. \A x : Closing(q, x) => Closing(t, x)
  BY <1>2, <1>3, ClosingTail
<1>12. Away(t, w, m, up2, dir2, b)
  BY <1>1, <1>4, <1>9, <1>11 DEF Away
<1> QED
  BY <1>1, <1>2, <1>6, <1>7, <1>10, <1>12 DEF Told

(* A user is put on the directory: the map has a session for that user.    *)
LEMMA ToldAdded ==
  ASSUME NEW q \in Seq(MainCall), q # <<>>, NEW s \in Sess, Call(q[1], "added", s),
         NEW w \in [Sess -> Seq(MainCall)], NEW m, NEW up, NEW dir, NEW b, Told(q, w, m, up,
         dir, b),
         NEW u \in User, u = q[1].user,
         NEW dir2, dir2[u] = "here", \A v \in User \ {u} : dir2[v] = dir[v]
  PROVE  Told(Tail(q), w, m, up, dir2, b)
<1>1. Announced(q, w) /\ Owing(w) /\ Added(q, w, m, up)
      /\ Here(q, w, m, up, dir) /\ Away(q, w, m, up, dir, b)
  BY DEF Told
<1>2. PICK t : t = Tail(q)
  OBVIOUS
<1>3. \A c \in {"changed", "closed", "removed"} : \A x : ~Call(q[1], c, x)
  BY DEF Call
<1>4. Finds(q[1], m, up, m, up)
  BY <1>3 DEF Finds
<1>5. Added(t, w, m, up)
  BY <1>1, <1>2, <1>4, AddedTail
<1>6. Announced(t, w)
  BY <1>1, <1>2, AnnouncedTail
<1>7. \A x, v : Telling(q, w, "removed", x, 1, v) => Telling(t, w, "removed", x, 1, v)
  BY <1>2, <1>3, TellingTail DEF ForUser
<1>8. \A x, v : v # u /\ Telling(q, w, "added", x, 1, v) => Telling(t, w, "added", x, 1, v)
  BY <1>2, TellingTail DEF ForUser
<1>9. u \in up \/ m[u] = s
  <2>1. Len(q) \in Nat \ {0}
    BY Headed
  <2>2. Puts(q, m, up, s, 1, u)
    BY <1>1, <2>1 DEF Added
  <2>3. ~Becomes(q, s, 1, 1 - 1, u)
    BY DEF Becomes
  <2> QED
    BY <2>2, <2>3 DEF Puts
<1>10. Here(t, w, m, up, dir2)
  BY <1>1, <1>7, <1>9 DEF Here
<1>11. \A x : Closing(q, x) => Closing(t, x)
  BY <1>2, <1>3, ClosingTail
<1>12. Away(t, w, m, up, dir2, b)
  BY <1>1, <1>8, <1>11 DEF Away
<1> QED
  BY <1>1, <1>2, <1>5, <1>6, <1>10, <1>12 DEF Told

-----------------------------------------------------------------------------
(* The directory: calls that are made.                                     *)

(* What was told, or put on the directory, still is when a call is added.  *)
LEMMA TellingMore ==
  ASSUME NEW q \in Seq(MainCall), NEW n \in MainCall, NEW w, NEW c, NEW s,
         NEW i \in Nat \ {0}, NEW u,
         Telling(q, w, c, s, i, u)
  PROVE  Telling(Append(q, n), w, c, s, i, u)
<1>1. PICK r : r = Append(q, n)
  OBVIOUS
<1>2. PICK k \in Nat : k = Len(q)
  BY LenProperties
<1>3. Len(r) = k + 1 /\ \A j \in 1 .. k : r[j] = q[j]
  BY <1>1, <1>2, Appended
<1>4. CASE \E j \in i .. Len(q) : ForUser(q[j], c, s, u)
  <2>1. PICK j \in i .. k : ForUser(q[j], c, s, u)
    BY <1>2, <1>4
  <2>2. j \in i .. Len(r) /\ r[j] = q[j]
    BY <1>2, <1>3
  <2> QED
    BY <1>1, <2>1, <2>2 DEF Telling
<1> QED
  BY <1>1, <1>4 DEF Telling

LEMMA PutsMore ==
  ASSUME NEW q \in Seq(MainCall), NEW n \in MainCall, NEW m, NEW up, NEW up2, up \subseteq up2,
         NEW s, NEW u
  PROVE  /\ \A i \in 1 .. Len(q) + 1 : Puts(q, m, up, s, i, u) => Puts(Append(q, n), m, up2, s, i, u)
         /\ Plain(n) \/ n.session # s =>
                (Puts(q, m, up, s, Len(q) + 1, u) => Puts(Append(q, n), m, up2, s, Len(q) + 2, u))
<1>1. PICK r : r = Append(q, n)
  OBVIOUS
<1>2. PICK k \in Nat : k = Len(q)
  BY LenProperties
<1>3. Len(r) = k + 1 /\ r[k + 1] = n /\ \A j \in 1 .. k : r[j] = q[j]
  BY <1>1, <1>2, Appended
<1>4. ASSUME NEW i \in 0 .. k, NEW l \in i .. k + 1, NEW j \in 1 .. k + 1, Becomes(q, s, j, i, u)
      PROVE  Becomes(r, s, j, l, u)
  <2>1. PICK x \in j .. i : Call(q[x], "changed", s) /\ q[x].new = u
    BY <1>4 DEF Becomes
  <2>2. x \in j .. l /\ r[x] = q[x]
    BY <1>2, <1>3
  <2> QED
    BY <2>1, <2>2 DEF Becomes
<1>5. ASSUME NEW i \in 1 .. k + 1, Puts(q, m, up, s, i, u)  PROVE Puts(r, m, up2, s, i, u)
  <2>1. i - 1 \in 0 .. k /\ i - 1 \in i - 1 .. k + 1 /\ 1 \in 1 .. k + 1
    BY <1>2
  <2>2. Becomes(r, s, 1, i - 1, u) \/ u \in up2 \/ m[u] = s
    BY <1>4, <1>5, <2>1 DEF Puts
  <2>3. ASSUME NEW j \in 1 .. i - 1, Call(r[j], "changed", s) \/ Call(r[j], "closed", s)
        PROVE  Becomes(r, s, j, i - 1, u)
    <3>1. r[j] = q[j] /\ j \in 1 .. k + 1
      BY <1>2, <1>3
    <3> QED
      BY <1>4, <1>5, <2>1, <2>3, <3>1 DEF Puts
  <2> QED
    BY <2>2, <2>3 DEF Puts
<1>6. ASSUME Plain(n) \/ n.session # s, Puts(q, m, up, s, k + 1, u)
      PROVE  Puts(r, m, up2, s, k + 2, u)
  <2>1. k \in 0 .. k /\ k + 1 \in k .. k + 1 /\ 1 \in 1 .. k + 1 /\ (k + 1) - 1 = k
        /\ (k + 2) - 1 = k + 1
    BY <1>2
  <2>2. Becomes(r, s, 1, k + 1, u) \/ u \in up2 \/ m[u] = s
    BY <1>4, <1>6, <2>1 DEF Puts
  <2>3. ASSUME NEW j \in 1 .. k + 1, Call(r[j], "changed", s) \/ Call(r[j], "closed", s)
        PROVE  Becomes(r, s, j, k + 1, u)
    <3>1. j \in 1 .. k /\ r[j] = q[j]
      BY <1>2, <1>3, <1>6, <2>3 DEF Plain, Call
    <3>2. Becomes(q, s, j, k, u)
      BY <1>6, <2>1, <2>3, <3>1 DEF Puts
    <3> QED
      BY <1>4, <2>1, <3>1, <3>2
  <2> QED
    BY <2>1, <2>2, <2>3 DEF Puts
<1> QED
  BY <1>1, <1>2, <1>5, <1>6

\* What waits is told after it as before, when n is added and w becomes w2.
Tells(q, n, w, w2) ==
    \A s \in Sess : \A c, u : \A i \in 1 .. Len(q) + 1 :
        Telling(q, w, c, s, i, u) => Telling(Append(q, n), w2, c, s, i, u)

\* Who n puts on the directory, and what is owed after it, was owed before it.
Owed(n, w, w2) ==
    \A s \in Sess : /\ Call(n, "added", s) => \E j \in 1 .. Len(w[s]) : w[s][j] = n
                    /\ \A i \in 1 .. Len(w2[s]) : \E j \in 1 .. Len(w[s]) : w[s][j] = w2[s][i]

(* A call that neither closes nor changes a session is added: who it puts  *)
(* on the directory, and what is owed after it, was to be put there.       *)
LEMMA ToldGrow ==
  ASSUME NEW q \in Seq(MainCall), NEW n \in MainCall, Plain(n),
         NEW w \in [Sess -> Seq(MainCall)], NEW w2 \in [Sess -> Seq(MainCall)],
         NEW m, NEW up, NEW dir, NEW b, Told(q, w, m, up, dir, b),
         Tells(q, n, w, w2), Owing(w2), Owed(n, w, w2)
  PROVE  Told(Append(q, n), w2, m, up, dir, b)
<1>1. Announced(q, w) /\ Owing(w) /\ Added(q, w, m, up)
      /\ Here(q, w, m, up, dir) /\ Away(q, w, m, up, dir, b)
  BY DEF Told
<1>2. PICK r : r = Append(q, n)
  OBVIOUS
<1>3. PICK k \in Nat : k = Len(q)
  BY LenProperties
<1>4. Len(r) = k + 1 /\ r[k + 1] = n /\ \A j \in 1 .. k : r[j] = q[j]
  BY <1>2, <1>3, Appended
<1>5. \A s \in Sess : \A c, u : \A i \in 1 .. k + 1 :
        Telling(q, w, c, s, i, u) => Telling(r, w2, c, s, i, u)
  BY <1>2, <1>3 DEF Tells
<1>6. \A s, u : /\ \A i \in 1 .. k + 1 : Puts(q, m, up, s, i, u) => Puts(r, m, up, s, i, u)
                /\ Puts(q, m, up, s, k + 1, u) => Puts(r, m, up, s, k + 2, u)
  BY <1>2, <1>3, PutsMore
<1>7. Announced(r, w2)
  <2> SUFFICES ASSUME NEW i \in 1 .. Len(r), NEW s \in Sess
               PROVE  /\ Call(r[i], "closed", s) => Telling(r, w2, "removed", s, i + 1, r[i].user)
                      /\ Call(r[i], "changed", s) =>
                          /\ Telling(r, w2, "removed", s, i + 1, r[i].user)
                          /\ Telling(r, w2, "added", s, i + 1, r[i].new)
    BY DEF Announced
  <2>1. CASE i \in 1 .. k
    <3>1. r[i] = q[i] /\ i + 1 \in 1 .. k + 1
      BY <1>3, <1>4, <2>1
    <3>2. /\ Call(q[i], "closed", s) => Telling(q, w, "removed", s, i + 1, q[i].user)
          /\ Call(q[i], "changed", s) =>
              /\ Telling(q, w, "removed", s, i + 1, q[i].user)
              /\ Telling(q, w, "added", s, i + 1, q[i].new)
      BY <1>1, <1>3, <2>1 DEF Announced
    <3> QED
      BY <1>5, <3>1, <3>2
  <2>2. CASE i = k + 1
    BY <1>4, <2>2 DEF Plain, Call
  <2> QED
    BY <1>3, <1>4, <2>1, <2>2
<1>8. Added(r, w2, m, up)
  <2>1. ASSUME NEW s \in Sess, NEW j \in 1 .. Len(w[s]), Call(w[s][j], "added", s)
        PROVE  Puts(q, m, up, s, k + 1, w[s][j].user)
    BY <1>1, <1>3, <2>1 DEF Added
  <2>2. ASSUME NEW s \in Sess, NEW i \in 1 .. Len(r), Call(r[i], "added", s)
        PROVE  Puts(r, m, up, s, i, r[i].user)
    <3>1. CASE i \in 1 .. k
      <4>1. r[i] = q[i] /\ i \in 1 .. k + 1
        BY <1>3, <1>4, <3>1
      <4> QED
        BY <1>1, <1>3, <1>6, <2>2, <3>1, <4>1 DEF Added
    <3>2. CASE i = k + 1
      <4>1. r[i] = n /\ k + 1 \in 1 .. k + 1
        BY <1>3, <1>4, <3>2
      <4>2. PICK j \in 1 .. Len(w[s]) : w[s][j] = n
        BY <2>2, <3>2, <4>1 DEF Owed
      <4> QED
        BY <1>6, <2>1, <2>2, <3>2, <4>1, <4>2
    <3> QED
      BY <1>3, <1>4, <3>1, <3>2
  <2>3. ASSUME NEW s \in Sess, NEW i \in 1 .. Len(w2[s]), Call(w2[s][i], "added", s)
        PROVE  Puts(r, m, up, s, Len(r) + 1, w2[s][i].user)
    <3>1. PICK j \in 1 .. Len(w[s]) : w[s][j] = w2[s][i]
      BY DEF Owed
    <3>2. Len(r) + 1 = k + 2
      BY <1>3, <1>4
    <3> QED
      BY <1>6, <2>1, <2>3, <3>1, <3>2
  <2> QED
    BY <2>2, <2>3 DEF Added
<1>9. 1 \in 1 .. k + 1
  BY <1>3
<1>10. Here(r, w2, m, up, dir)
  BY <1>1, <1>5, <1>9 DEF Here
<1>11. \A s : Closing(q, s) => Closing(r, s)
  BY <1>3, <1>4 DEF Closing
<1>12. Away(r, w2, m, up, dir, b)
  BY <1>1, <1>5, <1>9, <1>11 DEF Away
<1> QED
  BY <1>2, <1>7, <1>8, <1>10, <1>12 DEF Told

(* A call that asks for no session is added.                               *)
LEMMA ToldMore ==
  ASSUME NEW q \in Seq(MainCall), NEW n \in MainCall, n.call \in {"unset", "token"},
         NEW w \in [Sess -> Seq(MainCall)],
         NEW m, NEW up, NEW dir, NEW b, Told(q, w, m, up, dir, b)
  PROVE  Told(Append(q, n), w, m, up, dir, b)
<1>1. Len(q) \in Nat
  BY LenProperties
<1>2. Tells(q, n, w, w)
  BY <1>1, TellingMore DEF Tells
<1>3. Owing(w)
  BY DEF Told
<1>4. Plain(n) /\ Owed(n, w, w)
  BY DEF Plain, Owed, Call
<1> QED
  BY <1>2, <1>3, <1>4, ToldGrow

\* s passes on the first call it owes.
Passes(w, w2, s) ==
    w[s] # <<>> /\ w2[s] = Tail(w[s]) /\ \A x \in Sess \ {s} : w2[x] = w[x]

LEMMA ToldPasses ==
  ASSUME NEW q \in Seq(MainCall), NEW w \in [Sess -> Seq(MainCall)],
         NEW w2 \in [Sess -> Seq(MainCall)], NEW s \in Sess, Passes(w, w2, s),
         NEW m, NEW up, NEW dir, NEW b, Told(q, w, m, up, dir, b)
  PROVE  /\ Head(w[s]) \in MainCall /\ Plain(Head(w[s]))
         /\ Head(w[s]).call \in {"removed", "added"} /\ Head(w[s]).session = s
         /\ Told(Append(q, Head(w[s])), w2, m, up, dir, b)
<1>1. PICK k \in Nat : k = Len(q)
  BY LenProperties
<1>2. PICK l \in Seq(MainCall) : l = w[s]
  OBVIOUS
<1>3. PICK y : y = Tail(l)
  OBVIOUS
<1>4. PICK n : n = Head(l)
  OBVIOUS
<1>5. PICK z \in Nat \ {0} : z = Len(l)
  BY <1>2, Headed DEF Passes
<1>6. n = l[1] /\ n \in MainCall /\ Len(y) = z - 1 /\ \A i \in 1 .. z - 1 : y[i] = l[i + 1]
  BY <1>2, <1>3, <1>4, <1>5, Headed DEF Passes
<1>7. w2[s] = y /\ \A x \in Sess \ {s} : w2[x] = w[x]
  BY <1>2, <1>3 DEF Passes
<1>8. Owing(w)
  BY DEF Told
<1>9. Call(n, "removed", s) \/ Call(n, "added", s)
  <2>1. 1 \in 1 .. Len(w[s])
    BY <1>2, <1>5
  <2> QED
    BY <1>2, <1>6, <1>8, <2>1 DEF Owing
<1>10. ASSUME NEW x \in Sess, NEW i \in 1 .. Len(w2[x])
       PROVE  \E j \in 1 .. Len(w[x]) : w[x][j] = w2[x][i]
  <2>1. CASE x = s
    <3>1. i + 1 \in 1 .. Len(w[s]) /\ w[s][i + 1] = w2[s][i]
      BY <1>2, <1>5, <1>6, <1>7, <2>1
    <3> QED
      BY <2>1, <3>1
  <2>2. CASE x # s
    BY <1>7, <2>2
  <2> QED
    BY <2>1, <2>2
<1>11. Owing(w2)
  BY <1>8, <1>10 DEF Owing
<1>12. ASSUME NEW c, NEW x \in Sess, NEW u, NEW i \in 1 .. k + 1, Telling(q, w, c, x, i, u)
       PROVE  Telling(Append(q, n), w2, c, x, i, u)
  <2>1. CASE \E j \in i .. Len(q) : ForUser(q[j], c, x, u)
    <3>1. Telling(q, w2, c, x, i, u)
      BY <2>1 DEF Telling
    <3> QED
      BY <1>1, <1>6, <3>1, TellingMore
  <2>2. CASE \E j \in 1 .. Len(w[x]) : ForUser(w[x][j], c, x, u)
    <3>1. PICK j \in 1 .. Len(w[x]) : ForUser(w[x][j], c, x, u)
      BY <2>2
    <3>2. CASE x # s
      BY <1>7, <3>1, <3>2 DEF Telling
    <3>3. CASE x = s /\ j # 1
      <4>1. j - 1 \in 1 .. Len(w2[s]) /\ w2[s][j - 1] = w[s][j]
        BY <1>2, <1>5, <1>6, <1>7, <3>1, <3>3
      <4> QED
        BY <3>1, <3>3, <4>1 DEF Telling
    <3>4. CASE x = s /\ j = 1
      <4>1. /\ Len(Append(q, n)) = k + 1 /\ Append(q, n)[k + 1] = n
        BY <1>1, <1>6, Appended
      <4>2. k + 1 \in i .. Len(Append(q, n)) /\ ForUser(Append(q, n)[k + 1], c, x, u)
        BY <1>1, <1>2, <1>6, <3>1, <3>4, <4>1
      <4> QED
        BY <4>2 DEF Telling
    <3> QED
      BY <3>2, <3>3, <3>4
  <2> QED
    BY <1>12, <2>1, <2>2 DEF Telling
<1>13. Tells(q, n, w, w2)
  BY <1>1, <1>12 DEF Tells
<1>14. Plain(n)
  BY <1>9 DEF Plain, Call
<1>15. ASSUME NEW x \in Sess, Call(n, "added", x)  PROVE \E j \in 1 .. Len(w[x]) : w[x][j] = n
  <2>1. x = s /\ 1 \in 1 .. Len(w[s]) /\ w[s][1] = n
    BY <1>2, <1>5, <1>6, <1>9, <1>15 DEF Call
  <2> QED
    BY <2>1
<1>16. n \in MainCall /\ Owed(n, w, w2)
  BY <1>6, <1>10, <1>15 DEF Owed
<1>17. Told(Append(q, n), w2, m, up, dir, b)
  BY <1>11, <1>13, <1>14, <1>16, ToldGrow
<1> QED
  BY <1>2, <1>4, <1>6, <1>9, <1>14, <1>17 DEF Call

\* s, which owes nothing, closes or changes by n, and owes the rest of what it tells.
Says(n, w, w2, s) ==
    /\ w[s] = <<>> /\ \A x \in Sess \ {s} : w2[x] = w[x]
    /\ \/ /\ Call(n, "closed", s)
          /\ w2[s] = <<[call |-> "removed", session |-> s, user |-> n.user]>>
       \/ /\ Call(n, "changed", s)
          /\ w2[s] = <<[call |-> "removed", session |-> s, user |-> n.user],
                       [call |-> "added", session |-> s, user |-> n.new]>>

\* The calls to reconnect that wait for s may only be gone if n closes it.
StaysBut(n, b, b2) ==
    \A s \in Sess : Has(b[s], "reconnect") => Has(b2[s], "reconnect") \/ Call(n, "closed", s)

(* Session::close and userChanged in the thread of an instance.            *)
LEMMA ToldSays ==
  ASSUME NEW q \in Seq(MainCall), NEW n \in MainCall, NEW s \in Sess,
         NEW w \in [Sess -> Seq(MainCall)], NEW w2, Says(n, w, w2, s),
         NEW m, NEW up, NEW dir, NEW b, Told(q, w, m, up, dir, b),
         NEW up2, up \subseteq up2, NEW b2, StaysBut(n, b, b2)
  PROVE  Told(Append(q, n), w2, m, up2, dir, b2)
<1>1. Announced(q, w) /\ Owing(w) /\ Added(q, w, m, up)
      /\ Here(q, w, m, up, dir) /\ Away(q, w, m, up, dir, b)
  BY DEF Told
<1>2. PICK r : r = Append(q, n)
  OBVIOUS
<1>3. PICK k \in Nat : k = Len(q)
  BY LenProperties
<1>4. Len(r) = k + 1 /\ r[k + 1] = n /\ \A j \in 1 .. k : r[j] = q[j]
  BY <1>2, <1>3, Appended
<1>5. PICK y \in Seq(MainCall) : y = <<>> /\ w[s] = y
  BY DEF Says
<1>6. n.session = s /\ n.call \in {"closed", "changed"}
      /\ \A x : x # s => ~Call(n, "closed", x) /\ ~Call(n, "changed", x)
  BY DEF Says, Call
<1>7. \A x \in Sess \ {s} : w2[x] = w[x]
  BY DEF Says
<1>8. /\ Len(w2[s]) \in {1, 2} /\ ForUser(w2[s][1], "removed", s, n.user)
      /\ Len(w2[s]) = 2 =>
            /\ Call(n, "changed", s) /\ ForUser(w2[s][2], "added", s, n.new)
      /\ Call(n, "changed", s) => Len(w2[s]) = 2
  <2>1. CASE /\ Call(n, "closed", s)
             /\ w2[s] = <<[call |-> "removed", session |-> s, user |-> n.user]>>
    BY <2>1 DEF ForUser, Call
  <2>2. CASE /\ Call(n, "changed", s)
             /\ w2[s] = <<[call |-> "removed", session |-> s, user |-> n.user],
                          [call |-> "added", session |-> s, user |-> n.new]>>
    <3>1. Len(w2[s]) = 2
      BY <2>2
    <3>2. ForUser(w2[s][1], "removed", s, n.user) /\ ForUser(w2[s][2], "added", s, n.new)
      BY <2>2 DEF ForUser, Call
    <3> QED
      BY <2>2, <3>1, <3>2
  <2> QED
    BY <2>1, <2>2 DEF Says
<1>9. ASSUME NEW c, NEW x \in Sess, NEW u, NEW i \in 1 .. k + 1, Telling(q, w, c, x, i, u)
      PROVE  Telling(r, w2, c, x, i, u)
  <2>1. CASE \E j \in i .. Len(q) : ForUser(q[j], c, x, u)
    <3>1. Telling(q, w2, c, x, i, u)
      BY <2>1 DEF Telling
    <3> QED
      BY <1>2, <1>3, <3>1, TellingMore
  <2>2. CASE \E j \in 1 .. Len(w[x]) : ForUser(w[x][j], c, x, u)
    BY <1>5, <1>7, <2>2 DEF Telling
  <2> QED
    BY <1>9, <2>1, <2>2 DEF Telling
<1>10. \A x, u : /\ \A i \in 1 .. k + 1 : Puts(q, m, up, x, i, u) => Puts(r, m, up2, x, i, u)
                 /\ x # s /\ Puts(q, m, up, x, k + 1, u) => Puts(r, m, up2, x, k + 2, u)
  BY <1>2, <1>3, <1>6, PutsMore
<1>11. Announced(r, w2)
  <2> SUFFICES ASSUME NEW i \in 1 .. Len(r), NEW x \in Sess
               PROVE  /\ Call(r[i], "closed", x) => Telling(r, w2, "removed", x, i + 1, r[i].user)
                      /\ Call(r[i], "changed", x) =>
                          /\ Telling(r, w2, "removed", x, i + 1, r[i].user)
                          /\ Telling(r, w2, "added", x, i + 1, r[i].new)
    BY DEF Announced
  <2>1. CASE i \in 1 .. k
    <3>1. r[i] = q[i] /\ i + 1 \in 1 .. k + 1
      BY <1>3, <1>4, <2>1
    <3>2. /\ Call(q[i], "closed", x) => Telling(q, w, "removed", x, i + 1, q[i].user)
          /\ Call(q[i], "changed", x) =>
              /\ Telling(q, w, "removed", x, i + 1, q[i].user)
              /\ Telling(q, w, "added", x, i + 1, q[i].new)
      BY <1>1, <1>3, <2>1 DEF Announced
    <3> QED
      BY <1>9, <3>1, <3>2
  <2>2. CASE i = k + 1
    <3>1. r[i] = n
      BY <1>4, <2>2
    <3>2. CASE x = s
      <4>1. Telling(r, w2, "removed", s, i + 1, n.user)
        BY <1>8 DEF Telling
      <4>2. Call(n, "changed", s) => Telling(r, w2, "added", s, i + 1, n.new)
        BY <1>8 DEF Telling
      <4> QED
        BY <3>1, <3>2, <4>1, <4>2
    <3> QED
      BY <1>6, <3>1, <3>2
  <2> QED
    BY <1>3, <1>4, <2>1, <2>2
<1>12. Owing(w2)
  <2> SUFFICES ASSUME NEW x \in Sess, NEW i \in 1 .. Len(w2[x])
               PROVE  Call(w2[x][i], "removed", x) \/ Call(w2[x][i], "added", x)
    BY DEF Owing
  <2>1. CASE x = s
    <3>1. i = 1 \/ (i = 2 /\ Len(w2[s]) = 2)
      <4>1. CASE Len(w2[s]) = 1
        BY <2>1, <4>1
      <4>2. CASE Len(w2[s]) = 2
        BY <2>1, <4>2
      <4> QED
        BY <1>8, <4>1, <4>2
    <3> QED
      BY <1>8, <2>1, <3>1 DEF ForUser
  <2>2. CASE x # s
    BY <1>1, <1>7, <2>2 DEF Owing
  <2> QED
    BY <2>1, <2>2
<1>13. Added(r, w2, m, up2)
  <2>1. ASSUME NEW x \in Sess, NEW i \in 1 .. Len(r), Call(r[i], "added", x)
        PROVE  Puts(r, m, up2, x, i, r[i].user)
    <3>1. i \in 1 .. k /\ r[i] = q[i] /\ i \in 1 .. k + 1
      BY <1>3, <1>4, <1>6, <2>1 DEF Call
    <3> QED
      BY <1>1, <1>3, <1>10, <2>1, <3>1 DEF Added
  <2>2. ASSUME NEW x \in Sess, NEW i \in 1 .. Len(w2[x]), Call(w2[x][i], "added", x)
        PROVE  Puts(r, m, up2, x, Len(r) + 1, w2[x][i].user)
    <3>1. Len(r) + 1 = k + 2 /\ (k + 2) - 1 = k + 1
      BY <1>3, <1>4
    <3>2. CASE x = s
      <4>1. i = 1 \/ (i = 2 /\ Len(w2[s]) = 2)
        <5>1. CASE Len(w2[s]) = 1
          BY <3>2, <5>1
        <5>2. CASE Len(w2[s]) = 2
          BY <3>2, <5>2
        <5> QED
          BY <1>8, <5>1, <5>2
      <4>2. Call(n, "changed", s) /\ w2[s][i].user = n.new
        BY <1>8, <2>2, <3>2, <4>1 DEF ForUser, Call
      <4>3. \A j \in 1 .. k + 1 : k + 1 \in j .. k + 1
        BY <1>3
      <4>4. \A j \in 1 .. k + 1 : Becomes(r, s, j, k + 1, n.new)
        BY <1>4, <4>2, <4>3 DEF Becomes
      <4>5. 1 \in 1 .. k + 1
        BY <1>3
      <4> QED
        BY <3>1, <3>2, <4>2, <4>4, <4>5 DEF Puts
    <3>3. CASE x # s
      BY <1>1, <1>3, <1>7, <1>10, <2>2, <3>1, <3>3 DEF Added
    <3> QED
      BY <3>2, <3>3
  <2> QED
    BY <2>1, <2>2 DEF Added
<1>14. 1 \in 1 .. k + 1
  BY <1>3
<1>15. Here(r, w2, m, up2, dir)
  BY <1>1, <1>9, <1>14 DEF Here
<1>16. \A x : Closing(q, x) \/ Call(n, "closed", x) => Closing(r, x)
  BY <1>3, <1>4 DEF Closing
<1>17. Away(r, w2, m, up2, dir, b2)
  <2> SUFFICES ASSUME NEW u \in User, u \notin up2, m[u] \in Sess, dir[u] # "here"
               PROVE  \/ Has(b2[m[u]], "reconnect") \/ Closing(r, m[u])
                      \/ Telling(r, w2, "added", m[u], 1, u)
    BY DEF Away
  <2>1. \/ Has(b[m[u]], "reconnect") \/ Closing(q, m[u])
        \/ Telling(q, w, "added", m[u], 1, u)
    BY <1>1 DEF Away
  <2> QED
    BY <1>9, <1>14, <1>16, <2>1 DEF StaysBut
<1> QED
  BY <1>2, <1>11, <1>12, <1>13, <1>15, <1>17 DEF Told

-----------------------------------------------------------------------------
(* The directory: steps that make no call.                                 *)

\* s has nothing to put on the directory.
Mute(q, w, s) ==
    /\ \A i \in 1 .. Len(q) : ~Call(q[i], "added", s)
    /\ \A i \in 1 .. Len(w[s]) : ~Call(w[s][i], "added", s)

\* Who is found still is, or has nothing to put on the directory.
StillFound(q, w, m, m2, up2) ==
    \A u \in User, s \in Sess : m[u] = s => u \in up2 \/ m2[u] = s \/ Mute(q, w, s)

\* What is listed and not found was so, and what is found and not listed was so or goes.
StillListed(m, dir, b, m2, dir2, b2, up2) ==
    \A u \in User \ up2 :
        /\ dir2[u] = "here" /\ m2[u] \notin Sess => dir[u] = "here" /\ m[u] \notin Sess
        /\ dir2[u] # "here" /\ m2[u] \in Sess =>
            \/ Has(b2[m2[u]], "reconnect")
            \/ /\ dir[u] # "here" /\ m[u] = m2[u]
               /\ Has(b[m[u]], "reconnect") => Has(b2[m2[u]], "reconnect")

LEMMA ToldStill ==
  ASSUME NEW q \in Seq(MainCall), NEW w \in [Sess -> Seq(MainCall)],
         NEW m, NEW up, NEW dir, NEW b, Told(q, w, m, up, dir, b),
         NEW m2, NEW up2, NEW dir2, NEW b2, up \subseteq up2,
         StillFound(q, w, m, m2, up2), StillListed(m, dir, b, m2, dir2, b2, up2)
  PROVE  Told(q, w, m2, up2, dir2, b2)
<1>1. Announced(q, w) /\ Owing(w) /\ Added(q, w, m, up)
      /\ Here(q, w, m, up, dir) /\ Away(q, w, m, up, dir, b)
  BY DEF Told
<1>2. ASSUME NEW s \in Sess, ~Mute(q, w, s), NEW i, NEW u \in User, Puts(q, m, up, s, i, u)
      PROVE  Puts(q, m2, up2, s, i, u)
  BY <1>2 DEF Puts, StillFound
<1>3. Added(q, w, m2, up2)
  <2>1. \A x \in MainCall, s \in Sess : Call(x, "added", s) => x.user \in User
    BY CallFields DEF Call
  <2>2. ASSUME NEW s \in Sess, NEW i \in 1 .. Len(q), Call(q[i], "added", s)
        PROVE  Puts(q, m2, up2, s, i, q[i].user)
    <3>1. q[i].user \in User
      BY <2>1, <2>2, ElementOfSeq
    <3> QED
      BY <1>1, <1>2, <2>2, <3>1 DEF Added, Mute
  <2>3. ASSUME NEW s \in Sess, NEW i \in 1 .. Len(w[s]), Call(w[s][i], "added", s)
        PROVE  Puts(q, m2, up2, s, Len(q) + 1, w[s][i].user)
    <3>1. w[s][i].user \in User
      BY <2>1, <2>3, ElementOfSeq
    <3> QED
      BY <1>1, <1>2, <2>3, <3>1 DEF Added, Mute
  <2> QED
    BY <2>2, <2>3 DEF Added
<1>4. Here(q, w, m2, up2, dir2)
  BY <1>1 DEF Here, StillListed
<1>5. Away(q, w, m2, up2, dir2, b2)
  BY <1>1 DEF Away, StillListed
<1> QED
  BY <1>1, <1>3, <1>4, <1>5 DEF Told

-----------------------------------------------------------------------------
(* Where connections wait.                                                 *)

Entry == MainCall \cup Ask \cup SessCall

\* The first entry of the line x is taken, or one is added at its end.
Popped(l, l2, x) ==
    l[x] # <<>> /\ l2[x] = Tail(l[x]) /\ \A y \in Queue \ {x} : l2[y] = l[y]
Pushed(l, l2, x, n) ==
    l2[x] = Append(l[x], n) /\ \A y \in Queue \ {x} : l2[y] = l[y]

(* A connection whose entry is taken waits no longer.                      *)
LEMMA PoppedSingle ==
  ASSUME NEW l \in [Queue -> Seq(Entry)], NEW x \in Queue, NEW l2, Popped(l, l2, x), Single(l)
  PROVE  /\ Single(l2)
         /\ Waiting(l2) \subseteq Waiting(l) /\ Turned(l2) \subseteq Turned(l)
         /\ \A c \in Conn :
              IF Pass(x, l[x][1], c) THEN c \in Waiting(l) /\ c \notin Waiting(l2) /\ c \notin Turned(l2)
              ELSE (c \in Waiting(l) => c \in Waiting(l2)) /\ (c \in Turned(l) => c \in Turned(l2))
<1>1. PICK q \in Seq(Entry) : q = l[x] /\ q # <<>>
  BY DEF Popped
<1>2. PICK t : t = Tail(q)
  OBVIOUS
<1>3. PICK z \in Nat \ {0} : z = Len(q)
  BY <1>1, Headed
<1>4. Len(t) = z - 1 /\ \A i \in 1 .. z - 1 : t[i] = q[i + 1]
  BY <1>1, <1>2, <1>3, Headed
<1>5. l2[x] = t /\ \A y \in Queue \ {x} : l2[y] = l[y]
  BY <1>1, <1>2 DEF Popped
<1>6. ASSUME NEW y \in Queue, NEW i \in Nat, NEW c, Waits(l2, y, i, c)
      PROVE  LET j == IF y = x THEN i + 1 ELSE i IN
             j \in Nat /\ Waits(l, y, j, c) /\ l[y][j] = l2[y][i] /\ (y = x => j # 1)
  BY <1>1, <1>3, <1>4, <1>5, <1>6 DEF Waits
<1>7. ASSUME NEW y \in Queue, NEW j \in Nat, NEW c, Waits(l, y, j, c), y = x => j # 1
      PROVE  LET i == IF y = x THEN j - 1 ELSE j IN
             i \in Nat /\ Waits(l2, y, i, c) /\ l[y][j] = l2[y][i]
  BY <1>1, <1>3, <1>4, <1>5, <1>7 DEF Waits
<1>8. Single(l2)
  <2> SUFFICES ASSUME NEW c \in Conn, NEW y \in Queue, NEW z2 \in Queue, NEW i \in Nat, NEW j \in Nat,
                      Waits(l2, y, i, c), Waits(l2, z2, j, c)
               PROVE  y = z2 /\ i = j
    BY DEF Single
  <2>1. PICK i1 \in Nat : i1 = (IF y = x THEN i + 1 ELSE i) /\ Waits(l, y, i1, c)
    BY <1>6
  <2>2. PICK j1 \in Nat : j1 = (IF z2 = x THEN j + 1 ELSE j) /\ Waits(l, z2, j1, c)
    BY <1>6
  <2>3. y = z2 /\ i1 = j1
    BY <2>1, <2>2 DEF Single
  <2> QED
    BY <2>1, <2>2, <2>3
<1>9. Waiting(l2) \subseteq Waiting(l)
  BY <1>6 DEF Waiting
<1>10. Turned(l2) \subseteq Turned(l)
  <2> SUFFICES ASSUME NEW c \in Turned(l2)  PROVE c \in Turned(l)
    OBVIOUS
  <2>1. PICK y \in Queue \ {-1}, i \in Nat : Waits(l2, y, i, c) /\ l2[y][i].call # "token"
    BY DEF Turned
  <2>2. PICK j \in Nat : Waits(l, y, j, c) /\ l[y][j] = l2[y][i]
    BY <1>6, <2>1
  <2> QED
    BY <2>1, <2>2 DEF Turned
<1>11. ASSUME NEW c \in Conn, Pass(x, q[1], c)
       PROVE  c \in Waiting(l) /\ c \notin Waiting(l2)
  <2>1. Waits(l, x, 1, c)
    BY <1>1, <1>3, <1>11 DEF Waits
  <2>2. ASSUME c \in Waiting(l2)  PROVE FALSE
    <3>1. PICK y \in Queue, i \in Nat : Waits(l2, y, i, c)
      BY <2>2 DEF Waiting
    <3>2. PICK j \in Nat : Waits(l, y, j, c) /\ (y = x => j # 1)
      BY <1>6, <3>1
    <3>3. y = x /\ j = 1
      BY <2>1, <3>2 DEF Single
    <3> QED
      BY <3>2, <3>3
  <2> QED
    BY <2>1, <2>2 DEF Waiting
<1>12. ASSUME NEW y \in Queue, NEW j \in Nat, NEW c \in Conn, Waits(l, y, j, c), ~Pass(x, q[1], c)
       PROVE  \E i \in Nat : Waits(l2, y, i, c) /\ l[y][j] = l2[y][i]
  <2>1. y = x => j # 1
    BY <1>1, <1>12 DEF Waits
  <2> QED
    BY <1>7, <1>12, <2>1
<1>13. ASSUME NEW c \in Conn, ~Pass(x, q[1], c)
       PROVE  (c \in Waiting(l) => c \in Waiting(l2)) /\ (c \in Turned(l) => c \in Turned(l2))
  <2>1. ASSUME c \in Waiting(l)  PROVE c \in Waiting(l2)
    BY <1>12, <1>13, <2>1 DEF Waiting
  <2>2. ASSUME c \in Turned(l)  PROVE c \in Turned(l2)
    <3>1. PICK y \in Queue \ {-1}, j \in Nat : Waits(l, y, j, c) /\ l[y][j].call # "token"
      BY <2>2 DEF Turned
    <3>2. PICK i \in Nat : Waits(l2, y, i, c) /\ l[y][j] = l2[y][i]
      BY <1>12, <1>13, <3>1
    <3> QED
      BY <3>1, <3>2 DEF Turned
  <2> QED
    BY <2>1, <2>2
<1>14. Turned(l2) \subseteq Waiting(l2)
  BY DEF Turned, Waiting
<1> QED
  BY <1>1, <1>8, <1>9, <1>10, <1>11, <1>13, <1>14

\* The connection of the entry n for x does not wait.
Apart(l, x, n) == \A c \in Conn : Pass(x, n, c) => c \notin Waiting(l)

(* A connection whose entry is added waits by it.                          *)
LEMMA PushedSingle ==
  ASSUME NEW l \in [Queue -> Seq(Entry)], NEW x \in Queue, NEW n \in Entry,
         NEW l2, Pushed(l, l2, x, n), Single(l), Apart(l, x, n)
  PROVE  /\ Single(l2)
         /\ Waiting(l2) = Waiting(l) \cup {c \in Conn : Pass(x, n, c)}
         /\ Turned(l2) = Turned(l) \cup {c \in Conn : Pass(x, n, c) /\ x # -1 /\ n.call # "token"}
<1>1. PICK q \in Seq(Entry) : q = l[x]
  OBVIOUS
<1>2. PICK z \in Nat : z = Len(q)
  BY <1>1, LenProperties
<1>3. PICK r : r = Append(q, n)
  OBVIOUS
<1>4. Len(r) = z + 1 /\ r[z + 1] = n /\ \A i \in 1 .. z : r[i] = q[i]
  BY <1>1, <1>2, <1>3, Appended
<1>5. l2[x] = r /\ \A y \in Queue \ {x} : l2[y] = l[y]
  BY <1>1, <1>3 DEF Pushed
<1>6. ASSUME NEW y \in Queue, NEW i \in Nat, NEW c, Waits(l2, y, i, c)
      PROVE  \/ Waits(l, y, i, c) /\ l[y][i] = l2[y][i]
             \/ y = x /\ i = z + 1 /\ Pass(x, n, c) /\ l2[y][i] = n
  BY <1>1, <1>2, <1>4, <1>5, <1>6 DEF Waits
<1>7. ASSUME NEW y \in Queue, NEW i \in Nat, NEW c, Waits(l, y, i, c)
      PROVE  Waits(l2, y, i, c) /\ l[y][i] = l2[y][i]
  BY <1>1, <1>2, <1>4, <1>5, <1>7 DEF Waits
<1>8. ASSUME NEW c, Pass(x, n, c)
      PROVE  z + 1 \in Nat /\ Waits(l2, x, z + 1, c) /\ l2[x][z + 1] = n
  BY <1>2, <1>4, <1>5, <1>8 DEF Waits
<1>9. Single(l2)
  <2> SUFFICES ASSUME NEW c \in Conn, NEW y \in Queue, NEW y2 \in Queue, NEW i \in Nat, NEW j \in Nat,
                      Waits(l2, y, i, c), Waits(l2, y2, j, c)
               PROVE  y = y2 /\ i = j
    BY DEF Single
  <2>1. CASE Waits(l, y, i, c)
    <3>1. ~Pass(x, n, c)
      BY <2>1 DEF Waiting, Apart
    <3>2. Waits(l, y2, j, c)
      BY <1>6, <3>1
    <3> QED
      BY <2>1, <3>2 DEF Single
  <2>2. CASE ~Waits(l, y, i, c)
    <3>1. y = x /\ i = z + 1 /\ Pass(x, n, c)
      BY <1>6, <2>2
    <3>2. ~Waits(l, y2, j, c)
      BY <3>1 DEF Waiting, Apart
    <3> QED
      BY <1>6, <3>1, <3>2
  <2> QED
    BY <2>1, <2>2
<1>10. Waiting(l2) = Waiting(l) \cup {c \in Conn : Pass(x, n, c)}
  <2>1. ASSUME NEW c \in Waiting(l2), c \notin Waiting(l)  PROVE Pass(x, n, c)
    BY <1>6, <2>1 DEF Waiting
  <2>2. ASSUME NEW c \in Waiting(l)  PROVE c \in Waiting(l2)
    BY <1>7 DEF Waiting
  <2>3. ASSUME NEW c \in Conn, Pass(x, n, c)  PROVE c \in Waiting(l2)
    BY <1>8, <2>3 DEF Waiting
  <2>4. Waiting(l2) \subseteq Conn
    BY DEF Waiting
  <2> QED
    BY <2>1, <2>2, <2>3, <2>4
<1>11. Turned(l2) = Turned(l) \cup {c \in Conn : Pass(x, n, c) /\ x # -1 /\ n.call # "token"}
  <2>1. ASSUME NEW c \in Turned(l2), c \notin Turned(l)
        PROVE  Pass(x, n, c) /\ x # -1 /\ n.call # "token"
    <3>1. PICK y \in Queue \ {-1}, i \in Nat : Waits(l2, y, i, c) /\ l2[y][i].call # "token"
      BY DEF Turned
    <3>2. ~(Waits(l, y, i, c) /\ l[y][i] = l2[y][i])
      BY <2>1, <3>1 DEF Turned
    <3> QED
      BY <1>6, <3>1, <3>2
  <2>2. ASSUME NEW c \in Turned(l)  PROVE c \in Turned(l2)
    <3>1. PICK y \in Queue \ {-1}, i \in Nat : Waits(l, y, i, c) /\ l[y][i].call # "token"
      BY DEF Turned
    <3>2. Waits(l2, y, i, c) /\ l[y][i] = l2[y][i]
      BY <1>7, <3>1
    <3> QED
      BY <3>1, <3>2 DEF Turned
  <2>3. ASSUME NEW c \in Conn, Pass(x, n, c), x # -1, n.call # "token"  PROVE c \in Turned(l2)
    BY <1>8, <2>3 DEF Turned
  <2>4. Turned(l2) \subseteq Conn
    BY DEF Turned
  <2> QED
    BY <2>1, <2>2, <2>3, <2>4
<1> QED
  BY <1>9, <1>10, <1>11

\* A line is dropped.
Dropped(l, l2, x) == l2[x] = <<>> /\ \A y \in Queue \ {x} : l2[y] = l[y]

LEMMA DroppedSingle ==
  ASSUME NEW l, NEW x \in Queue, NEW l2, Dropped(l, l2, x), Single(l)
  PROVE  /\ Single(l2)
         /\ Waiting(l2) \subseteq Waiting(l) /\ Turned(l2) \subseteq Turned(l)
         /\ \A c \in Conn : c \in Waiting(l) /\ c \notin Waiting(l2) => \E i \in Nat : Waits(l, x, i, c)
<1>1. ASSUME NEW y \in Queue, NEW i \in Nat, NEW c, Waits(l2, y, i, c)
      PROVE  Waits(l, y, i, c) /\ l[y][i] = l2[y][i]
  <2>1. y # x
    <3>1. PICK t : t = l2[x]
      OBVIOUS
    <3>2. Len(t) = 0
      BY <3>1 DEF Dropped
    <3>3. 1 .. Len(t) = {}
      BY <3>2
    <3> QED
      BY <1>1, <3>1, <3>3 DEF Waits
  <2> QED
    BY <1>1, <2>1 DEF Waits, Dropped
<1>2. ASSUME NEW y \in Queue, NEW i \in Nat, NEW c, Waits(l, y, i, c), y # x
      PROVE  Waits(l2, y, i, c)
  BY <1>2 DEF Waits, Dropped
<1>3. Single(l2)
  BY <1>1 DEF Single
<1>4. Waiting(l2) \subseteq Waiting(l)
  BY <1>1 DEF Waiting
<1>5. Turned(l2) \subseteq Turned(l)
  <2> SUFFICES ASSUME NEW c \in Turned(l2)  PROVE c \in Turned(l)
    OBVIOUS
  <2>1. PICK y \in Queue \ {-1}, i \in Nat : Waits(l2, y, i, c) /\ l2[y][i].call # "token"
    BY DEF Turned
  <2>2. Waits(l, y, i, c) /\ l[y][i] = l2[y][i]
    BY <1>1, <2>1
  <2> QED
    BY <2>1, <2>2 DEF Turned
<1>6. ASSUME NEW c \in Conn, c \in Waiting(l), c \notin Waiting(l2)
      PROVE  \E i \in Nat : Waits(l, x, i, c)
  <2>1. PICK y \in Queue, i \in Nat : Waits(l, y, i, c)
    BY <1>6 DEF Waiting
  <2>2. y = x
    BY <1>2, <1>6, <2>1 DEF Waiting
  <2> QED
    BY <2>1, <2>2
<1> QED
  BY <1>3, <1>4, <1>5, <1>6

\* The same connections wait.
Calm(l, l2) == Single(l2) /\ Waiting(l2) = Waiting(l) /\ Turned(l2) = Turned(l)

(* An entry is taken, or added, by which nobody waits.                     *)
LEMMA CalmPop ==
  ASSUME NEW l \in [Queue -> Seq(Entry)], NEW x \in Queue, NEW l2, Popped(l, l2, x), Single(l),
         \A c \in Conn : ~Pass(x, l[x][1], c)
  PROVE  Calm(l, l2)
<1>1. /\ Single(l2) /\ Waiting(l2) \subseteq Waiting(l) /\ Turned(l2) \subseteq Turned(l)
      /\ \A c \in Conn : (c \in Waiting(l) => c \in Waiting(l2)) /\ (c \in Turned(l) => c \in Turned(l2))
  BY PoppedSingle
<1>2. Waiting(l) \subseteq Conn /\ Turned(l) \subseteq Conn
  BY DEF Waiting, Turned
<1> QED
  BY <1>1, <1>2 DEF Calm

LEMMA CalmPush ==
  ASSUME NEW l \in [Queue -> Seq(Entry)], NEW x \in Queue, NEW n \in Entry, NEW l2,
         Pushed(l, l2, x, n), Single(l), \A c \in Conn : ~Pass(x, n, c)
  PROVE  Calm(l, l2)
<1>1. /\ {c \in Conn : Pass(x, n, c)} = {}
      /\ {c \in Conn : Pass(x, n, c) /\ x # -1 /\ n.call # "token"} = {}
  OBVIOUS
<1>2. Apart(l, x, n)
  BY DEF Apart
<1>3. /\ Single(l2) /\ Waiting(l2) = Waiting(l) \cup {c \in Conn : Pass(x, n, c)}
      /\ Turned(l2) = Turned(l) \cup {c \in Conn : Pass(x, n, c) /\ x # -1 /\ n.call # "token"}
  BY <1>2, PushedSingle
<1> QED
  BY <1>1, <1>3 DEF Calm

(* The lines of the managers, of the repository and of the sessions.       *)
LEMMA LinesAre ==
  ASSUME NEW q \in Seq(MainCall), NEW a \in Seq(Ask), NEW b \in [Sess -> Seq(SessCall)]
  PROVE  /\ Lines(q, a, b) \in [Queue -> Seq(Entry)]
         /\ Lines(q, a, b)[0] = q /\ Lines(q, a, b)[-1] = a
         /\ \A s \in Sess : Lines(q, a, b)[s] = b[s]
         /\ 0 \in Queue /\ -1 \in Queue /\ Sess \subseteq Queue
         /\ \A s \in Sess : s # 0 /\ s # -1
<1>1. \A s \in Sess : s # 0 /\ s # -1
  BY DEF Sess
<1>2. Seq(MainCall) \subseteq Seq(Entry) /\ Seq(Ask) \subseteq Seq(Entry)
      /\ Seq(SessCall) \subseteq Seq(Entry)
  BY DEF Entry
<1>3. ASSUME NEW x \in Queue
      PROVE  (IF x = 0 THEN q ELSE IF x = -1 THEN a ELSE b[x]) \in Seq(Entry)
  <2>1. CASE x \in Sess
    <3>1. b[x] \in Seq(SessCall)
      BY <2>1
    <3> QED
      BY <1>1, <1>2, <2>1, <3>1
  <2>2. CASE x \notin Sess
    BY <1>2, <2>2 DEF Queue
  <2> QED
    BY <2>1, <2>2
<1>4. 0 \in Queue /\ -1 \in Queue /\ Sess \subseteq Queue
  BY DEF Queue
<1>5. Lines(q, a, b) \in [Queue -> Seq(Entry)]
  BY <1>3 DEF Lines
<1>6. Lines(q, a, b)[0] = q /\ Lines(q, a, b)[-1] = a
  BY <1>4 DEF Lines
<1>7. \A s \in Sess : Lines(q, a, b)[s] = b[s]
  BY <1>1, <1>4 DEF Lines
<1> QED
  BY <1>1, <1>4, <1>5, <1>6, <1>7

(* How the lines change with each of them.                                 *)
LEMMA LinesPop ==
  ASSUME NEW q \in Seq(MainCall), NEW a \in Seq(Ask), NEW b \in [Sess -> Seq(SessCall)]
  PROVE  /\ q # <<>> => Popped(Lines(q, a, b), Lines(Tail(q), a, b), 0)
         /\ a # <<>> => Popped(Lines(q, a, b), Lines(q, Tail(a), b), -1)
         /\ \A s \in Sess :
              /\ b[s] # <<>> => Popped(Lines(q, a, b), Lines(q, a, [b EXCEPT ![s] = Tail(b[s])]), s)
              /\ Dropped(Lines(q, a, b), Lines(q, a, [b EXCEPT ![s] = <<>>]), s)
<1>1. \A x \in Sess : x # 0 /\ x # -1
  BY DEF Sess
<1>2. 0 # -1
  OBVIOUS
<1> QED
  BY <1>1, <1>2 DEF Popped, Dropped, Lines, Queue

LEMMA LinesPush ==
  ASSUME NEW q \in Seq(MainCall), NEW a \in Seq(Ask), NEW b \in [Sess -> Seq(SessCall)],
         NEW n
  PROVE  /\ Pushed(Lines(q, a, b), Lines(Append(q, n), a, b), 0, n)
         /\ Pushed(Lines(q, a, b), Lines(q, Append(a, n), b), -1, n)
         /\ \A s \in Sess :
              Pushed(Lines(q, a, b), Lines(q, a, [b EXCEPT ![s] = Append(b[s], n)]), s, n)
<1>1. \A x \in Sess : x # 0 /\ x # -1
  BY DEF Sess
<1>2. 0 # -1
  OBVIOUS
<1> QED
  BY <1>1, <1>2 DEF Pushed, Lines, Queue

-----------------------------------------------------------------------------
(* How many sessions and rows there are.                                   *)

(* Connections are counted.                                                *)
LEMMA Counted ==
  ASSUME NEW t \in SUBSET Conn
  PROVE  /\ IsFiniteSet(t) /\ Cardinality(t) \in Nat
         /\ \A u \in SUBSET t : Cardinality(u) <= Cardinality(t)
         /\ \A c \in Conn : Cardinality(t \cup {c}) <= Cardinality(t) + 1
         /\ \A c \in t : \A u \in SUBSET (t \ {c}) : Cardinality(u) + 1 <= Cardinality(t)
<1>1. MaxEvents \in Nat
  BY BoundsAssumption
<1>2. IsFiniteSet(t)
  <2>1. 1 \in Int /\ MaxEvents \in Int
    BY <1>1
  <2>2. IsFiniteSet(Conn)
    BY <2>1, FS_Interval DEF Conn
  <2> QED
    BY <2>2, FS_Subset
<1>3. Cardinality(t) \in Nat
  BY <1>2, FS_CardinalityType
<1>4. \A u \in SUBSET t : Cardinality(u) <= Cardinality(t)
  BY <1>2, FS_Subset
<1>5. \A c \in Conn : Cardinality(t \cup {c}) <= Cardinality(t) + 1
  BY <1>2, <1>3, FS_AddElement
<1>6. ASSUME NEW c \in t, NEW u \in SUBSET (t \ {c})
      PROVE  Cardinality(u) + 1 <= Cardinality(t)
  <2>1. IsFiniteSet(t \ {c}) /\ Cardinality(t \ {c}) = Cardinality(t) - 1
    BY <1>2, FS_RemoveElement
  <2>2. IsFiniteSet(u) /\ Cardinality(u) <= Cardinality(t \ {c})
    BY <2>1, FS_Subset
  <2>3. Cardinality(u) \in Nat
    BY <2>2, FS_CardinalityType
  <2> QED
    BY <1>3, <2>1, <2>2, <2>3
<1> QED
  BY <1>2, <1>3, <1>4, <1>5, <1>6

\* The objects that are there are the same; f is the first that is not, and is then.
Born(o, o2) == \A s \in Sess : o2[s].state = "unborn" <=> o[s].state = "unborn"
First(o, f) == o[f].state = "unborn" /\ \A s \in 1 .. f - 1 : o[s].state # "unborn"
Bears(o, o2, f) ==
    /\ o2[f].state # "unborn"
    /\ \A s \in Sess \ {f} : o2[s].state = "unborn" <=> o[s].state = "unborn"

LEMMA SessionsStep ==
  ASSUME NEW o, NEW o2, Born(o, o2), NEW t \in SUBSET Conn, NEW t2 \in SUBSET Conn,
         NEW n \in Nat, NEW n2 \in Nat, Sessions(o, t, n),
         Cardinality(t2) + n <= Cardinality(t) + n2
  PROVE  Sessions(o2, t2, n2)
<1>1. PICK k \in Nat : /\ \A s \in Sess : o[s].state = "unborn" <=> s > k
                       /\ k + Cardinality(t) <= n
  BY DEF Sessions
<1>2. Cardinality(t) \in Nat /\ Cardinality(t2) \in Nat
  BY Counted
<1>3. k + Cardinality(t2) <= n2
  BY <1>1, <1>2
<1> QED
  BY <1>1, <1>3 DEF Sessions, Born

LEMMA SessionsBirth ==
  ASSUME NEW o, NEW t \in SUBSET Conn, NEW t2 \in SUBSET Conn,
         NEW n \in Nat, NEW n2 \in Nat, Sessions(o, t, n),
         Cardinality(t2) + 1 + n <= Cardinality(t) + n2, n2 <= MaxEvents
  PROVE  \E f \in Sess : First(o, f) /\ \A o2 : Bears(o, o2, f) => Sessions(o2, t2, n2)
<1>1. PICK k \in Nat : /\ \A s \in Sess : o[s].state = "unborn" <=> s > k
                       /\ k + Cardinality(t) <= n
  BY DEF Sessions
<1>2. Cardinality(t) \in Nat /\ Cardinality(t2) \in Nat /\ MaxEvents \in Nat
  BY Counted, BoundsAssumption
<1>3. k + 1 + Cardinality(t2) <= n2
  BY <1>1, <1>2
<1>4. PICK f \in Sess : f = k + 1
  BY <1>2, <1>3 DEF Sess
<1>5. First(o, f)
  BY <1>1, <1>2, <1>4 DEF First, Sess
<1>6. ASSUME NEW o2, Bears(o, o2, f)  PROVE Sessions(o2, t2, n2)
  <2>1. ASSUME NEW s \in Sess  PROVE o2[s].state = "unborn" <=> s > k + 1
    <3>1. s > k /\ s # f <=> s > k + 1
      BY <1>4 DEF Sess
    <3> QED
      BY <1>1, <1>4, <1>6, <3>1 DEF Bears
  <2> QED
    BY <1>3, <2>1 DEF Sessions
<1> QED
  BY <1>5, <1>6

(* The session created next is the first that is not there.                *)
LEMMA FreshIs ==
  ASSUME NEW f \in Sess, First(session, f)
  PROVE  Fresh = f
<1>1. ASSUME NEW s \in Sess, First(session, s)  PROVE s = f
  BY <1>1 DEF First, Sess
<1>2. Fresh = CHOOSE s \in Sess : First(session, s)
  BY DEF Fresh, First
<1> QED
  BY <1>1, <1>2

\* The rows that are there are the same; u is the first that is not, and is then.
Kin(r, r2) == \A u \in User : r2[u] = "none" <=> r[u] = "none"
NextRow(r, u) == r[u] = "none" /\ \A v \in 1 .. u - 1 : r[v] # "none"
Adds(r, r2, u) == r2[u] # "none" /\ \A v \in User \ {u} : r2[v] = "none" <=> r[v] = "none"

LEMMA RowsStep ==
  ASSUME NEW r, NEW r2, Kin(r, r2), NEW t \in SUBSET Conn, NEW t2 \in SUBSET Conn,
         NEW a \in Seq(Ask), NEW a2 \in Seq(Ask), NEW n \in Nat, NEW n2 \in Nat, Rows(r, t, a, n),
         Cardinality(t2) + Len(a2) + n <= Cardinality(t) + Len(a) + n2
  PROVE  Rows(r2, t2, a2, n2)
<1>1. PICK k \in Nat : /\ \A u \in User : r[u] = "none" <=> u > Guests + Accounts + k
                       /\ k + Cardinality(t) + Len(a) <= n
  BY DEF Rows
<1>2. Cardinality(t) \in Nat /\ Cardinality(t2) \in Nat /\ Len(a) \in Nat /\ Len(a2) \in Nat
  BY Counted, LenProperties
<1>3. k + Cardinality(t2) + Len(a2) <= n2
  BY <1>1, <1>2
<1> QED
  BY <1>1, <1>3 DEF Rows, Kin

LEMMA RowsBirth ==
  ASSUME NEW r, NEW t \in SUBSET Conn, NEW t2 \in SUBSET Conn,
         NEW a \in Seq(Ask), NEW a2 \in Seq(Ask), NEW n \in Nat, Rows(r, t, a, n),
         Cardinality(t2) + Len(a2) + 1 <= Cardinality(t) + Len(a), n <= MaxEvents
  PROVE  \E u \in User : NextRow(r, u) /\ \A r2 : Adds(r, r2, u) => Rows(r2, t2, a2, n)
<1>1. PICK k \in Nat : /\ \A u \in User : r[u] = "none" <=> u > Guests + Accounts + k
                       /\ k + Cardinality(t) + Len(a) <= n
  BY DEF Rows
<1>2. Cardinality(t) \in Nat /\ Cardinality(t2) \in Nat /\ Len(a) \in Nat /\ Len(a2) \in Nat
      /\ MaxEvents \in Nat /\ Guests \in Nat /\ Accounts \in Nat
  BY Counted, LenProperties, BoundsAssumption
<1>3. k + 1 + Cardinality(t2) + Len(a2) <= n
  BY <1>1, <1>2
<1>4. PICK u \in User : u = Guests + Accounts + k + 1
  BY <1>2, <1>3 DEF User
<1>5. NextRow(r, u)
  BY <1>1, <1>2, <1>4 DEF NextRow, User
<1>6. ASSUME NEW r2, Adds(r, r2, u)  PROVE Rows(r2, t2, a2, n)
  <2>1. ASSUME NEW v \in User  PROVE r2[v] = "none" <=> v > Guests + Accounts + (k + 1)
    <3>1. v > Guests + Accounts + k /\ v # u <=> v > Guests + Accounts + (k + 1)
      BY <1>2, <1>4 DEF User
    <3>2. r2[v] = "none" <=> r[v] = "none" /\ v # u
      BY <1>6 DEF Adds
    <3> QED
      BY <1>1, <3>1, <3>2
  <2>2. k + 1 \in Nat /\ (k + 1) + Cardinality(t2) + Len(a2) <= n
    BY <1>2, <1>3
  <2> QED
    BY <2>1, <2>2 DEF Rows
<1> QED
  BY <1>5, <1>6

(* The row of a new user is the first that is not there.                   *)
LEMMA NewUserIs ==
  ASSUME NEW u \in User, NextRow(record, u)
  PROVE  NewUser = u
<1>1. ASSUME NEW v \in User, NextRow(record, v)  PROVE v = u
  BY <1>1, BoundsAssumption DEF NextRow, User
<1>2. NewUser = CHOOSE v \in User : NextRow(record, v)
  BY DEF NewUser, NextRow
<1> QED
  BY <1>1, <1>2

-----------------------------------------------------------------------------
(* The invariant over the values of the variables, before a step and after *)
(* it; r is record, dir directory and n events.                            *)

Types(q, a, o, b, w, m, up, cl, bd, ph, lt, dir, r, n) ==
    /\ q \in Seq(MainCall) /\ a \in Seq(Ask) /\ o \in [Sess -> Object]
    /\ b \in [Sess -> Seq(SessCall)] /\ w \in [Sess -> Seq(MainCall)]
    /\ m \in [User -> Sess \cup {None, Null}]
    /\ up \in SUBSET User /\ cl \in SUBSET Sess /\ lt \in SUBSET Conn
    /\ bd \in [Conn -> Sess \cup {None}]
    /\ ph \in [Conn -> {"away", "open", "leaving", "bye", "closed"}]
    /\ dir \in [User -> {"none", "here", "elsewhere"}]
    /\ r \in [User -> {"none", "guest", "account", "deleted"}]
    /\ n \in 0 .. MaxEvents

Good(q, a, o, b, w, m, up, cl, bd, ph, lt, dir, r, n) ==
    /\ Types(q, a, o, b, w, m, up, cl, bd, ph, lt, dir, r, n)
    /\ Fits(o, b, w, cl) /\ Called(q, a, o, bd)
    /\ Queued(Lines(q, a, b), a, o, bd, ph, r, n)
    /\ Kept(q, o, m, up, cl, b) /\ Told(q, w, m, up, dir, b)
    /\ Tied(o, bd, ph, b) /\ Attended(q, o, up, cl, bd, ph, lt, Waiting(Lines(q, a, b)))

Now(q, a, o, b, w, m, up, cl, bd, ph, lt, dir, r, n) ==
    /\ main = q /\ asked = a /\ session = o /\ inbox = b /\ owes = w /\ sessions = m
    /\ upset = up /\ closed = cl /\ bound = bd /\ phase = ph /\ late = lt
    /\ directory = dir /\ record = r /\ events = n

Then(q, a, o, b, w, m, up, cl, bd, ph, lt, dir, r, n) ==
    /\ main' = q /\ asked' = a /\ session' = o /\ inbox' = b /\ owes' = w /\ sessions' = m
    /\ upset' = up /\ closed' = cl /\ bound' = bd /\ phase' = ph /\ late' = lt
    /\ directory' = dir /\ record' = r /\ events' = n

(* The values for which it holds.                                          *)
LEMMA InvIs ==
  ASSUME Inv
  PROVE  \E q, a, o, b, w, m, up, cl, bd, ph, lt, dir, r, n :
            /\ Now(q, a, o, b, w, m, up, cl, bd, ph, lt, dir, r, n)
            /\ Good(q, a, o, b, w, m, up, cl, bd, ph, lt, dir, r, n)
<1>1. Types(main, asked, session, inbox, owes, sessions, upset, closed, bound, phase, late,
            directory, record, events)
  BY DEF Inv, TypeOK, Types, Object
<1>2. Good(main, asked, session, inbox, owes, sessions, upset, closed, bound, phase, late,
           directory, record, events)
  BY <1>1 DEF Inv, Good
<1>3. Now(main, asked, session, inbox, owes, sessions, upset, closed, bound, phase, late,
          directory, record, events)
  BY DEF Now
<1> QED
  BY <1>2, <1>3

(* It holds again.                                                         *)
LEMMA InvAgain ==
  ASSUME NEW q, NEW a, NEW o, NEW b, NEW w, NEW m, NEW up, NEW cl, NEW bd, NEW ph, NEW lt,
         NEW dir, NEW r, NEW n,
         Then(q, a, o, b, w, m, up, cl, bd, ph, lt, dir, r, n),
         Good(q, a, o, b, w, m, up, cl, bd, ph, lt, dir, r, n),
         abroad' \subseteq User, crashed' \in BOOLEAN, crashed' => up # {}
  PROVE  Inv'
<1>1. /\ main' = q /\ asked' = a /\ session' = o /\ inbox' = b /\ owes' = w /\ sessions' = m
      /\ upset' = up /\ closed' = cl /\ bound' = bd /\ phase' = ph /\ late' = lt
      /\ directory' = dir /\ record' = r /\ events' = n
  BY DEF Then
<1>2. TypeOK'
  BY <1>1 DEF Good, Types, TypeOK, Object
<1>3. Survives'
  BY <1>1 DEF Survives
<1>4. /\ Fits(o, b, w, cl) /\ Called(q, a, o, bd)
      /\ Queued(Lines(q, a, b), a, o, bd, ph, r, n)
      /\ Kept(q, o, m, up, cl, b) /\ Told(q, w, m, up, dir, b)
      /\ Tied(o, bd, ph, b) /\ Attended(q, o, up, cl, bd, ph, lt, Waiting(Lines(q, a, b)))
  BY DEF Good
<1> QED
  BY <1>1, <1>2, <1>3, <1>4 DEF Inv

-----------------------------------------------------------------------------
(* Parts of the invariant and the steps that leave them alone.             *)

(* Calls to the managers, and requests, are taken or added.                *)
LEMMA CalledTail ==
  ASSUME NEW q \in Seq(MainCall), q # <<>>, NEW a, NEW o, NEW bd, Called(q, a, o, bd)
  PROVE  Called(Tail(q), a, o, bd)
<1>1. PICK t : t = Tail(q)
  OBVIOUS
<1>2. PICK z \in Nat \ {0} : z = Len(q)
  BY Headed
<1>3. Len(t) = z - 1 /\ \A i \in 1 .. z - 1 : t[i] = q[i + 1]
  BY <1>1, <1>2, Headed
<1>4. ASSUME NEW i \in 1 .. Len(t), NEW s \in Sess,
             t[i].call \in {"closed", "changed", "removed", "added"}, t[i].session = s
      PROVE  o[s].home = "scene"
  <2>1. i + 1 \in 1 .. Len(q) /\ t[i] = q[i + 1]
    BY <1>2, <1>3
  <2> QED
    BY <1>4, <2>1 DEF Called
<1>5. Called(t, a, o, bd)
  BY <1>4 DEF Called
<1> QED
  BY <1>1, <1>5

LEMMA CalledMore ==
  ASSUME NEW q \in Seq(MainCall), NEW n \in MainCall, NEW a, NEW o, NEW bd, Called(q, a, o, bd),
         n.call \in {"closed", "changed", "removed", "added"} => o[n.session].home = "scene"
  PROVE  Called(Append(q, n), a, o, bd)
<1>1. PICK t : t = Append(q, n)
  OBVIOUS
<1>2. PICK z \in Nat : z = Len(q)
  BY LenProperties
<1>3. Len(t) = z + 1 /\ t[z + 1] = n /\ \A i \in 1 .. z : t[i] = q[i]
  BY <1>1, <1>2, Appended
<1>4. ASSUME NEW i \in 1 .. Len(t), NEW s \in Sess,
             t[i].call \in {"closed", "changed", "removed", "added"}, t[i].session = s
      PROVE  o[s].home = "scene"
  <2>1. CASE i \in 1 .. z
    BY <1>2, <1>3, <1>4, <2>1 DEF Called
  <2>2. CASE i = z + 1
    BY <1>3, <1>4, <2>2
  <2> QED
    BY <1>2, <1>3, <2>1, <2>2
<1>5. Called(t, a, o, bd)
  BY <1>4 DEF Called
<1> QED
  BY <1>1, <1>5

LEMMA CalledAsk ==
  ASSUME NEW q, NEW a \in Seq(Ask), NEW o, NEW bd, Called(q, a, o, bd)
  PROVE  /\ a # <<>> => Called(q, Tail(a), o, bd)
         /\ \A n \in Ask : (n.ask = "log" => o[n.session].state # "unborn")
                             => Called(q, Append(a, n), o, bd)
<1>1. PICK z \in Nat : z = Len(a)
  BY LenProperties
<1>2. ASSUME a # <<>>  PROVE Called(q, Tail(a), o, bd)
  <2>1. PICK t : t = Tail(a)
    OBVIOUS
  <2>2. Len(t) = z - 1 /\ \A i \in 1 .. z - 1 : t[i] = a[i + 1]
    BY <1>1, <1>2, <2>1, Headed
  <2>3. ASSUME NEW i \in 1 .. Len(t), t[i].ask = "log"  PROVE o[t[i].session].state # "unborn"
    <3>1. i + 1 \in 1 .. Len(a) /\ t[i] = a[i + 1]
      BY <1>1, <2>2
    <3> QED
      BY <2>3, <3>1 DEF Called
  <2>4. Called(q, t, o, bd)
    BY <2>3 DEF Called
  <2> QED
    BY <2>1, <2>4
<1>3. ASSUME NEW n \in Ask, n.ask = "log" => o[n.session].state # "unborn"
      PROVE  Called(q, Append(a, n), o, bd)
  <2>1. PICK t : t = Append(a, n)
    OBVIOUS
  <2>2. Len(t) = z + 1 /\ t[z + 1] = n /\ \A i \in 1 .. z : t[i] = a[i]
    BY <1>1, <2>1, Appended
  <2>3. ASSUME NEW i \in 1 .. Len(t), t[i].ask = "log"  PROVE o[t[i].session].state # "unborn"
    <3>1. CASE i \in 1 .. z
      BY <1>1, <2>2, <2>3, <3>1 DEF Called
    <3>2. CASE i = z + 1
      BY <1>3, <2>2, <2>3, <3>2
    <3> QED
      BY <1>1, <2>2, <3>1, <3>2
  <2>4. Called(q, t, o, bd)
    BY <2>3 DEF Called
  <2> QED
    BY <2>1, <2>4
<1> QED
  BY <1>2, <1>3

\* Whoever is there, or in the thread of an instance, still is.
Older(o, o2) ==
    \A s \in Sess : /\ o[s].home = "scene" => o2[s].home = "scene"
                    /\ o[s].state # "unborn" => o2[s].state # "unborn"

LEMMA CalledStay ==
  ASSUME NEW q, NEW a \in Seq(Ask), NEW o, NEW bd \in [Conn -> Sess \cup {None}],
         Called(q, a, o, bd), NEW o2, Older(o, o2)
  PROVE  Called(q, a, o2, bd)
<1>1. \A i \in 1 .. Len(a) : a[i].ask = "log" => o2[a[i].session].state # "unborn"
  <2> SUFFICES ASSUME NEW i \in 1 .. Len(a), a[i].ask = "log"
               PROVE  o2[a[i].session].state # "unborn"
    OBVIOUS
  <2>1. a[i] \in Ask
    BY ElementOfSeq
  <2>2. a[i].session \in Sess
    BY <2>1 DEF Ask
  <2> QED
    BY <2>2 DEF Called, Older
<1>2. \A c \in Conn : bd[c] # None => o2[bd[c]].state # "unborn"
  BY DEF Called, Older
<1> QED
  BY <1>1, <1>2 DEF Called, Older

(* The inbox of a session: a call is taken, or added.                      *)
LEMMA FitsBox ==
  ASSUME NEW o, NEW b \in [Sess -> Seq(SessCall)], NEW w, NEW cl, Fits(o, b, w, cl),
         NEW s \in Sess
  PROVE  /\ b[s] # <<>> => Fits(o, [b EXCEPT ![s] = Tail(b[s])], w, cl)
         /\ \A n \in SessCall :
              o[s].state = "live" /\ (o[s].home = "main" => n.call \in {"user", "delete"})
                => Fits(o, [b EXCEPT ![s] = Append(b[s], n)], w, cl)
<1>1. PICK l \in Seq(SessCall) : l = b[s]
  OBVIOUS
<1>2. Fit(o[s], l, w[s], s \in cl)
  BY <1>1 DEF Fits
<1>3. ASSUME NEW l2, Fit(o[s], l2, w[s], s \in cl)  PROVE Fits(o, [b EXCEPT ![s] = l2], w, cl)
  BY <1>3 DEF Fits
<1>4. PICK z \in Nat : z = Len(l)
  BY LenProperties
<1>5. ASSUME l # <<>>  PROVE Fit(o[s], Tail(l), w[s], s \in cl)
  <2>1. PICK t : t = Tail(l)
    OBVIOUS
  <2>2. Len(t) = z - 1 /\ \A i \in 1 .. z - 1 : t[i] = l[i + 1]
    BY <1>4, <1>5, <2>1, Headed
  <2>3. o[s].home = "main" => \A i \in 1 .. Len(t) : t[i].call \in {"user", "delete"}
    BY <1>2, <1>4, <2>2 DEF Fit
  <2> QED
    BY <1>2, <1>5, <2>1, <2>3 DEF Fit
<1>6. ASSUME NEW n \in SessCall, o[s].state = "live", o[s].home = "main" => n.call \in {"user", "delete"}
      PROVE  Fit(o[s], Append(l, n), w[s], s \in cl)
  <2>1. PICK t : t = Append(l, n)
    OBVIOUS
  <2>2. Len(t) = z + 1 /\ t[z + 1] = n /\ \A i \in 1 .. z : t[i] = l[i]
    BY <1>4, <2>1, Appended
  <2>3. ASSUME o[s].home = "main", NEW i \in 1 .. Len(t)  PROVE t[i].call \in {"user", "delete"}
    <3>1. CASE i \in 1 .. z
      BY <1>2, <1>4, <2>2, <2>3, <3>1 DEF Fit
    <3>2. CASE i = z + 1
      BY <1>6, <2>2, <2>3, <3>2
    <3> QED
      BY <1>4, <2>2, <3>1, <3>2
  <2> QED
    BY <1>2, <1>6, <2>1, <2>3 DEF Fit
<1> QED
  BY <1>1, <1>3, <1>5, <1>6

(* The call by which a session is told of its lost connection waits still. *)
LEMMA TiedBox ==
  ASSUME NEW o, NEW bd, NEW ph, NEW b, Tied(o, bd, ph, b),
         NEW b2, \A s \in Sess : Has(b[s], "clear") => Has(b2[s], "clear")
  PROVE  Tied(o, bd, ph, b2)
BY DEF Tied

\* A connection comes to wait, or to have a session.
Met(o, cl, bd, t, c) ==
    \/ c \in t /\ bd[c] = None
    \/ bd[c] \in Sess \ cl /\ o[bd[c]].state = "live" /\ (o[bd[c]].conn = c \/ o[bd[c]].setting = c)

\* Connections that were attended to are, and so are others.
Attends(o, cl, bd, ph, lt, t, q2, o2, up2, cl2, bd2, ph2, lt2, t2) ==
    \A c \in Conn : c \notin lt2 /\ ph2[c] = "open" =>
        \/ Met(o2, cl2, bd2, t2, c)
        \/ /\ c \notin lt /\ ph[c] = "open" /\ bd2[c] = bd[c] /\ (c \in t => c \in t2)
           /\ \A s \in Sess :
               bd[c] = s /\ s \notin cl /\ o[s].state = "live" /\ (o[s].conn = c \/ o[s].setting = c) =>
                   \/ Mixed(q2, o2, up2, s)
                   \/ s \notin cl2 /\ o2[s].state = "live" /\ (o2[s].conn = c \/ o2[s].setting = c)

LEMMA AttendedStep ==
  ASSUME NEW q, NEW a, NEW o, NEW up, NEW cl, NEW bd, NEW ph, NEW lt, NEW t, NEW q2, NEW o2,
         NEW up2, NEW cl2,
         NEW bd2, NEW ph2, NEW lt2, NEW t2, Attended(q, o, up, cl, bd, ph, lt, t),
         Called(q, a, o, bd), MixedStill(q, o, up, q2, o2, up2),
         Attends(o, cl, bd, ph, lt, t, q2, o2, up2, cl2, bd2, ph2, lt2, t2)
  PROVE  Attended(q2, o2, up2, cl2, bd2, ph2, lt2, t2)
<1> SUFFICES ASSUME NEW c \in Conn, c \notin lt2, ph2[c] = "open"
             PROVE  /\ c \in t2 \/ bd2[c] # None
                    /\ \A s \in Sess : bd2[c] = s =>
                        \/ Mixed(q2, o2, up2, s)
                        \/ s \notin cl2 /\ o2[s].state = "live" /\ (o2[s].conn = c \/ o2[s].setting = c)
  BY DEF Attended
<1>4. CASE Met(o2, cl2, bd2, t2, c)
  <2>1. None \notin Sess
    BY DEF Sess, None
  <2> QED
    BY <1>4, <2>1 DEF Met
<1>5. SUFFICES ASSUME ~Met(o2, cl2, bd2, t2, c)
               PROVE  /\ c \in t2 \/ bd2[c] # None
                      /\ \A s \in Sess : bd2[c] = s =>
                          \/ Mixed(q2, o2, up2, s)
                          \/ s \notin cl2 /\ o2[s].state = "live" /\ (o2[s].conn = c \/ o2[s].setting = c)
  BY <1>4
<1>1. /\ c \notin lt /\ ph[c] = "open" /\ bd2[c] = bd[c] /\ (c \in t => c \in t2)
      /\ \A s \in Sess :
          bd[c] = s /\ s \notin cl /\ o[s].state = "live" /\ (o[s].conn = c \/ o[s].setting = c) =>
              \/ Mixed(q2, o2, up2, s)
              \/ s \notin cl2 /\ o2[s].state = "live" /\ (o2[s].conn = c \/ o2[s].setting = c)
  BY <1>5 DEF Attends
<1>2. /\ c \in t \/ bd[c] # None
      /\ \A s \in Sess : bd[c] = s =>
          \/ Mixed(q, o, up, s)
          \/ s \notin cl /\ o[s].state = "live" /\ (o[s].conn = c \/ o[s].setting = c)
  BY <1>1 DEF Attended
<1>3. ASSUME NEW s \in Sess, bd[c] = s, Mixed(q, o, up, s)  PROVE Mixed(q2, o2, up2, s)
  <2>1. s # None
    BY DEF Sess, None
  <2>2. o[s].state # "unborn"
    BY <1>3, <2>1 DEF Called
  <2> QED
    BY <1>3, <2>2 DEF MixedStill
<1> QED
  BY <1>1, <1>2, <1>3

\* Fewer connections wait, or may be sent to the database.
Fewer(l, l2) == Single(l2) /\ Waiting(l2) \subseteq Waiting(l) /\ Turned(l2) \subseteq Turned(l)

LEMMA QueuedStep ==
  ASSUME NEW l, NEW l2, NEW a \in Seq(Ask), NEW a2 \in Seq(Ask), NEW o, NEW o2, NEW bd, NEW bd2,
         NEW ph, NEW ph2, NEW r, NEW r2, NEW n \in Nat, NEW n2 \in Nat,
         Queued(l, a, o, bd, ph, r, n), Fewer(l, l2), Len(a2) + n <= Len(a) + n2, n <= n2,
         Born(o, o2), Kin(r, r2), Unbound(Waiting(l2), o2, bd2, ph2)
  PROVE  Queued(l2, a2, o2, bd2, ph2, r2, n2)
<1>1. Waiting(l) \subseteq Conn /\ Turned(l) \subseteq Conn
      /\ Waiting(l2) \subseteq Conn /\ Turned(l2) \subseteq Conn
  BY DEF Waiting, Turned
<1>2. /\ Single(l) /\ Unbound(Waiting(l), o, bd, ph)
      /\ Sessions(o, Waiting(l), n) /\ Rows(r, Turned(l), a, n)
  BY DEF Queued
<1>3. /\ Cardinality(Waiting(l)) \in Nat /\ Cardinality(Waiting(l2)) \in Nat
      /\ Cardinality(Waiting(l2)) <= Cardinality(Waiting(l))
      /\ Cardinality(Turned(l)) \in Nat /\ Cardinality(Turned(l2)) \in Nat
      /\ Cardinality(Turned(l2)) <= Cardinality(Turned(l))
      /\ Len(a) \in Nat /\ Len(a2) \in Nat
  BY <1>1, Counted, LenProperties DEF Fewer
<1>4. Sessions(o2, Waiting(l2), n2)
  <2>1. Cardinality(Waiting(l2)) + n <= Cardinality(Waiting(l)) + n2
    BY <1>3
  <2> QED
    BY <1>1, <1>2, <2>1, SessionsStep
<1>5. Rows(r2, Turned(l2), a2, n2)
  <2>1. Cardinality(Turned(l2)) + Len(a2) + n <= Cardinality(Turned(l)) + Len(a) + n2
    BY <1>3
  <2> QED
    BY <1>1, <1>2, <2>1, RowsStep
<1> QED
  BY <1>4, <1>5 DEF Queued, Fewer

\* No other connection waits, nobody is bound anew, and nobody comes.
SameBound(o, bd, ph, o2, bd2, ph2) ==
    \A c \in Conn :
        /\ bd2[c] = None \/ bd2[c] = bd[c]
        /\ \A s \in Sess : o2[s].setting = c => o[s].setting = c
        /\ ph2[c] = "away" <=> ph[c] = "away"

LEMMA UnboundStep ==
  ASSUME NEW t, NEW t2 \in SUBSET t, NEW o, NEW bd, NEW ph, NEW o2, NEW bd2, NEW ph2,
         Unbound(t, o, bd, ph), SameBound(o, bd, ph, o2, bd2, ph2)
  PROVE  Unbound(t2, o2, bd2, ph2)
BY DEF Unbound, SameBound

(* No connection waits anew, and none less.                                *)
LEMMA QueuedCalm ==
  ASSUME NEW l, NEW l2, NEW a \in Seq(Ask), NEW a2 \in Seq(Ask), NEW o, NEW o2, NEW bd, NEW bd2,
         NEW ph, NEW ph2, NEW r, NEW r2, NEW n \in Nat, NEW n2 \in Nat,
         Queued(l, a, o, bd, ph, r, n), Calm(l, l2), Len(a2) + n <= Len(a) + n2, n <= n2,
         Born(o, o2), Kin(r, r2), SameBound(o, bd, ph, o2, bd2, ph2)
  PROVE  Queued(l2, a2, o2, bd2, ph2, r2, n2)
<1>1. Fewer(l, l2)
  BY DEF Fewer, Calm
<1>2. Unbound(Waiting(l2), o2, bd2, ph2)
  BY UnboundStep DEF Queued, Calm
<1> QED
  BY <1>1, <1>2, QueuedStep

(* Calls by which no connection waits are taken, or added.                 *)
LEMMA CalmCalls ==
  ASSUME NEW q \in Seq(MainCall), NEW a \in Seq(Ask), NEW b \in [Sess -> Seq(SessCall)],
         Single(Lines(q, a, b))
  PROVE  /\ q # <<>> /\ q[1].call \notin {"unset", "token"} =>
              Calm(Lines(q, a, b), Lines(Tail(q), a, b))
         /\ \A n \in MainCall : n.call \notin {"unset", "token"} =>
              Calm(Lines(q, a, b), Lines(Append(q, n), a, b))
<1>1. /\ Lines(q, a, b) \in [Queue -> Seq(Entry)] /\ Lines(q, a, b)[0] = q /\ 0 \in Queue
  BY LinesAre
<1>2. ASSUME q # <<>>, q[1].call \notin {"unset", "token"}
      PROVE  Calm(Lines(q, a, b), Lines(Tail(q), a, b))
  <2>1. Popped(Lines(q, a, b), Lines(Tail(q), a, b), 0)
    BY <1>2, LinesPop
  <2>2. \A c \in Conn : ~Pass(0, Lines(q, a, b)[0][1], c)
    BY <1>1, <1>2 DEF Pass
  <2> QED
    BY <1>1, <2>1, <2>2, CalmPop
<1>3. ASSUME NEW n \in MainCall, n.call \notin {"unset", "token"}
      PROVE  Calm(Lines(q, a, b), Lines(Append(q, n), a, b))
  <2>1. Pushed(Lines(q, a, b), Lines(Append(q, n), a, b), 0, n)
    BY LinesPush
  <2>2. \A c \in Conn : ~Pass(0, n, c)
    BY <1>3 DEF Pass
  <2>3. n \in Entry
    BY DEF Entry
  <2> QED
    BY <1>1, <2>1, <2>2, <2>3, CalmPush
<1> QED
  BY <1>2, <1>3

LEMMA CalmBox ==
  ASSUME NEW q \in Seq(MainCall), NEW a \in Seq(Ask), NEW b \in [Sess -> Seq(SessCall)],
         Single(Lines(q, a, b)), NEW s \in Sess
  PROVE  /\ b[s] # <<>> /\ b[s][1].call # "set" =>
              Calm(Lines(q, a, b), Lines(q, a, [b EXCEPT ![s] = Tail(b[s])]))
         /\ \A n \in SessCall : n.call # "set" =>
              Calm(Lines(q, a, b), Lines(q, a, [b EXCEPT ![s] = Append(b[s], n)]))
<1>1. /\ Lines(q, a, b) \in [Queue -> Seq(Entry)] /\ Lines(q, a, b)[s] = b[s] /\ s \in Queue
      /\ s # 0 /\ s # -1
  BY LinesAre
<1>2. ASSUME b[s] # <<>>, b[s][1].call # "set"
      PROVE  Calm(Lines(q, a, b), Lines(q, a, [b EXCEPT ![s] = Tail(b[s])]))
  <2>1. Popped(Lines(q, a, b), Lines(q, a, [b EXCEPT ![s] = Tail(b[s])]), s)
    BY <1>2, LinesPop
  <2>2. \A c \in Conn : ~Pass(s, Lines(q, a, b)[s][1], c)
    BY <1>1, <1>2 DEF Pass
  <2> QED
    BY <1>1, <2>1, <2>2, CalmPop
<1>3. ASSUME NEW n \in SessCall, n.call # "set"
      PROVE  Calm(Lines(q, a, b), Lines(q, a, [b EXCEPT ![s] = Append(b[s], n)]))
  <2>1. Pushed(Lines(q, a, b), Lines(q, a, [b EXCEPT ![s] = Append(b[s], n)]), s, n)
    BY LinesPush
  <2>2. \A c \in Conn : ~Pass(s, n, c)
    BY <1>1, <1>3 DEF Pass
  <2>3. n \in Entry
    BY DEF Entry
  <2> QED
    BY <1>1, <2>1, <2>2, <2>3, CalmPush
<1> QED
  BY <1>2, <1>3

LEMMA CalmTwice ==
  ASSUME NEW l, NEW l1, NEW l2, Calm(l, l1), Calm(l1, l2)
  PROVE  Calm(l, l2)
BY DEF Calm

(* Nothing that a part speaks of changes.                                  *)
LEMMA Unmoved ==
  ASSUME NEW o, NEW bd, NEW ph, NEW r
  PROVE  Born(o, o) /\ Kin(r, r) /\ SameBound(o, bd, ph, o, bd, ph)
BY DEF Born, Kin, SameBound

LEMMA QueuedLike ==
  ASSUME NEW l, NEW l2, NEW a \in Seq(Ask), NEW o, NEW bd, NEW ph, NEW r, NEW n \in Nat,
         Queued(l, a, o, bd, ph, r, n), Calm(l, l2)
  PROVE  Queued(l2, a, o, bd, ph, r, n)
<1>1. Len(a) \in Nat /\ Born(o, o) /\ Kin(r, r) /\ SameBound(o, bd, ph, o, bd, ph)
  BY LenProperties, Unmoved
<1>2. Len(a) + n <= Len(a) + n /\ n <= n
  BY <1>1
<1> QED
  BY <1>1, <1>2, QueuedCalm

\* By a call c for s more waits than before.
Gains(b, b2, s, c) ==
    \A t \in Sess : \A d : Has(b2[t], d) <=> Has(b[t], d) \/ (t = s /\ d = c)

(* What waits for the sessions when one is called, or takes a call.        *)
LEMMA HasPush ==
  ASSUME NEW b \in [Sess -> Seq(SessCall)], NEW s \in Sess, NEW n \in SessCall,
         NEW b2, b2 = [b EXCEPT ![s] = Append(b[s], n)]
  PROVE  Gains(b, b2, s, n.call)
<1> SUFFICES ASSUME NEW t \in Sess, NEW c
             PROVE  Has(b2[t], c) <=> Has(b[t], c) \/ (t = s /\ c = n.call)
  BY DEF Gains
<1>1. CASE t = s
  <2>1. b2[t] = Append(b[s], n) /\ b[s] \in Seq(SessCall)
    BY <1>1
  <2>2. Has(Append(b[s], n), c) <=> Has(b[s], c) \/ n.call = c
    BY <2>1, HasMore
  <2> QED
    BY <1>1, <2>1, <2>2
<1>2. CASE t # s
  BY <1>2
<1> QED
  BY <1>1, <1>2

LEMMA HasPop ==
  ASSUME NEW b \in [Sess -> Seq(SessCall)], NEW s \in Sess, b[s] # <<>>,
         NEW b2, b2 = [b EXCEPT ![s] = Tail(b[s])]
  PROVE  Gains(b2, b, s, b[s][1].call)
<1> SUFFICES ASSUME NEW t \in Sess, NEW c
             PROVE  Has(b[t], c) <=> Has(b2[t], c) \/ (t = s /\ c = b[s][1].call)
  BY DEF Gains
<1>1. CASE t = s
  <2>1. b2[t] = Tail(b[s]) /\ b[s] \in Seq(SessCall)
    BY <1>1
  <2>2. Has(b[s], c) <=> Has(Tail(b[s]), c) \/ b[s][1].call = c
    BY <2>1, HasLess
  <2> QED
    BY <1>1, <2>1, <2>2
<1>2. CASE t # s
  BY <1>2
<1> QED
  BY <1>1, <1>2

(* A session that is created, its entry, and its place in the directory.   *)

\* The parts of the invariant that such a step may disturb.
Stands(q, a, o, b, w, m, up, cl, bd, dir) ==
    /\ q \in Seq(MainCall) /\ a \in Seq(Ask) /\ o \in [Sess -> Object]
    /\ b \in [Sess -> Seq(SessCall)] /\ w \in [Sess -> Seq(MainCall)]
    /\ m \in [User -> Sess \cup {None, Null}] /\ up \in SUBSET User
    /\ cl \in SUBSET Sess /\ bd \in [Conn -> Sess \cup {None}]
    /\ dir \in [User -> {"none", "here", "elsewhere"}]
    /\ Kept(q, o, m, up, cl, b) /\ Told(q, w, m, up, dir, b) /\ Fits(o, b, w, cl)
    /\ Called(q, a, o, bd)

Creates(o, m, up, dir, o2, m2, up2, dir2, f, u, c) ==
    /\ f \in Sess /\ u \in User /\ c \in Conn \cup {None} /\ o[f].state = "unborn"
    /\ o2 = [o EXCEPT ![f] =
            [Unborn EXCEPT !.state = "live", !.user = u, !.conn = c, !.timer = (c = None)]]
    /\ m2 = [m EXCEPT ![u] = f] /\ dir2 = [dir EXCEPT ![u] = "here"]
    /\ up2 = IF m[u] # None THEN up \cup {u} ELSE up

LEMMA Created ==
  ASSUME NEW q, NEW a, NEW o, NEW b, NEW w, NEW m, NEW up, NEW cl, NEW bd, NEW dir,
         NEW o2, NEW m2, NEW up2, NEW dir2, NEW f, NEW u, NEW c,
         Stands(q, a, o, b, w, m, up, cl, bd, dir),
         Creates(o, m, up, dir, o2, m2, up2, dir2, f, u, c)
  PROVE  /\ Stands(q, a, o2, b, w, m2, up2, cl, bd, dir2)
         /\ MixedStill(q, o, up, q, o2, up2) /\ f \notin cl /\ Bears(o, o2, f)
<1>0. /\ q \in Seq(MainCall) /\ a \in Seq(Ask) /\ o \in [Sess -> Object]
      /\ b \in [Sess -> Seq(SessCall)] /\ w \in [Sess -> Seq(MainCall)]
      /\ m \in [User -> Sess \cup {None, Null}] /\ up \in SUBSET User
      /\ cl \in SUBSET Sess /\ bd \in [Conn -> Sess \cup {None}]
      /\ dir \in [User -> {"none", "here", "elsewhere"}]
      /\ Kept(q, o, m, up, cl, b) /\ Told(q, w, m, up, dir, b) /\ Fits(o, b, w, cl)
      /\ Called(q, a, o, bd)
      /\ f \in Sess /\ u \in User /\ c \in Conn \cup {None} /\ o[f].state = "unborn"
  BY DEF Stands, Creates
<1>1. o[f] = Unborn /\ b[f] = <<>> /\ w[f] = <<>> /\ f \notin cl
  BY <1>0 DEF Fits, Fit
<1>2. /\ o2[f].state = "live" /\ o2[f].user = u /\ o2[f].conn = c /\ o2[f].setting = None
      /\ (o2[f].timer <=> c = None) /\ o2[f].home = "main" /\ o2[f] \in Object
      /\ o2 \in [Sess -> Object] /\ \A s \in Sess \ {f} : o2[s] = o[s]
  BY <1>0 DEF Creates, Object, Unborn
<1>3. /\ m2[u] = f /\ m2 \in [User -> Sess \cup {None, Null}] /\ up2 \in SUBSET User
      /\ \A v \in User \ {u} : m2[v] = m[v] /\ dir2[v] = dir[v]
      /\ dir2[u] = "here" /\ dir2 \in [User -> {"none", "here", "elsewhere"}]
      /\ up \subseteq up2 /\ (m[u] # None => u \in up2)
  BY <1>0 DEF Creates
<1>4. Kept(q, o2, m2, up2, cl, b) /\ MixedStill(q, o, up, q, o2, up2)
  <2>1. Starts(o, m, up, o2, m2, up2, f, u)
    BY <1>0, <1>2, <1>3 DEF Starts, Creates
  <2>2. o[f].home = "main"
    BY <1>0, <1>1 DEF Unborn
  <2>3. Silent(q, f)
    BY <1>0, <2>2 DEF Silent, Called, Call
  <2>4. ~Has(b[f], "delete")
    BY <1>0, <1>1, HasNone
  <2> QED
    BY <1>0, <1>1, <2>1, <2>3, <2>4, KeptStart
<1>5. Told(q, w, m2, up2, dir2, b)
  <2>1. None \notin Sess
    BY <1>0 DEF Sess, None
  <2>2. StillFound(q, w, m, m2, up2)
    BY <1>0, <1>3, <2>1 DEF StillFound
  <2>3. StillListed(m, dir, b, m2, dir2, b, up2)
    BY <1>0, <1>3 DEF StillListed
  <2> QED
    BY <1>0, <1>3, <2>2, <2>3, ToldStill
<1>6. Fits(o2, b, w, cl)
  <2> SUFFICES ASSUME NEW s \in Sess  PROVE Fit(o2[s], b[s], w[s], s \in cl)
    BY <1>0 DEF Fits
  <2>1. CASE s = f
    <3>1. DOMAIN <<>> = {} /\ 1 .. Len(b[f]) = {}
      BY <1>0, <1>1
    <3> QED
      BY <1>0, <1>1, <1>2, <2>1, <3>1 DEF Fit
  <2>2. CASE s # f
    BY <1>0, <1>2, <2>2 DEF Fits
  <2> QED
    BY <2>1, <2>2
<1>7. Called(q, a, o2, bd)
  <2>1. o[f].home = "main" /\ o2[f].state # "unborn"
    BY <1>0, <1>1, <1>2 DEF Unborn
  <2>2. Older(o, o2)
    BY <1>0, <1>2, <2>1 DEF Older
  <2> QED
    BY <1>0, <2>2, CalledStay
<1>8. Bears(o, o2, f)
  BY <1>0, <1>2 DEF Bears
<1> QED
  BY <1>0, <1>1, <1>2, <1>3, <1>4, <1>5, <1>6, <1>7, <1>8 DEF Stands

(* Sessions that close.                                                    *)

\* What waits for the sessions waits still.
Grows(b, b2) == \A t \in Sess : \A c : Has(b[t], c) => Has(b2[t], c)

\* The session s, in the main thread, closes: x is listed instead of u.
Shuts(o, b, m, up, cl, dir, b2, m2, up2, cl2, dir2, s, u, x) ==
    /\ s \in Sess /\ o[s].state = "live" /\ o[s].home = "main" /\ u = o[s].user
    /\ m2 = [m EXCEPT ![u] = None] /\ cl2 = cl \cup {s}
    /\ dir2 = [dir EXCEPT ![u] = x] /\ x \in {"none", "elsewhere"}
    /\ up2 = IF s \in cl THEN up \cup {u} ELSE up
    /\ b2 = IF m[u] \in Alive(o) THEN [b EXCEPT ![m[u]] = Append(b[m[u]], [call |-> "delete"])]
            ELSE b

LEMMA ShutInMain ==
  ASSUME NEW q, NEW a, NEW o, NEW b, NEW w, NEW m, NEW up, NEW cl, NEW bd, NEW dir,
         NEW b2, NEW m2, NEW up2, NEW cl2, NEW dir2, NEW s, NEW u, NEW x,
         Stands(q, a, o, b, w, m, up, cl, bd, dir),
         Shuts(o, b, m, up, cl, dir, b2, m2, up2, cl2, dir2, s, u, x)
  PROVE  /\ Stands(q, a, o, b2, w, m2, up2, cl2, bd, dir2)
         /\ MixedStill(q, o, up, q, o, up2) /\ Grows(b, b2)
         /\ m[u] \notin Alive(o) => up2 # {}
         /\ Single(Lines(q, a, b)) => Calm(Lines(q, a, b), Lines(q, a, b2))
<1>1. /\ q \in Seq(MainCall) /\ a \in Seq(Ask) /\ o \in [Sess -> Object]
      /\ b \in [Sess -> Seq(SessCall)] /\ w \in [Sess -> Seq(MainCall)]
      /\ m \in [User -> Sess \cup {None, Null}] /\ up \in SUBSET User
      /\ cl \in SUBSET Sess /\ bd \in [Conn -> Sess \cup {None}]
      /\ dir \in [User -> {"none", "here", "elsewhere"}]
      /\ Kept(q, o, m, up, cl, b) /\ Told(q, w, m, up, dir, b) /\ Fits(o, b, w, cl)
      /\ Called(q, a, o, bd)
  BY DEF Stands
<1>2. /\ s \in Sess /\ o[s].state = "live" /\ o[s].home = "main" /\ u = o[s].user
      /\ m2 = [m EXCEPT ![u] = None] /\ cl2 = cl \cup {s}
      /\ dir2 = [dir EXCEPT ![u] = x] /\ x \in {"none", "elsewhere"}
      /\ up2 = IF s \in cl THEN up \cup {u} ELSE up
  BY DEF Shuts
<1>3. PICK y : y = [call |-> "delete"]
  OBVIOUS
<1>4. b2 = IF m[u] \in Alive(o) THEN [b EXCEPT ![m[u]] = Append(b[m[u]], y)] ELSE b
  BY <1>3 DEF Shuts
<1>5. y \in SessCall /\ y.call = "delete"
  BY <1>3 DEF SessCall
<1>6. u \in User /\ w[s] = <<>>
  BY <1>1, <1>2 DEF Fits, Fit
<1>7. Silent(q, s) /\ Mute(q, w, s)
  <2>1. \A i \in 1 .. Len(q) : q[i].call \in {"closed", "changed", "removed", "added"}
                                 => q[i].session # s
    BY <1>1, <1>2 DEF Called
  <2>2. 1 .. Len(w[s]) = {}
    BY <1>6
  <2> QED
    BY <2>1, <2>2 DEF Silent, Mute, Call
<1>8. \A v : Was(q, o[s].user, s, 1, v) <=> v = u
  BY <1>2, <1>7, WasNone DEF Silent
<1>9. up \subseteq up2 /\ up2 \in SUBSET User
  BY <1>1, <1>2, <1>6
<1>10. /\ Kept(q, o, m, up2, cl, b) /\ MixedStill(q, o, up, q, o, up2)
  <2>1. Alike(o, b, o, b)
    BY DEF Alike
  <2> QED
    BY <1>1, <1>9, <2>1, KeptStay
<1>11. u \in up2 \/ m[u] = s
  BY <1>1, <1>2, <1>6, <1>8 DEF Kept, KeptBut, Found, Held
<1>12. Mixed(q, o, up2, s) \/ m[u] = s
  BY <1>8, <1>11 DEF Mixed
<1>13. m[u] \in Sess <=> m[u] \in Alive(o)
  BY <1>1, <1>6 DEF Kept, KeptBut, Entries, Alive
<1>14. \A z \in Sess : \A c : Has(b2[z], c) <=> Has(b[z], c) \/ (z = m[u] /\ c = "delete")
  <2>1. CASE m[u] \in Alive(o)
    <3>1. m[u] \in Sess
      BY <1>13, <2>1
    <3>2. Gains(b, b2, m[u], y.call)
      BY <1>1, <1>4, <1>5, <2>1, <3>1, HasPush
    <3> QED
      BY <1>5, <3>2 DEF Gains
  <2>2. CASE m[u] \notin Alive(o)
    BY <1>4, <1>13, <2>2
  <2> QED
    BY <2>1, <2>2
<1>15. b2 \in [Sess -> Seq(SessCall)]
  BY <1>1, <1>4, <1>5, <1>13, Appended
<1>16. Removed(m, b, m2, b2, u)
  BY <1>1, <1>2, <1>6, <1>14 DEF Removed
<1>17. Kept(q, o, m2, up2, cl2, b2)
  <2>1. KeptBut(q, o, m, up2, cl2, b, {s})
    BY <1>1, <1>2, <1>10, KeptShut
  <2>2. s \in cl2 /\ cl2 \in SUBSET Sess
    BY <1>1, <1>2
  <2>3. \A i \in 1 .. Len(q) : Call(q[i], "closed", s) => q[i].user \in up2
    BY <1>7 DEF Silent
  <2> QED
    BY <1>6, <1>11, <1>12, <1>16, <2>1, <2>2, <2>3, KeptRemoved
<1>18. Told(q, w, m2, up2, dir2, b2)
  <2>1. None \notin Sess /\ m2[u] = None /\ dir2[u] # "here"
        /\ \A v \in User \ {u} : m2[v] = m[v] /\ dir2[v] = dir[v]
    BY <1>1, <1>2, <1>6 DEF Sess, None
  <2>2. StillFound(q, w, m, m2, up2)
    BY <1>7, <1>11, <2>1 DEF StillFound
  <2>3. StillListed(m, dir, b, m2, dir2, b2, up2)
    BY <1>14, <2>1 DEF StillListed
  <2> QED
    BY <1>1, <1>9, <2>2, <2>3, ToldStill
<1>19. Fits(o, b2, w, cl2)
  <2>1. Fits(o, b2, w, cl)
    <3>1. CASE m[u] \in Alive(o)
      <4>1. m[u] \in Sess /\ o[m[u]].state = "live"
        BY <3>1 DEF Alive
      <4> QED
        BY <1>1, <1>4, <1>5, <3>1, <4>1, FitsBox
    <3> QED
      BY <1>1, <1>4, <3>1
  <2> QED
    BY <1>2, <2>1 DEF Fits, Fit
<1>20. m[u] \notin Alive(o) => up2 # {}
  BY <1>2, <1>11, <1>13
<1>21. Single(Lines(q, a, b)) => Calm(Lines(q, a, b), Lines(q, a, b2))
  <2>1. CASE m[u] \in Alive(o)
    BY <1>1, <1>4, <1>5, <1>13, <2>1, CalmBox
  <2>2. CASE m[u] \notin Alive(o)
    BY <1>4, <2>2 DEF Calm
  <2> QED
    BY <2>1, <2>2
<1>22. m2 \in [User -> Sess \cup {None, Null}] /\ cl2 \in SUBSET Sess
       /\ dir2 \in [User -> {"none", "here", "elsewhere"}]
  BY <1>1, <1>2
<1>23. Grows(b, b2)
  BY <1>14 DEF Grows
<1> QED
  BY <1>1, <1>9, <1>10, <1>15, <1>17, <1>18, <1>19, <1>20, <1>21, <1>22, <1>23 DEF Stands

\* The session s, in the thread of an instance, closes.
Leaves(o, q, b, w, up, cl, q2, b2, w2, up2, cl2, s, u) ==
    /\ s \in Sess /\ o[s].state = "live" /\ o[s].home = "scene" /\ u = o[s].user
    /\ w[s] = <<>>
    /\ q2 = Append(q, [call |-> "closed", session |-> s, user |-> u])
    /\ w2 = [w EXCEPT ![s] = <<[call |-> "removed", session |-> s, user |-> u]>>]
    /\ cl2 = cl \cup {s} /\ up2 = IF s \in cl THEN up \cup {u} ELSE up
    /\ \/ b2 = b
       \/ /\ b[s] # <<>> /\ b[s][1].call \in {"shutdown", "reconnect"}
          /\ b2 = [b EXCEPT ![s] = Tail(b[s])]

LEMMA ShutInScene ==
  ASSUME NEW q, NEW a, NEW o, NEW b, NEW w, NEW m, NEW up, NEW cl, NEW bd, NEW dir,
         NEW q2, NEW b2, NEW w2, NEW up2, NEW cl2, NEW s, NEW u,
         Stands(q, a, o, b, w, m, up, cl, bd, dir),
         Leaves(o, q, b, w, up, cl, q2, b2, w2, up2, cl2, s, u)
  PROVE  /\ Stands(q2, a, o, b2, w2, m, up2, cl2, bd, dir)
         /\ MixedStill(q, o, up, q2, o, up2)
         /\ \A t \in Sess : Has(b[t], "clear") => Has(b2[t], "clear")
         /\ Single(Lines(q, a, b)) => Calm(Lines(q, a, b), Lines(q2, a, b2))
<1>1. /\ q \in Seq(MainCall) /\ a \in Seq(Ask) /\ o \in [Sess -> Object]
      /\ b \in [Sess -> Seq(SessCall)] /\ w \in [Sess -> Seq(MainCall)]
      /\ m \in [User -> Sess \cup {None, Null}] /\ up \in SUBSET User
      /\ cl \in SUBSET Sess /\ bd \in [Conn -> Sess \cup {None}]
      /\ dir \in [User -> {"none", "here", "elsewhere"}]
      /\ Kept(q, o, m, up, cl, b) /\ Told(q, w, m, up, dir, b) /\ Fits(o, b, w, cl)
      /\ Called(q, a, o, bd)
  BY DEF Stands
<1>2. /\ s \in Sess /\ o[s].state = "live" /\ o[s].home = "scene" /\ u = o[s].user
      /\ w[s] = <<>> /\ cl2 = cl \cup {s} /\ up2 = IF s \in cl THEN up \cup {u} ELSE up
  BY DEF Leaves
<1>3. u \in User
  BY <1>1, <1>2 DEF Fits, Fit
<1>4. PICK n : n = [call |-> "closed", session |-> s, user |-> u]
  OBVIOUS
<1>5. PICK x : x = [call |-> "removed", session |-> s, user |-> u]
  OBVIOUS
<1>6. q2 = Append(q, n) /\ w2 = [w EXCEPT ![s] = <<x>>]
  BY <1>4, <1>5 DEF Leaves
<1>7. /\ n \in MainCall /\ x \in MainCall /\ n.call = "closed" /\ n.session = s /\ n.user = u
      /\ Call(n, "closed", s) /\ Call(x, "removed", s)
  BY <1>2, <1>3, <1>4, <1>5 DEF MainCall, Call
<1>8. q2 \in Seq(MainCall) /\ w2 \in [Sess -> Seq(MainCall)]
  BY <1>1, <1>2, <1>6, <1>7, Appended
<1>9. b2 = b \/ (b[s] # <<>> /\ b2 = [b EXCEPT ![s] = Tail(b[s])]
                 /\ b[s][1].call \in {"shutdown", "reconnect"})
  BY DEF Leaves
<1>10. /\ b2 \in [Sess -> Seq(SessCall)]
       /\ \A t \in Sess : \A c : Has(b2[t], c) => Has(b[t], c)
       /\ \A t \in Sess : \A c : Has(b[t], c) =>
            Has(b2[t], c) \/ (t = s /\ c \in {"shutdown", "reconnect"})
       /\ Fits(o, b2, w, cl)
       /\ Single(Lines(q2, a, b)) => Calm(Lines(q2, a, b), Lines(q2, a, b2))
  <2>1. CASE b2 = b
    BY <1>1, <2>1 DEF Calm
  <2>2. CASE b[s] # <<>> /\ b2 = [b EXCEPT ![s] = Tail(b[s])]
             /\ b[s][1].call \in {"shutdown", "reconnect"}
    <3>1. Gains(b2, b, s, b[s][1].call)
      BY <1>1, <1>2, <2>2, HasPop
    <3>2. b2 \in [Sess -> Seq(SessCall)]
      BY <1>1, <1>2, <2>2, Headed
    <3>3. Fits(o, b2, w, cl)
      BY <1>1, <1>2, <2>2, FitsBox
    <3>4. Single(Lines(q2, a, b)) => Calm(Lines(q2, a, b), Lines(q2, a, b2))
      BY <1>1, <1>2, <1>8, <2>2, CalmBox
    <3> QED
      BY <2>2, <3>1, <3>2, <3>3, <3>4 DEF Gains
  <2> QED
    BY <1>9, <2>1, <2>2
<1>11. up \subseteq up2 /\ up2 \in SUBSET User /\ cl2 \in SUBSET Sess
  BY <1>1, <1>2, <1>3
<1>12. Kept(q2, o, m, up2, cl2, b2) /\ MixedStill(q, o, up, q2, o, up2)
  <2>1. n.user = o[s].user /\ o[s].state # "unborn" /\ up2 = IF s \in cl THEN up \cup {o[s].user} ELSE up
    BY <1>2, <1>7
  <2>2. Kept(q2, o, m, up2, cl2, b) /\ MixedStill(q, o, up, q2, o, up2)
    BY <1>1, <1>2, <1>6, <1>7, <2>1, KeptCloses
  <2>3. Alike(o, b, o, b2) /\ up2 \subseteq up2
    BY <1>10 DEF Alike
  <2> QED
    BY <1>11, <2>2, <2>3, KeptStay
<1>13. Told(q2, w2, m, up2, dir, b2)
  <2>1. Says(n, w, w2, s)
    BY <1>1, <1>2, <1>5, <1>6, <1>7 DEF Says
  <2>2. StaysBut(n, b, b2)
    BY <1>7, <1>10 DEF StaysBut
  <2> QED
    BY <1>1, <1>2, <1>6, <1>7, <1>8, <1>11, <2>1, <2>2, ToldSays
<1>14. Fits(o, b2, w2, cl2)
  <2> SUFFICES ASSUME NEW t \in Sess  PROVE Fit(o[t], b2[t], w2[t], t \in cl2)
    BY DEF Fits
  <2>1. Fit(o[t], b2[t], w[t], t \in cl)
    BY <1>10 DEF Fits
  <2>2. CASE t = s
    BY <1>2, <2>1, <2>2 DEF Fit
  <2>3. CASE t # s
    BY <1>1, <1>2, <1>6, <2>1, <2>3
  <2> QED
    BY <2>2, <2>3
<1>15. Called(q2, a, o, bd)
  BY <1>1, <1>2, <1>6, <1>7, CalledMore
<1>16. Single(Lines(q, a, b)) => Calm(Lines(q, a, b), Lines(q2, a, b2))
  <2> SUFFICES ASSUME Single(Lines(q, a, b))  PROVE Calm(Lines(q, a, b), Lines(q2, a, b2))
    OBVIOUS
  <2>1. Calm(Lines(q, a, b), Lines(q2, a, b))
    BY <1>1, <1>6, <1>7, CalmCalls
  <2>2. Calm(Lines(q2, a, b), Lines(q2, a, b2))
    BY <1>10, <2>1 DEF Calm
  <2> QED
    BY <2>1, <2>2, CalmTwice
<1> QED
  BY <1>1, <1>8, <1>10, <1>11, <1>12, <1>13, <1>14, <1>15, <1>16 DEF Stands

(* Sessions keep their users and states.                                   *)

\* They keep what they are told to, but for what they take.
Rests(o, b, o2, b2, w, cl) ==
    /\ o2 \in [Sess -> Object] /\ b2 \in [Sess -> Seq(SessCall)]
    /\ Alike(o, b, o2, b2) /\ Older(o, o2) /\ Stays(b, b2) /\ Fits(o2, b2, w, cl)

LEMMA Rested ==
  ASSUME NEW q, NEW a, NEW o, NEW b, NEW w, NEW m, NEW up, NEW cl, NEW bd, NEW dir,
         NEW o2, NEW b2, Stands(q, a, o, b, w, m, up, cl, bd, dir), Rests(o, b, o2, b2, w, cl)
  PROVE  /\ Stands(q, a, o2, b2, w, m, up, cl, bd, dir) /\ MixedStill(q, o, up, q, o2, up)
         /\ Born(o, o2)
<1>1. /\ q \in Seq(MainCall) /\ a \in Seq(Ask) /\ o \in [Sess -> Object]
      /\ b \in [Sess -> Seq(SessCall)] /\ w \in [Sess -> Seq(MainCall)]
      /\ m \in [User -> Sess \cup {None, Null}] /\ up \in SUBSET User
      /\ cl \in SUBSET Sess /\ bd \in [Conn -> Sess \cup {None}]
      /\ dir \in [User -> {"none", "here", "elsewhere"}]
      /\ Kept(q, o, m, up, cl, b) /\ Told(q, w, m, up, dir, b) /\ Fits(o, b, w, cl)
      /\ Called(q, a, o, bd)
  BY DEF Stands
<1>2. /\ o2 \in [Sess -> Object] /\ b2 \in [Sess -> Seq(SessCall)]
      /\ Alike(o, b, o2, b2) /\ Older(o, o2) /\ Stays(b, b2) /\ Fits(o2, b2, w, cl)
  BY DEF Rests
<1>3. Kept(q, o2, m, up, cl, b2) /\ MixedStill(q, o, up, q, o2, up)
  BY <1>1, <1>2, KeptStay
<1>4. Told(q, w, m, up, dir, b2)
  <2>1. StillFound(q, w, m, m, up)
    BY DEF StillFound
  <2>2. StillListed(m, dir, b, m, dir, b2, up)
    BY <1>2 DEF StillListed, Stays
  <2> QED
    BY <1>1, <2>1, <2>2, ToldStill
<1>5. Called(q, a, o2, bd)
  BY <1>1, <1>2, CalledStay
<1>6. Born(o, o2)
  BY <1>2 DEF Born, Alike
<1> QED
  BY <1>1, <1>2, <1>3, <1>4, <1>5, <1>6 DEF Stands

(* A call about a connection is made.                                      *)
LEMMA Sent ==
  ASSUME NEW q, NEW a, NEW o, NEW b, NEW w, NEW m, NEW up, NEW cl, NEW bd, NEW dir, NEW x,
         Stands(q, a, o, b, w, m, up, cl, bd, dir), x \in MainCall, x.call \in {"unset", "token"}
  PROVE  /\ Stands(Append(q, x), a, o, b, w, m, up, cl, bd, dir)
         /\ MixedStill(q, o, up, Append(q, x), o, up)
<1>1. /\ q \in Seq(MainCall) /\ a \in Seq(Ask) /\ o \in [Sess -> Object]
      /\ b \in [Sess -> Seq(SessCall)] /\ w \in [Sess -> Seq(MainCall)]
      /\ m \in [User -> Sess \cup {None, Null}] /\ up \in SUBSET User
      /\ cl \in SUBSET Sess /\ bd \in [Conn -> Sess \cup {None}]
      /\ dir \in [User -> {"none", "here", "elsewhere"}]
      /\ Kept(q, o, m, up, cl, b) /\ Told(q, w, m, up, dir, b) /\ Fits(o, b, w, cl)
      /\ Called(q, a, o, bd)
  BY DEF Stands
<1>2. Plain(x)
  BY DEF Plain
<1>3. Kept(Append(q, x), o, m, up, cl, b) /\ MixedStill(q, o, up, Append(q, x), o, up)
  BY <1>1, <1>2, KeptMore
<1>4. Told(Append(q, x), w, m, up, dir, b)
  BY <1>1, ToldMore
<1>5. Called(Append(q, x), a, o, bd)
  BY <1>1, CalledMore
<1>6. Append(q, x) \in Seq(MainCall)
  BY <1>1, Appended
<1> QED
  BY <1>1, <1>3, <1>4, <1>5, <1>6 DEF Stands

(* A session changes its user.                                             *)

\* In the main thread, with what the managers make of it.
Alters(o, b, m, up, dir, o2, b2, m2, up2, dir2, s, u, v) ==
    /\ s \in Sess /\ o[s].state = "live" /\ o[s].home = "main" /\ u = o[s].user
    /\ v \in User /\ o2 = [o EXCEPT ![s].user = v]
    /\ m2 = [m EXCEPT ![u] = None, ![v] = IF m[u] = None THEN Null ELSE m[u]]
    /\ up2 = up \cup (IF m[u] # s \/ u \in up THEN {u, v} ELSE {})
                \cup (IF u # v /\ m[v] # None THEN {v} ELSE {})
    /\ dir2 = [x \in User |-> IF x = v THEN "here"
                              ELSE IF x = u /\ dir[u] = "here" THEN "none" ELSE dir[x]]
    /\ b[s] # <<>> /\ b[s][1].call = "user" /\ b2 = [b EXCEPT ![s] = Tail(b[s])]

LEMMA AlteredInMain ==
  ASSUME NEW q, NEW a, NEW o, NEW b, NEW w, NEW m, NEW up, NEW cl, NEW bd, NEW dir,
         NEW o2, NEW b2, NEW m2, NEW up2, NEW dir2, NEW s, NEW u, NEW v,
         Stands(q, a, o, b, w, m, up, cl, bd, dir),
         Alters(o, b, m, up, dir, o2, b2, m2, up2, dir2, s, u, v)
  PROVE  /\ Stands(q, a, o2, b2, w, m2, up2, cl, bd, dir2)
         /\ MixedStill(q, o, up, q, o2, up2)
<1>1. /\ q \in Seq(MainCall) /\ a \in Seq(Ask) /\ o \in [Sess -> Object]
      /\ b \in [Sess -> Seq(SessCall)] /\ w \in [Sess -> Seq(MainCall)]
      /\ m \in [User -> Sess \cup {None, Null}] /\ up \in SUBSET User
      /\ cl \in SUBSET Sess /\ bd \in [Conn -> Sess \cup {None}]
      /\ dir \in [User -> {"none", "here", "elsewhere"}]
      /\ Kept(q, o, m, up, cl, b) /\ Told(q, w, m, up, dir, b) /\ Fits(o, b, w, cl)
      /\ Called(q, a, o, bd)
  BY DEF Stands
<1>2. /\ s \in Sess /\ o[s].state = "live" /\ o[s].home = "main" /\ u = o[s].user
      /\ v \in User /\ o2 = [o EXCEPT ![s].user = v]
      /\ m2 = [m EXCEPT ![u] = None, ![v] = IF m[u] = None THEN Null ELSE m[u]]
      /\ up2 = up \cup (IF m[u] # s \/ u \in up THEN {u, v} ELSE {})
                  \cup (IF u # v /\ m[v] # None THEN {v} ELSE {})
      /\ dir2 = [x \in User |-> IF x = v THEN "here"
                                ELSE IF x = u /\ dir[u] = "here" THEN "none" ELSE dir[x]]
      /\ b[s] # <<>> /\ b[s][1].call = "user" /\ b2 = [b EXCEPT ![s] = Tail(b[s])]
  BY DEF Alters
<1>3. u \in User /\ w[s] = <<>> /\ None \notin Sess
  BY <1>1, <1>2 DEF Fits, Fit, None, Sess
<1>4. Silent(q, s) /\ Mute(q, w, s)
  <2>1. \A i \in 1 .. Len(q) : q[i].call \in {"closed", "changed", "removed", "added"}
                                 => q[i].session # s
    BY <1>1, <1>2 DEF Called
  <2>2. 1 .. Len(w[s]) = {}
    BY <1>3
  <2> QED
    BY <2>1, <2>2 DEF Silent, Mute, Call
<1>5. /\ o2 \in [Sess -> Object] /\ \A t \in Sess \ {s} : o2[t] = o[t]
      /\ o2[s].state = "live" /\ o2[s].home = "main" /\ o2[s].user = v
      /\ o2[s].conn = o[s].conn /\ o2[s].timer = o[s].timer /\ o2[s].setting = o[s].setting
  BY <1>1, <1>2 DEF Object
<1>6. Gains(b2, b, s, "user")
  <2>1. Gains(b2, b, s, b[s][1].call)
    BY <1>1, <1>2, HasPop
  <2> QED
    BY <1>2, <2>1
<1>7. b2 \in [Sess -> Seq(SessCall)]
  BY <1>1, <1>2, Headed
<1>8. /\ up \subseteq up2 /\ up2 \in SUBSET User /\ m2 \in [User -> Sess \cup {None, Null}]
      /\ dir2 \in [User -> {"none", "here", "elsewhere"}]
  BY <1>1, <1>2, <1>3
<1>9. Moved(m, up, m2, up2, s, u, v)
  BY <1>1, <1>2, <1>3 DEF Moved
<1>10. Turns(o, o2, s, u, v)
  BY <1>2, <1>5 DEF Turns
<1>11. Kept(q, o2, m2, up2, cl, b2) /\ MixedStill(q, o, up, q, o2, up2)
  <2>1. /\ q \in Seq(MainCall) /\ m \in [User -> Sess \cup {None, Null}] /\ cl \in SUBSET Sess
        /\ Kept(q, o, m, up, cl, b) /\ s \in Sess /\ u \in User /\ v \in User
    BY <1>1, <1>2, <1>3
  <2>2. Kept(q, o2, m2, up2, cl, b) /\ MixedStill(q, o, up, q, o2, up2)
    BY <1>4, <1>9, <1>10, <2>1, KeptBecame
  <2>3. Alike(o2, b, o2, b2) /\ up2 \subseteq up2
    BY <1>6 DEF Alike, Gains
  <2> QED
    BY <1>1, <2>2, <2>3, KeptStay
<1>12. Told(q, w, m2, up2, dir2, b2)
  <2>1. StillFound(q, w, m, m2, up2)
    <3> SUFFICES ASSUME NEW x \in User, NEW t \in Sess, m[x] = t, x \notin up2, ~Mute(q, w, t)
                 PROVE  m2[x] = t
      BY DEF StillFound
    <3>1. t # s
      BY <1>4
    <3>2. x # u /\ x # v
      BY <1>2, <1>3, <3>1
    <3> QED
      BY <1>1, <1>2, <3>2
  <2>2. StillListed(m, dir, b, m2, dir2, b2, up2)
    <3> SUFFICES ASSUME NEW x \in User \ up2
                 PROVE  /\ dir2[x] = "here" /\ m2[x] \notin Sess => dir[x] = "here" /\ m[x] \notin Sess
                        /\ dir2[x] # "here" /\ m2[x] \in Sess =>
                            \/ Has(b2[m2[x]], "reconnect")
                            \/ /\ dir[x] # "here" /\ m[x] = m2[x]
                               /\ Has(b[m[x]], "reconnect") => Has(b2[m2[x]], "reconnect")
      BY DEF StillListed
    <3>1. CASE x = v
      <4>1. m[u] = s
        BY <1>2, <3>1
      <4>2. m2[x] = s
        BY <1>1, <1>2, <1>3, <3>1, <4>1
      <4>3. dir2[x] = "here"
        BY <1>2, <3>1
      <4> QED
        BY <1>2, <4>2, <4>3
    <3>2. CASE x = u /\ u # v
      <4>1. m2[x] = None /\ dir2[x] # "here"
        BY <1>1, <1>2, <1>3, <3>2
      <4> QED
        BY <1>3, <4>1
    <3>3. CASE x # u /\ x # v
      <4>1. m2[x] = m[x] /\ dir2[x] = dir[x]
        BY <1>1, <1>2, <1>3, <3>3
      <4> QED
        BY <1>6, <4>1 DEF Gains
    <3> QED
      BY <3>1, <3>2, <3>3
  <2> QED
    BY <1>1, <1>8, <2>1, <2>2, ToldStill
<1>13. Fits(o2, b2, w, cl)
  <2>1. Fits(o, b2, w, cl)
    BY <1>1, <1>2, FitsBox
  <2> SUFFICES ASSUME NEW t \in Sess  PROVE Fit(o2[t], b2[t], w[t], t \in cl)
    BY DEF Fits
  <2>2. Fit(o[t], b2[t], w[t], t \in cl)
    BY <2>1 DEF Fits
  <2>3. CASE t = s
    BY <1>2, <1>5, <2>2, <2>3 DEF Fit
  <2>4. CASE t # s
    BY <1>5, <2>2, <2>4
  <2> QED
    BY <2>3, <2>4
<1>14. Called(q, a, o2, bd)
  <2>1. Older(o, o2)
    BY <1>2, <1>5 DEF Older
  <2> QED
    BY <1>1, <2>1, CalledStay
<1> QED
  BY <1>1, <1>5, <1>7, <1>8, <1>11, <1>12, <1>13, <1>14 DEF Stands

\* In the thread of an instance, where it tells them.
Tends(o, q, b, w, o2, q2, b2, w2, s, u, v) ==
    /\ s \in Sess /\ o[s].state = "live" /\ o[s].home = "scene" /\ u = o[s].user
    /\ v \in User /\ o2 = [o EXCEPT ![s].user = v] /\ w[s] = <<>>
    /\ q2 = Append(q, [call |-> "changed", session |-> s, user |-> u, new |-> v])
    /\ w2 = [w EXCEPT ![s] = <<[call |-> "removed", session |-> s, user |-> u],
                               [call |-> "added", session |-> s, user |-> v]>>]
    /\ b[s] # <<>> /\ b[s][1].call = "user" /\ b2 = [b EXCEPT ![s] = Tail(b[s])]

LEMMA AlteredInScene ==
  ASSUME NEW q, NEW a, NEW o, NEW b, NEW w, NEW m, NEW up, NEW cl, NEW bd, NEW dir,
         NEW o2, NEW q2, NEW b2, NEW w2, NEW s, NEW u, NEW v,
         Stands(q, a, o, b, w, m, up, cl, bd, dir),
         Tends(o, q, b, w, o2, q2, b2, w2, s, u, v)
  PROVE  /\ Stands(q2, a, o2, b2, w2, m, up, cl, bd, dir)
         /\ MixedStill(q, o, up, q2, o2, up)
         /\ Single(Lines(q, a, b)) => Calm(Lines(q, a, b), Lines(q2, a, b))
<1>1. /\ q \in Seq(MainCall) /\ a \in Seq(Ask) /\ o \in [Sess -> Object]
      /\ b \in [Sess -> Seq(SessCall)] /\ w \in [Sess -> Seq(MainCall)]
      /\ m \in [User -> Sess \cup {None, Null}] /\ up \in SUBSET User
      /\ cl \in SUBSET Sess /\ bd \in [Conn -> Sess \cup {None}]
      /\ dir \in [User -> {"none", "here", "elsewhere"}]
      /\ Kept(q, o, m, up, cl, b) /\ Told(q, w, m, up, dir, b) /\ Fits(o, b, w, cl)
      /\ Called(q, a, o, bd)
  BY DEF Stands
<1>2. /\ s \in Sess /\ o[s].state = "live" /\ o[s].home = "scene" /\ u = o[s].user
      /\ v \in User /\ o2 = [o EXCEPT ![s].user = v] /\ w[s] = <<>>
      /\ b[s] # <<>> /\ b[s][1].call = "user" /\ b2 = [b EXCEPT ![s] = Tail(b[s])]
  BY DEF Tends
<1>3. u \in User
  BY <1>1, <1>2 DEF Fits, Fit
<1>4. PICK n : n = [call |-> "changed", session |-> s, user |-> u, new |-> v]
  OBVIOUS
<1>5. PICK x : x = [call |-> "removed", session |-> s, user |-> u]
  OBVIOUS
<1>6. PICK y : y = [call |-> "added", session |-> s, user |-> v]
  OBVIOUS
<1>7. q2 = Append(q, n) /\ w2 = [w EXCEPT ![s] = <<x, y>>]
  BY <1>4, <1>5, <1>6 DEF Tends
<1>8. /\ n \in MainCall /\ x \in MainCall /\ y \in MainCall
      /\ n.call = "changed" /\ n.session = s /\ n.user = u /\ n.new = v
      /\ Call(n, "changed", s)
  BY <1>2, <1>3, <1>4, <1>5, <1>6 DEF MainCall, Call
<1>9. q2 \in Seq(MainCall) /\ w2 \in [Sess -> Seq(MainCall)]
  BY <1>1, <1>2, <1>7, <1>8, Appended
<1>10. /\ o2 \in [Sess -> Object] /\ \A t \in Sess \ {s} : o2[t] = o[t]
       /\ o2[s].state = "live" /\ o2[s].home = "scene" /\ o2[s].user = v
       /\ o2[s].conn = o[s].conn /\ o2[s].timer = o[s].timer /\ o2[s].setting = o[s].setting
  BY <1>1, <1>2 DEF Object
<1>11. Gains(b2, b, s, "user")
  <2>1. Gains(b2, b, s, b[s][1].call)
    BY <1>1, <1>2, HasPop
  <2> QED
    BY <1>2, <2>1
<1>12. b2 \in [Sess -> Seq(SessCall)]
  BY <1>1, <1>2, Headed
<1>13. Turns(o, o2, s, n.user, n.new)
  BY <1>2, <1>8, <1>10 DEF Turns
<1>14. Kept(q2, o2, m, up, cl, b2) /\ MixedStill(q, o, up, q2, o2, up)
  <2>1. Kept(q2, o2, m, up, cl, b) /\ MixedStill(q, o, up, q2, o2, up)
    BY <1>1, <1>2, <1>7, <1>8, <1>13, KeptTurns
  <2>2. Alike(o2, b, o2, b2) /\ up \subseteq up
    BY <1>11 DEF Alike, Gains
  <2> QED
    BY <1>1, <2>1, <2>2, KeptStay
<1>15. Told(q2, w2, m, up, dir, b2)
  <2>1. Says(n, w, w2, s)
    BY <1>1, <1>2, <1>5, <1>6, <1>7, <1>8 DEF Says
  <2>2. StaysBut(n, b, b2) /\ up \subseteq up
    BY <1>11 DEF StaysBut, Gains
  <2> QED
    BY <1>1, <1>2, <1>7, <1>8, <1>9, <2>1, <2>2, ToldSays
<1>16. Fits(o2, b2, w2, cl)
  <2>1. Fits(o, b2, w, cl)
    BY <1>1, <1>2, FitsBox
  <2> SUFFICES ASSUME NEW t \in Sess  PROVE Fit(o2[t], b2[t], w2[t], t \in cl)
    BY DEF Fits
  <2>2. Fit(o[t], b2[t], w[t], t \in cl)
    BY <2>1 DEF Fits
  <2>3. CASE t = s
    BY <1>2, <1>10, <2>2, <2>3 DEF Fit
  <2>4. CASE t # s
    BY <1>1, <1>7, <1>10, <2>2, <2>4
  <2> QED
    BY <2>3, <2>4
<1>17. Called(q2, a, o2, bd)
  <2>1. Older(o, o2)
    BY <1>2, <1>10 DEF Older
  <2>2. Called(q, a, o2, bd)
    BY <1>1, <2>1, CalledStay
  <2> QED
    BY <1>1, <1>7, <1>8, <1>10, <2>2, CalledMore
<1>18. Single(Lines(q, a, b)) => Calm(Lines(q, a, b), Lines(q2, a, b))
  BY <1>1, <1>7, <1>8, CalmCalls
<1> QED
  BY <1>1, <1>9, <1>10, <1>12, <1>14, <1>15, <1>16, <1>17, <1>18 DEF Stands

(* A session is called.                                                    *)

\* Not to be deleted; and in the main thread only about its user.
Posts(o, b, b2, s, n) ==
    /\ s \in Sess /\ o[s].state = "live" /\ n \in SessCall /\ n.call # "delete"
    /\ o[s].home = "main" => n.call = "user"
    /\ b2 = [b EXCEPT ![s] = Append(b[s], n)]

LEMMA Posted ==
  ASSUME NEW q, NEW a, NEW o, NEW b, NEW w, NEW m, NEW up, NEW cl, NEW bd, NEW dir, NEW b2, NEW s,
         NEW n, Stands(q, a, o, b, w, m, up, cl, bd, dir), Posts(o, b, b2, s, n)
  PROVE  /\ Stands(q, a, o, b2, w, m, up, cl, bd, dir) /\ Gains(b, b2, s, n.call)
         /\ n.call # "set" /\ Single(Lines(q, a, b)) => Calm(Lines(q, a, b), Lines(q, a, b2))
<1>1. /\ q \in Seq(MainCall) /\ a \in Seq(Ask) /\ o \in [Sess -> Object]
      /\ b \in [Sess -> Seq(SessCall)] /\ Fits(o, b, w, cl)
  BY DEF Stands
<1>2. /\ s \in Sess /\ o[s].state = "live" /\ n \in SessCall /\ n.call # "delete"
      /\ o[s].home = "main" => n.call = "user"
      /\ b2 = [b EXCEPT ![s] = Append(b[s], n)]
  BY DEF Posts
<1>3. Gains(b, b2, s, n.call)
  BY <1>1, <1>2, HasPush
<1>4. b2 \in [Sess -> Seq(SessCall)]
  BY <1>1, <1>2, Appended
<1>5. Fits(o, b2, w, cl)
  BY <1>1, <1>2, FitsBox
<1>6. Alike(o, b, o, b2) /\ Older(o, o) /\ Stays(b, b2)
  BY <1>2, <1>3 DEF Alike, Older, Stays, Gains
<1>7. Stands(q, a, o, b2, w, m, up, cl, bd, dir)
  BY <1>1, <1>4, <1>5, <1>6, Rested DEF Rests
<1> QED
  BY <1>1, <1>2, <1>3, <1>7, CalmBox

-----------------------------------------------------------------------------
(* The main thread handles the calls that wait for it.                     *)

\* What is else known of a state from which a step is made.
Sound == abroad \subseteq User /\ crashed = FALSE

(* A connection was not set.                                               *)
LEMMA StepUnset ==
  ASSUME NEW q, NEW a, NEW o, NEW b, NEW w, NEW m, NEW up, NEW cl, NEW bd, NEW ph, NEW lt,
         NEW dir, NEW r, NEW n, Now(q, a, o, b, w, m, up, cl, bd, ph, lt, dir, r, n),
         Good(q, a, o, b, w, m, up, cl, bd, ph, lt, dir, r, n), Sound,
         main # <<>>, HandleUnset(Head(main))
  PROVE  Inv'
<1>1. /\ Types(q, a, o, b, w, m, up, cl, bd, ph, lt, dir, r, n)
      /\ Fits(o, b, w, cl) /\ Called(q, a, o, bd)
      /\ Queued(Lines(q, a, b), a, o, bd, ph, r, n)
      /\ Kept(q, o, m, up, cl, b) /\ Told(q, w, m, up, dir, b)
      /\ Tied(o, bd, ph, b) /\ Attended(q, o, up, cl, bd, ph, lt, Waiting(Lines(q, a, b)))
  BY DEF Good
<1>2. /\ q \in Seq(MainCall) /\ a \in Seq(Ask) /\ o \in [Sess -> Object]
      /\ b \in [Sess -> Seq(SessCall)] /\ w \in [Sess -> Seq(MainCall)]
      /\ m \in [User -> Sess \cup {None, Null}]
      /\ up \in SUBSET User /\ cl \in SUBSET Sess /\ lt \in SUBSET Conn
      /\ bd \in [Conn -> Sess \cup {None}] /\ n \in Nat /\ n <= MaxEvents
  BY <1>1, BoundsAssumption DEF Types
<1>3. q # <<>> /\ Head(q) = q[1] /\ q[1] \in MainCall
  BY <1>2, Headed DEF Now
<1>4. q[1].call = "unset"
  BY <1>3 DEF Now, HandleUnset
<1>5. PICK c \in Conn : c = q[1].conn
  BY <1>3, <1>4, CallFields
<1>6. PICK t : t = Tail(q)
  OBVIOUS
<1>7. PICK a2 : a2 = IF Open(ph[c]) THEN Append(a, [ask |-> "create", conn |-> c]) ELSE a
  OBVIOUS
<1>8. Then(t, a2, o, b, w, m, up, cl, bd, ph, lt, dir, r, n)
  BY <1>3, <1>5, <1>6, <1>7 DEF Now, Then, HandleUnset, NotSet, IsOpen, Open, connections
<1>9. abroad' = abroad /\ crashed' = crashed
  BY DEF HandleUnset
<1>10. [ask |-> "create", conn |-> c] \in Ask
  BY DEF Ask
<1>11. t \in Seq(MainCall) /\ a2 \in Seq(Ask)
  BY <1>2, <1>3, <1>6, <1>7, <1>10, Headed, Appended
<1>12. PICK l : l = Lines(q, a, b)
  OBVIOUS
<1>13. PICK l1 : l1 = Lines(t, a, b)
  OBVIOUS
<1>14. PICK l2 : l2 = Lines(t, a2, b)
  OBVIOUS
<1>15. /\ l \in [Queue -> Seq(Entry)] /\ l[0] = q /\ l1 \in [Queue -> Seq(Entry)]
       /\ 0 \in Queue /\ -1 \in Queue
  BY <1>2, <1>11, <1>12, <1>13, LinesAre
<1>16. /\ Single(l) /\ Unbound(Waiting(l), o, bd, ph)
       /\ Sessions(o, Waiting(l), n) /\ Rows(r, Turned(l), a, n)
  BY <1>1, <1>12 DEF Queued
<1>17. \A d : Pass(0, q[1], d) <=> d = c
  BY <1>4, <1>5 DEF Pass
<1>18. /\ Single(l1)
       /\ Waiting(l1) \subseteq Waiting(l) /\ Turned(l1) \subseteq Turned(l)
       /\ c \in Waiting(l) /\ c \notin Waiting(l1) /\ c \notin Turned(l1)
       /\ \A d \in Conn : d # c /\ d \in Waiting(l) => d \in Waiting(l1)
  <2>1. Popped(l, l1, 0)
    BY <1>2, <1>3, <1>6, <1>12, <1>13, LinesPop
  <2> QED
    BY <1>15, <1>16, <1>17, <2>1, PoppedSingle
<1>19. c \in Turned(l)
  <2>1. Len(q) \in Nat \ {0}
    BY <1>2, <1>3, Headed
  <2>2. Waits(l, 0, 1, c)
    BY <1>15, <1>17, <2>1 DEF Waits
  <2>3. 0 \in Queue \ {-1} /\ 1 \in Nat /\ l[0][1].call # "token"
    BY <1>4, <1>15
  <2> QED
    BY <2>2, <2>3 DEF Turned
<1>20. /\ Single(l2) /\ Turned(l2) = Turned(l1)
       /\ Waiting(l2) = IF Open(ph[c]) THEN Waiting(l1) \cup {c} ELSE Waiting(l1)
  <2>1. CASE Open(ph[c])
    <3>1. PICK x : x = [ask |-> "create", conn |-> c]
      OBVIOUS
    <3>2. Pushed(l1, l2, -1, x)
      BY <1>2, <1>7, <1>11, <1>13, <1>14, <2>1, <3>1, LinesPush
    <3>3. \A d : Pass(-1, x, d) <=> d = c
      BY <3>1 DEF Pass
    <3>4. x \in Entry
      BY <1>10, <3>1 DEF Entry
    <3>5. /\ Single(l2)
          /\ Waiting(l2) = Waiting(l1) \cup {d \in Conn : Pass(-1, x, d)}
          /\ Turned(l2) = Turned(l1) \cup {d \in Conn : Pass(-1, x, d) /\ -1 # -1 /\ x.call # "token"}
      <4>1. Apart(l1, -1, x)
        BY <1>18, <3>3 DEF Apart
      <4> QED
        BY <1>15, <1>18, <3>2, <3>4, <4>1, PushedSingle
    <3> QED
      BY <2>1, <3>3, <3>5
  <2>2. CASE ~Open(ph[c])
    BY <1>7, <1>13, <1>14, <1>18, <2>2
  <2> QED
    BY <2>1, <2>2
<1>21. Queued(l2, a2, o, bd, ph, r, n)
  <2>1. Waiting(l2) \subseteq Waiting(l) /\ Waiting(l2) \subseteq Conn /\ Waiting(l) \subseteq Conn
        /\ Turned(l2) \subseteq Turned(l) \ {c} /\ Turned(l) \subseteq Conn /\ Turned(l2) \subseteq Conn
    BY <1>18, <1>20 DEF Waiting, Turned
  <2>2. /\ Cardinality(Waiting(l2)) + n <= Cardinality(Waiting(l)) + n
        /\ Cardinality(Turned(l2)) + 1 <= Cardinality(Turned(l))
        /\ Cardinality(Turned(l)) \in Nat /\ Cardinality(Turned(l2)) \in Nat
    <3>1. Cardinality(Turned(l)) \in Nat /\ Cardinality(Turned(l2)) \in Nat
          /\ Cardinality(Waiting(l)) \in Nat /\ Cardinality(Waiting(l2)) \in Nat
      BY <2>1, Counted
    <3>2. Cardinality(Waiting(l2)) <= Cardinality(Waiting(l))
      BY <2>1, Counted
    <3>3. Cardinality(Turned(l2)) + 1 <= Cardinality(Turned(l))
      BY <1>19, <2>1, Counted
    <3> QED
      BY <1>2, <3>1, <3>2, <3>3
  <2>3. Len(a2) <= Len(a) + 1 /\ Len(a2) \in Nat /\ Len(a) \in Nat
    BY <1>2, <1>7, <1>10, <1>11, Appended, LenProperties
  <2>4. Sessions(o, Waiting(l2), n)
    <3>1. Born(o, o)
      BY DEF Born
    <3> QED
      BY <1>2, <1>16, <2>1, <2>2, <3>1, SessionsStep
  <2>5. Rows(r, Turned(l2), a2, n)
    <3>1. Kin(r, r)
      BY DEF Kin
    <3>2. Cardinality(Turned(l2)) + Len(a2) + n <= Cardinality(Turned(l)) + Len(a) + n
      BY <1>2, <2>2, <2>3
    <3> QED
      BY <1>2, <1>11, <1>16, <2>1, <3>1, <3>2, RowsStep
  <2>6. Unbound(Waiting(l2), o, bd, ph)
    BY <1>16, <2>1 DEF Unbound
  <2> QED
    BY <1>20, <2>4, <2>5, <2>6 DEF Queued
<1>22. Kept(t, o, m, up, cl, b) /\ MixedStill(q, o, up, t, o, up)
  BY <1>1, <1>2, <1>3, <1>4, <1>6, KeptTail DEF Plain
<1>23. Told(t, w, m, up, dir, b)
  BY <1>1, <1>2, <1>3, <1>4, <1>6, ToldTail
<1>24. Called(t, a2, o, bd)
  <2>1. Called(t, a, o, bd)
    BY <1>1, <1>2, <1>3, <1>6, CalledTail
  <2> QED
    BY <1>2, <1>7, <1>10, <2>1, CalledAsk
<1>25. Attended(t, o, up, cl, bd, ph, lt, Waiting(l2))
  <2>1. Attends(o, cl, bd, ph, lt, Waiting(l), t, o, up, cl, bd, ph, lt, Waiting(l2))
    <3> SUFFICES ASSUME NEW d \in Conn, ph[d] = "open", d \in Waiting(l)
                 PROVE  d \in Waiting(l2)
      BY DEF Attends
    <3>1. d = c => Open(ph[c])
      BY DEF Open
    <3> QED
      BY <1>18, <1>20, <3>1
  <2> QED
    BY <1>1, <1>12, <1>22, <2>1, AttendedStep
<1>26. Types(t, a2, o, b, w, m, up, cl, bd, ph, lt, dir, r, n)
  BY <1>1, <1>11 DEF Types
<1>27. Good(t, a2, o, b, w, m, up, cl, bd, ph, lt, dir, r, n)
  BY <1>1, <1>14, <1>21, <1>22, <1>23, <1>24, <1>25, <1>26 DEF Good
<1> QED
  BY <1>8, <1>9, <1>27, InvAgain DEF Sound

(* A user is put on the directory.                                         *)
LEMMA StepAdded ==
  ASSUME NEW q, NEW a, NEW o, NEW b, NEW w, NEW m, NEW up, NEW cl, NEW bd, NEW ph, NEW lt,
         NEW dir, NEW r, NEW n, Now(q, a, o, b, w, m, up, cl, bd, ph, lt, dir, r, n),
         Good(q, a, o, b, w, m, up, cl, bd, ph, lt, dir, r, n), Sound,
         main # <<>>, HandleAdded(Head(main))
  PROVE  Inv'
<1>1. /\ Types(q, a, o, b, w, m, up, cl, bd, ph, lt, dir, r, n)
      /\ Fits(o, b, w, cl) /\ Called(q, a, o, bd)
      /\ Queued(Lines(q, a, b), a, o, bd, ph, r, n)
      /\ Kept(q, o, m, up, cl, b) /\ Told(q, w, m, up, dir, b)
      /\ Tied(o, bd, ph, b) /\ Attended(q, o, up, cl, bd, ph, lt, Waiting(Lines(q, a, b)))
  BY DEF Good
<1>2. /\ q \in Seq(MainCall) /\ a \in Seq(Ask) /\ o \in [Sess -> Object]
      /\ b \in [Sess -> Seq(SessCall)] /\ w \in [Sess -> Seq(MainCall)]
      /\ m \in [User -> Sess \cup {None, Null}]
      /\ up \in SUBSET User /\ cl \in SUBSET Sess /\ lt \in SUBSET Conn
      /\ bd \in [Conn -> Sess \cup {None}] /\ n \in Nat /\ n <= MaxEvents
  BY <1>1, BoundsAssumption DEF Types
<1>3. q # <<>> /\ Head(q) = q[1] /\ q[1] \in MainCall /\ Tail(q) \in Seq(MainCall)
  BY <1>2, Headed DEF Now
<1>4. q[1].call = "added"
  BY <1>3 DEF Now, HandleAdded
<1>5. PICK s \in Sess, u \in User : s = q[1].session /\ u = q[1].user
  BY <1>3, <1>4, CallFields
<1>6. PICK t : t = Tail(q)
  OBVIOUS
<1>7. PICK dir2 : dir2 = [dir EXCEPT ![u] = "here"]
  OBVIOUS
<1>8. Then(t, a, o, b, w, m, up, cl, bd, ph, lt, dir2, r, n) /\ abroad' = abroad /\ crashed' = crashed
  BY <1>3, <1>5, <1>6, <1>7 DEF Now, Then, HandleAdded, SessionAdded, connections
<1>9. dir \in [User -> {"none", "here", "elsewhere"}]
  BY <1>1 DEF Types
<1>10. Calm(Lines(q, a, b), Lines(t, a, b))
  BY <1>1, <1>2, <1>3, <1>4, <1>6, CalmCalls DEF Queued
<1>11. Queued(Lines(t, a, b), a, o, bd, ph, r, n)
  BY <1>1, <1>2, <1>10, QueuedLike
<1>12. Kept(t, o, m, up, cl, b) /\ MixedStill(q, o, up, t, o, up)
  BY <1>1, <1>2, <1>3, <1>4, <1>6, KeptTail DEF Plain
<1>13. Told(t, w, m, up, dir2, b)
  <2>1. Call(q[1], "added", s) /\ dir2[u] = "here" /\ \A v \in User \ {u} : dir2[v] = dir[v]
    BY <1>4, <1>5, <1>7, <1>9 DEF Call
  <2> QED
    BY <1>1, <1>2, <1>3, <1>5, <1>6, <2>1, ToldAdded
<1>14. Called(t, a, o, bd)
  BY <1>1, <1>2, <1>3, <1>6, CalledTail
<1>15. Attended(t, o, up, cl, bd, ph, lt, Waiting(Lines(t, a, b)))
  <2>1. Attends(o, cl, bd, ph, lt, Waiting(Lines(q, a, b)), t, o, up, cl, bd, ph, lt,
                Waiting(Lines(t, a, b)))
    BY <1>10 DEF Attends, Calm
  <2> QED
    BY <1>1, <1>12, <2>1, AttendedStep
<1>16. Types(t, a, o, b, w, m, up, cl, bd, ph, lt, dir2, r, n)
  BY <1>1, <1>3, <1>6, <1>7, <1>9 DEF Types
<1>17. Good(t, a, o, b, w, m, up, cl, bd, ph, lt, dir2, r, n)
  BY <1>1, <1>11, <1>12, <1>13, <1>14, <1>15, <1>16 DEF Good
<1> QED
  BY <1>8, <1>17, InvAgain DEF Sound

(* A user is taken off the directory.                                      *)
LEMMA StepRemoved ==
  ASSUME NEW q, NEW a, NEW o, NEW b, NEW w, NEW m, NEW up, NEW cl, NEW bd, NEW ph, NEW lt,
         NEW dir, NEW r, NEW n, Now(q, a, o, b, w, m, up, cl, bd, ph, lt, dir, r, n),
         Good(q, a, o, b, w, m, up, cl, bd, ph, lt, dir, r, n), Sound,
         main # <<>>, HandleRemoved(Head(main))
  PROVE  Inv'
<1>1. /\ Types(q, a, o, b, w, m, up, cl, bd, ph, lt, dir, r, n)
      /\ Fits(o, b, w, cl) /\ Called(q, a, o, bd)
      /\ Queued(Lines(q, a, b), a, o, bd, ph, r, n)
      /\ Kept(q, o, m, up, cl, b) /\ Told(q, w, m, up, dir, b)
      /\ Tied(o, bd, ph, b) /\ Attended(q, o, up, cl, bd, ph, lt, Waiting(Lines(q, a, b)))
  BY DEF Good
<1>2. /\ q \in Seq(MainCall) /\ a \in Seq(Ask) /\ o \in [Sess -> Object]
      /\ b \in [Sess -> Seq(SessCall)] /\ w \in [Sess -> Seq(MainCall)]
      /\ m \in [User -> Sess \cup {None, Null}]
      /\ up \in SUBSET User /\ cl \in SUBSET Sess /\ lt \in SUBSET Conn
      /\ bd \in [Conn -> Sess \cup {None}] /\ n \in Nat /\ n <= MaxEvents
  BY <1>1, BoundsAssumption DEF Types
<1>3. q # <<>> /\ Head(q) = q[1] /\ q[1] \in MainCall /\ Tail(q) \in Seq(MainCall)
  BY <1>2, Headed DEF Now
<1>4. q[1].call = "removed"
  BY <1>3 DEF Now, HandleRemoved
<1>5. PICK s \in Sess, u \in User : s = q[1].session /\ u = q[1].user
  BY <1>3, <1>4, CallFields
<1>6. PICK t : t = Tail(q)
  OBVIOUS
<1>7. PICK dir2 : dir2 = [dir EXCEPT ![u] = IF @ = "here" THEN "none" ELSE @]
  OBVIOUS
<1>8. PICK up2 : up2 = up \cup (IF m[u] # None THEN {u} ELSE {})
  OBVIOUS
<1>9. Then(t, a, o, b, w, m, up2, cl, bd, ph, lt, dir2, r, n) /\ abroad' = abroad
      /\ crashed' = crashed
  BY <1>3, <1>5, <1>6, <1>7, <1>8 DEF Now, Then, HandleRemoved, SessionRemoved, connections
<1>10. dir \in [User -> {"none", "here", "elsewhere"}]
  BY <1>1 DEF Types
<1>11. Calm(Lines(q, a, b), Lines(t, a, b))
  BY <1>1, <1>2, <1>3, <1>4, <1>6, CalmCalls DEF Queued
<1>12. Queued(Lines(t, a, b), a, o, bd, ph, r, n)
  BY <1>1, <1>2, <1>11, QueuedLike
<1>13. Kept(t, o, m, up2, cl, b) /\ MixedStill(q, o, up, t, o, up2)
  <2>1. Kept(t, o, m, up, cl, b) /\ MixedStill(q, o, up, t, o, up)
    BY <1>1, <1>2, <1>3, <1>4, <1>6, KeptTail DEF Plain
  <2>2. Alike(o, b, o, b) /\ up \subseteq up2
    BY <1>8 DEF Alike
  <2>3. Kept(t, o, m, up2, cl, b) /\ MixedStill(t, o, up, t, o, up2)
    BY <1>2, <2>1, <2>2, KeptStay
  <2> QED
    BY <2>1, <2>3 DEF MixedStill
<1>14. Told(t, w, m, up2, dir2, b)
  <2>1. Call(q[1], "removed", s) /\ Unlisted(dir, dir2, u) /\ u = q[1].user
    BY <1>4, <1>5, <1>7, <1>10 DEF Call, Unlisted
  <2>2. Told(Tail(q), w, m, up2, dir2, b)
    BY <1>1, <1>2, <1>3, <1>5, <1>8, <2>1, ToldRemoved
  <2> QED
    BY <1>6, <2>2
<1>15. Called(t, a, o, bd)
  BY <1>1, <1>2, <1>3, <1>6, CalledTail
<1>16. Attended(t, o, up2, cl, bd, ph, lt, Waiting(Lines(t, a, b)))
  <2>1. Attends(o, cl, bd, ph, lt, Waiting(Lines(q, a, b)), t, o, up2, cl, bd, ph, lt,
                Waiting(Lines(t, a, b)))
    BY <1>11 DEF Attends, Calm
  <2> QED
    BY <1>1, <1>13, <2>1, AttendedStep
<1>17. Types(t, a, o, b, w, m, up2, cl, bd, ph, lt, dir2, r, n)
  BY <1>1, <1>3, <1>6, <1>7, <1>8, <1>10 DEF Types
<1>18. Good(t, a, o, b, w, m, up2, cl, bd, ph, lt, dir2, r, n)
  BY <1>1, <1>12, <1>13, <1>14, <1>15, <1>16, <1>17 DEF Good
<1> QED
  BY <1>9, <1>18, InvAgain DEF Sound

(* The entry of a session that is another user goes to the new id.         *)
LEMMA StepChanged ==
  ASSUME NEW q, NEW a, NEW o, NEW b, NEW w, NEW m, NEW up, NEW cl, NEW bd, NEW ph, NEW lt,
         NEW dir, NEW r, NEW n, Now(q, a, o, b, w, m, up, cl, bd, ph, lt, dir, r, n),
         Good(q, a, o, b, w, m, up, cl, bd, ph, lt, dir, r, n), Sound,
         main # <<>>, HandleChanged(Head(main))
  PROVE  Inv'
<1>1. /\ Types(q, a, o, b, w, m, up, cl, bd, ph, lt, dir, r, n)
      /\ Fits(o, b, w, cl) /\ Called(q, a, o, bd)
      /\ Queued(Lines(q, a, b), a, o, bd, ph, r, n)
      /\ Kept(q, o, m, up, cl, b) /\ Told(q, w, m, up, dir, b)
      /\ Tied(o, bd, ph, b) /\ Attended(q, o, up, cl, bd, ph, lt, Waiting(Lines(q, a, b)))
  BY DEF Good
<1>2. /\ q \in Seq(MainCall) /\ a \in Seq(Ask) /\ o \in [Sess -> Object]
      /\ b \in [Sess -> Seq(SessCall)] /\ w \in [Sess -> Seq(MainCall)]
      /\ m \in [User -> Sess \cup {None, Null}]
      /\ up \in SUBSET User /\ cl \in SUBSET Sess /\ lt \in SUBSET Conn
      /\ bd \in [Conn -> Sess \cup {None}] /\ n \in Nat /\ n <= MaxEvents
  BY <1>1, BoundsAssumption DEF Types
<1>3. q # <<>> /\ Head(q) = q[1] /\ q[1] \in MainCall /\ Tail(q) \in Seq(MainCall)
  BY <1>2, Headed DEF Now
<1>4. q[1].call = "changed"
  BY <1>3 DEF Now, HandleChanged
<1>5. PICK s \in Sess, u \in User, v \in User :
        s = q[1].session /\ u = q[1].user /\ v = q[1].new
  BY <1>3, <1>4, CallFields
<1>6. PICK t : t = Tail(q)
  OBVIOUS
<1>7. PICK m2 : m2 = [m EXCEPT ![u] = None, ![v] = IF m[u] = None THEN Null ELSE m[u]]
  OBVIOUS
<1>8. PICK up2 : up2 = up \cup (IF m[u] # s \/ u \in up THEN {u, v} ELSE {})
                          \cup (IF u # v /\ m[v] # None THEN {v} ELSE {})
  OBVIOUS
<1>9. Then(t, a, o, b, w, m2, up2, cl, bd, ph, lt, dir, r, n) /\ abroad' = abroad
      /\ crashed' = crashed
  BY <1>3, <1>5, <1>6, <1>7, <1>8 DEF Now, Then, HandleChanged, SessionChanged, connections
<1>10. Moved(m, up, m2, up2, s, u, v) /\ m2 \in [User -> Sess \cup {None, Null}]
  BY <1>2, <1>7, <1>8 DEF Moved
<1>11. Calm(Lines(q, a, b), Lines(t, a, b))
  BY <1>1, <1>2, <1>3, <1>4, <1>6, CalmCalls DEF Queued
<1>12. Queued(Lines(t, a, b), a, o, bd, ph, r, n)
  BY <1>1, <1>2, <1>11, QueuedLike
<1>13. Call(q[1], "changed", s)
  BY <1>4, <1>5 DEF Call
<1>14. Kept(t, o, m2, up2, cl, b) /\ MixedStill(q, o, up, t, o, up2)
  BY <1>1, <1>2, <1>3, <1>5, <1>6, <1>10, <1>13, KeptChanged
<1>15. Told(t, w, m2, up2, dir, b)
  BY <1>1, <1>2, <1>3, <1>5, <1>6, <1>10, <1>13, ToldChanged
<1>16. Called(t, a, o, bd)
  BY <1>1, <1>2, <1>3, <1>6, CalledTail
<1>17. Attended(t, o, up2, cl, bd, ph, lt, Waiting(Lines(t, a, b)))
  <2>1. Attends(o, cl, bd, ph, lt, Waiting(Lines(q, a, b)), t, o, up2, cl, bd, ph, lt,
                Waiting(Lines(t, a, b)))
    BY <1>11 DEF Attends, Calm
  <2> QED
    BY <1>1, <1>14, <2>1, AttendedStep
<1>18. Types(t, a, o, b, w, m2, up2, cl, bd, ph, lt, dir, r, n)
  BY <1>1, <1>3, <1>5, <1>6, <1>8, <1>10 DEF Types
<1>19. Good(t, a, o, b, w, m2, up2, cl, bd, ph, lt, dir, r, n)
  BY <1>1, <1>12, <1>14, <1>15, <1>16, <1>17, <1>18 DEF Good
<1> QED
  BY <1>9, <1>19, InvAgain DEF Sound

(* The entry of a session that has closed is removed.                      *)
LEMMA StepClosed ==
  ASSUME NEW q, NEW a, NEW o, NEW b, NEW w, NEW m, NEW up, NEW cl, NEW bd, NEW ph, NEW lt,
         NEW dir, NEW r, NEW n, Now(q, a, o, b, w, m, up, cl, bd, ph, lt, dir, r, n),
         Good(q, a, o, b, w, m, up, cl, bd, ph, lt, dir, r, n), Sound,
         main # <<>>, HandleClosed(Head(main))
  PROVE  Inv'
<1>1. /\ Types(q, a, o, b, w, m, up, cl, bd, ph, lt, dir, r, n)
      /\ Fits(o, b, w, cl) /\ Called(q, a, o, bd)
      /\ Queued(Lines(q, a, b), a, o, bd, ph, r, n)
      /\ Kept(q, o, m, up, cl, b) /\ Told(q, w, m, up, dir, b)
      /\ Tied(o, bd, ph, b) /\ Attended(q, o, up, cl, bd, ph, lt, Waiting(Lines(q, a, b)))
  BY DEF Good
<1>2. /\ q \in Seq(MainCall) /\ a \in Seq(Ask) /\ o \in [Sess -> Object]
      /\ b \in [Sess -> Seq(SessCall)] /\ w \in [Sess -> Seq(MainCall)]
      /\ m \in [User -> Sess \cup {None, Null}]
      /\ up \in SUBSET User /\ cl \in SUBSET Sess /\ lt \in SUBSET Conn
      /\ bd \in [Conn -> Sess \cup {None}] /\ n \in Nat /\ n <= MaxEvents
  BY <1>1, BoundsAssumption DEF Types
<1>3. q # <<>> /\ Head(q) = q[1] /\ q[1] \in MainCall /\ Tail(q) \in Seq(MainCall)
  BY <1>2, Headed DEF Now
<1>4. q[1].call = "closed"
  BY <1>3 DEF Now, HandleClosed
<1>5. PICK s \in Sess, u \in User : s = q[1].session /\ u = q[1].user
  BY <1>3, <1>4, CallFields
<1>6. PICK t : t = Tail(q)
  OBVIOUS
<1>7. PICK m2 : m2 = [m EXCEPT ![u] = None]
  OBVIOUS
<1>8. PICK x : x = [call |-> "delete"]
  OBVIOUS
<1>9. PICK b2 : b2 = IF m[u] \in Alive(o) THEN [b EXCEPT ![m[u]] = Append(b[m[u]], x)] ELSE b
  OBVIOUS
<1>10. x \in SessCall /\ x.call = "delete"
  BY <1>8 DEF SessCall
<1>11. Alive(o) \subseteq Sess
  BY DEF Alive
<1>12. Then(t, a, o, b2, w, m2, up, cl, bd, ph, lt, dir, r, n) /\ abroad' = abroad
       /\ crashed' = (m[u] \notin Alive(o))
  BY <1>3, <1>5, <1>6, <1>7, <1>8, <1>9, <1>11
     DEF Now, Then, HandleClosed, SessionClosed, Live, Alive, connections
<1>13. t \in Seq(MainCall) /\ b2 \in [Sess -> Seq(SessCall)]
  BY <1>2, <1>3, <1>6, <1>9, <1>10, <1>11, Appended
<1>14. Call(q[1], "closed", s)
  BY <1>4, <1>5 DEF Call
<1>15. /\ s \in cl /\ KeptBut(t, o, m, up, cl, b, {s})
       /\ u \in up \/ m[u] = s
       /\ m[u] = s \/ Mixed(t, o, up, s)
       /\ \A i \in 1 .. Len(t) : Call(t[i], "closed", s) => t[i].user \in up
       /\ MixedStill(q, o, up, t, o, up)
  <2>1. s \in Sess /\ Kept(q, o, m, up, cl, b) /\ q \in Seq(MainCall) /\ q # <<>>
        /\ cl \in SUBSET Sess
    BY <1>1, <1>2, <1>3, <1>5
  <2>2. s \in cl /\ KeptBut(Tail(q), o, m, up, cl, b, {s})
    BY <1>14, <2>1, KeptClosed
  <2>3. q[1].user \in up \/ m[q[1].user] = s
    BY <1>14, <2>1, KeptClosed
  <2>4. m[q[1].user] = s \/ Mixed(Tail(q), o, up, s)
    BY <1>14, <2>1, KeptClosed
  <2>5. \A i \in 1 .. Len(Tail(q)) : Call(Tail(q)[i], "closed", s) => Tail(q)[i].user \in up
    BY <1>14, <2>1, KeptClosed
  <2>6. MixedStill(q, o, up, Tail(q), o, up)
    BY <1>14, <2>1, KeptClosed
  <2> QED
    BY <1>5, <1>6, <2>2, <2>3, <2>4, <2>5, <2>6
<1>16. m[u] \in Sess <=> m[u] \in Alive(o)
  BY <1>11, <1>15 DEF KeptBut, Entries, Alive
<1>17. \A y \in Sess : \A c : Has(b2[y], c) <=> Has(b[y], c) \/ (y = m[u] /\ c = "delete")
  <2>1. CASE m[u] \in Alive(o)
    <3>1. m[u] \in Sess
      BY <1>16, <2>1
    <3>2. Gains(b, b2, m[u], x.call)
      BY <1>2, <1>9, <1>10, <2>1, <3>1, HasPush
    <3> QED
      BY <1>10, <3>2 DEF Gains
  <2>2. CASE m[u] \notin Alive(o)
    BY <1>9, <1>16, <2>2
  <2> QED
    BY <2>1, <2>2
<1>18. Removed(m, b, m2, b2, u)
  BY <1>2, <1>7, <1>17 DEF Removed
<1>19. Kept(t, o, m2, up, cl, b2)
  BY <1>5, <1>2, <1>15, <1>18, KeptRemoved
<1>20. Told(t, w, m2, up, dir, b2)
  <2>1. Stays(b, b2)
    BY <1>17 DEF Stays
  <2>2. Was(q, o[s].user, s, 1, u)
    <3>1. Len(q) \in Nat \ {0}
      BY <1>2, <1>3, Headed
    <3>2. Closes(q, o, m, up, cl) /\ 1 \in 1 .. Len(q)
      BY <1>1, <3>1 DEF Kept, KeptBut
    <3> QED
      BY <1>5, <1>14, <3>2 DEF Closes
  <2>3. Only(m, up, s, u)
    <3> SUFFICES ASSUME NEW v \in User \ up, m[v] = s  PROVE v = u
      BY DEF Only
    <3>1. Was(q, o[s].user, s, 1, v)
      BY <1>1, <1>5 DEF Kept, KeptBut, Agreed
    <3> QED
      BY <1>2, <2>2, <3>1, WasOne
  <2> QED
    BY <1>1, <1>2, <1>3, <1>5, <1>6, <1>14, <1>15, <1>18, <2>1, <2>3, ToldClosed
<1>21. Calm(Lines(q, a, b), Lines(t, a, b2))
  <2>1. Calm(Lines(q, a, b), Lines(t, a, b))
    BY <1>1, <1>2, <1>3, <1>4, <1>6, CalmCalls DEF Queued
  <2>2. Single(Lines(t, a, b))
    BY <2>1 DEF Calm
  <2>3. CASE m[u] \in Alive(o)
    <3>1. Calm(Lines(t, a, b), Lines(t, a, b2))
      BY <1>2, <1>9, <1>10, <1>11, <1>13, <2>2, <2>3, CalmBox
    <3> QED
      BY <2>1, <3>1, CalmTwice
  <2>4. CASE m[u] \notin Alive(o)
    BY <1>9, <2>1, <2>4
  <2> QED
    BY <2>3, <2>4
<1>22. Queued(Lines(t, a, b2), a, o, bd, ph, r, n)
  BY <1>1, <1>2, <1>21, QueuedLike
<1>23. Called(t, a, o, bd)
  BY <1>1, <1>2, <1>3, <1>6, CalledTail
<1>24. Fits(o, b2, w, cl)
  <2>1. CASE m[u] \in Alive(o)
    <3>1. m[u] \in Sess /\ o[m[u]].state = "live"
      BY <2>1 DEF Alive
    <3> QED
      BY <1>1, <1>2, <1>9, <1>10, <2>1, <3>1, FitsBox
  <2> QED
    BY <1>1, <1>9, <2>1
<1>25. Tied(o, bd, ph, b2)
  BY <1>1, <1>17, TiedBox
<1>26. Attended(t, o, up, cl, bd, ph, lt, Waiting(Lines(t, a, b2)))
  <2>1. Attends(o, cl, bd, ph, lt, Waiting(Lines(q, a, b)), t, o, up, cl, bd, ph, lt,
                Waiting(Lines(t, a, b2)))
    BY <1>21 DEF Attends, Calm
  <2> QED
    BY <1>1, <1>15, <2>1, AttendedStep
<1>27. Types(t, a, o, b2, w, m2, up, cl, bd, ph, lt, dir, r, n)
  BY <1>1, <1>2, <1>7, <1>13 DEF Types
<1>28. Good(t, a, o, b2, w, m2, up, cl, bd, ph, lt, dir, r, n)
  BY <1>19, <1>20, <1>22, <1>23, <1>24, <1>25, <1>26, <1>27 DEF Good
<1>29. crashed' \in BOOLEAN /\ (crashed' => up # {})
  <2>1. s \in Sess
    BY <1>5
  <2> QED
    BY <1>12, <1>15, <1>16, <2>1
<1> QED
  BY <1>12, <1>28, <1>29, InvAgain DEF Sound

(* A connection whose user is vouched for gets a session of its own.       *)
LEMMA StepToken ==
  ASSUME NEW q, NEW a, NEW o, NEW b, NEW w, NEW m, NEW up, NEW cl, NEW bd, NEW ph, NEW lt,
         NEW dir, NEW r, NEW n, Now(q, a, o, b, w, m, up, cl, bd, ph, lt, dir, r, n),
         Good(q, a, o, b, w, m, up, cl, bd, ph, lt, dir, r, n), Sound,
         main # <<>>, HandleToken(Head(main))
  PROVE  Inv'
<1>1. /\ Types(q, a, o, b, w, m, up, cl, bd, ph, lt, dir, r, n)
      /\ Fits(o, b, w, cl) /\ Called(q, a, o, bd)
      /\ Queued(Lines(q, a, b), a, o, bd, ph, r, n)
      /\ Kept(q, o, m, up, cl, b) /\ Told(q, w, m, up, dir, b)
      /\ Tied(o, bd, ph, b) /\ Attended(q, o, up, cl, bd, ph, lt, Waiting(Lines(q, a, b)))
  BY DEF Good
<1>2. /\ q \in Seq(MainCall) /\ a \in Seq(Ask) /\ o \in [Sess -> Object]
      /\ b \in [Sess -> Seq(SessCall)] /\ w \in [Sess -> Seq(MainCall)]
      /\ m \in [User -> Sess \cup {None, Null}]
      /\ up \in SUBSET User /\ cl \in SUBSET Sess /\ lt \in SUBSET Conn
      /\ bd \in [Conn -> Sess \cup {None}] /\ n \in Nat /\ n <= MaxEvents
  BY <1>1, BoundsAssumption DEF Types
<1>3. q # <<>> /\ Head(q) = q[1] /\ q[1] \in MainCall /\ Tail(q) \in Seq(MainCall)
  BY <1>2, Headed DEF Now
<1>4. q[1].call = "token"
  BY <1>3 DEF Now, HandleToken
<1>5. PICK c \in Conn, u \in User : c = q[1].conn /\ u = q[1].user
  BY <1>3, <1>4, CallFields
<1>6. PICK t : t = Tail(q)
  OBVIOUS
<1>7. PICK l : l = Lines(q, a, b)
  OBVIOUS
<1>8. PICK l2 : l2 = Lines(t, a, b)
  OBVIOUS
<1>9. /\ l \in [Queue -> Seq(Entry)] /\ l[0] = q /\ 0 \in Queue
  BY <1>2, <1>7, LinesAre
<1>10. /\ Single(l) /\ Unbound(Waiting(l), o, bd, ph)
       /\ Sessions(o, Waiting(l), n) /\ Rows(r, Turned(l), a, n)
  BY <1>1, <1>7 DEF Queued
<1>11. \A d : Pass(0, q[1], d) <=> d = c
  BY <1>4, <1>5 DEF Pass
<1>12. /\ Fewer(l, l2) /\ c \in Waiting(l) /\ c \notin Waiting(l2)
       /\ \A d \in Conn : d # c /\ d \in Waiting(l) => d \in Waiting(l2)
  <2>1. Popped(l, l2, 0)
    BY <1>2, <1>3, <1>6, <1>7, <1>8, LinesPop
  <2> QED
    BY <1>9, <1>10, <1>11, <2>1, PoppedSingle DEF Fewer
<1>13. Kept(t, o, m, up, cl, b) /\ MixedStill(q, o, up, t, o, up)
  BY <1>1, <1>2, <1>3, <1>4, <1>6, KeptTail DEF Plain
<1>14. Told(t, w, m, up, dir, b)
  BY <1>1, <1>2, <1>3, <1>4, <1>6, ToldTail
<1>15. Called(t, a, o, bd)
  BY <1>1, <1>2, <1>3, <1>6, CalledTail
<1>16. t \in Seq(MainCall) /\ dir \in [User -> {"none", "here", "elsewhere"}]
       /\ Len(a) \in Nat
  BY <1>1, <1>2, <1>3, <1>6, LenProperties DEF Types
<1>17. CASE ~Open(ph[c])
  <2>1. Then(t, a, o, b, w, m, up, cl, bd, ph, lt, dir, r, n) /\ abroad' = abroad
        /\ crashed' = crashed
    BY <1>3, <1>5, <1>6, <1>17 DEF Now, Then, HandleToken, IsOpen, Open
  <2>2. Queued(l2, a, o, bd, ph, r, n)
    <3>1. Unbound(Waiting(l2), o, bd, ph)
      BY <1>10, <1>12, UnboundStep, Unmoved DEF Fewer
    <3>2. Len(a) + n <= Len(a) + n /\ n <= n
      BY <1>2, <1>16
    <3> QED
      BY <1>1, <1>2, <1>7, <1>12, <3>1, <3>2, QueuedStep, Unmoved
  <2>3. Attended(t, o, up, cl, bd, ph, lt, Waiting(l2))
    <3>1. Attends(o, cl, bd, ph, lt, Waiting(l), t, o, up, cl, bd, ph, lt, Waiting(l2))
      BY <1>12, <1>17 DEF Attends, Open
    <3> QED
      BY <1>1, <1>7, <1>13, <3>1, AttendedStep
  <2>4. Types(t, a, o, b, w, m, up, cl, bd, ph, lt, dir, r, n)
    BY <1>1, <1>16 DEF Types
  <2>5. Good(t, a, o, b, w, m, up, cl, bd, ph, lt, dir, r, n)
    BY <1>1, <1>8, <1>13, <1>14, <1>15, <2>2, <2>3, <2>4 DEF Good
  <2> QED
    BY <2>1, <2>5, InvAgain DEF Sound
<1>18. CASE Open(ph[c])
  <2>1. /\ Waiting(l2) \subseteq Waiting(l) \ {c} /\ Waiting(l2) \subseteq Conn
        /\ Waiting(l) \subseteq Conn
        /\ Turned(l2) \subseteq Turned(l) /\ Turned(l) \subseteq Conn /\ Turned(l2) \subseteq Conn
    BY <1>12 DEF Waiting, Turned, Fewer
  <2>2. /\ Cardinality(Waiting(l2)) + 1 + n <= Cardinality(Waiting(l)) + n
        /\ Cardinality(Turned(l2)) + Len(a) + n <= Cardinality(Turned(l)) + Len(a) + n
    <3>1. Cardinality(Turned(l)) \in Nat /\ Cardinality(Turned(l2)) \in Nat
          /\ Cardinality(Waiting(l)) \in Nat /\ Cardinality(Waiting(l2)) \in Nat
      BY <2>1, Counted
    <3>2. Cardinality(Turned(l2)) <= Cardinality(Turned(l))
      BY <2>1, Counted
    <3>3. Cardinality(Waiting(l2)) + 1 <= Cardinality(Waiting(l))
      BY <1>12, <2>1, Counted
    <3> QED
      BY <1>2, <1>16, <3>1, <3>2, <3>3
  <2>3. PICK f \in Sess : /\ First(o, f)
                          /\ \A o2 : Bears(o, o2, f) => Sessions(o2, Waiting(l2), n)
    BY <1>2, <1>10, <2>1, <2>2, SessionsBirth
  <2>4. Fresh = f
    <3>1. First(session, f)
      BY <2>3 DEF Now
    <3> QED
      BY <3>1, FreshIs
  <2>5. o[f].state = "unborn"
    BY <2>3 DEF First
  <2>6. PICK o2 : o2 = [o EXCEPT ![f] =
            [Unborn EXCEPT !.state = "live", !.user = u, !.conn = c, !.timer = (c = None)]]
    OBVIOUS
  <2>7. PICK m2 : m2 = [m EXCEPT ![u] = f]
    OBVIOUS
  <2>8. PICK up2 : up2 = IF m[u] # None THEN up \cup {u} ELSE up
    OBVIOUS
  <2>9. PICK dir2 : dir2 = [dir EXCEPT ![u] = "here"]
    OBVIOUS
  <2>10. PICK bd2 : bd2 = [bd EXCEPT ![c] = f]
    OBVIOUS
  <2>11. Then(t, a, o2, b, w, m2, up2, cl, bd2, ph, lt, dir2, r, n) /\ abroad' = abroad
         /\ crashed' = crashed
    BY <1>3, <1>5, <1>6, <1>18, <2>4, <2>6, <2>7, <2>8, <2>9, <2>10
       DEF Now, Then, HandleToken, IsOpen, Open, Create, SessionAdded
  <2>12. Creates(o, m, up, dir, o2, m2, up2, dir2, f, u, c)
    BY <1>5, <2>3, <2>5, <2>6, <2>7, <2>8, <2>9 DEF Creates
  <2>13. /\ Kept(t, o2, m2, up2, cl, b) /\ MixedStill(t, o, up, t, o2, up2)
         /\ Told(t, w, m2, up2, dir2, b) /\ Fits(o2, b, w, cl) /\ Called(t, a, o2, bd)
         /\ f \notin cl /\ o2 \in [Sess -> Object] /\ m2 \in [User -> Sess \cup {None, Null}]
         /\ up2 \in SUBSET User /\ dir2 \in [User -> {"none", "here", "elsewhere"}]
         /\ Bears(o, o2, f)
    <3>1. Stands(t, a, o, b, w, m, up, cl, bd, dir)
      BY <1>1, <1>2, <1>13, <1>14, <1>15, <1>16 DEF Stands
    <3>2. /\ Stands(t, a, o2, b, w, m2, up2, cl, bd, dir2)
          /\ MixedStill(t, o, up, t, o2, up2) /\ f \notin cl /\ Bears(o, o2, f)
      BY <2>12, <3>1, Created
    <3> QED
      BY <3>2 DEF Stands
  <2>14. /\ o2[f].state = "live" /\ o2[f].conn = c /\ o2[f].setting = None
         /\ \A s \in Sess \ {f} : o2[s] = o[s]
         /\ bd2[c] = f /\ \A d \in Conn \ {c} : bd2[d] = bd[d]
         /\ bd2 \in [Conn -> Sess \cup {None}]
    BY <1>2, <1>5, <2>6, <2>10 DEF Unborn
  <2>15. /\ bd[c] = None /\ None \notin Conn /\ None \notin Sess
         /\ \A s \in Sess : o[s].setting # c /\ o[s].conn # c
    <3>1. bd[c] = None /\ (\A s \in Sess : o[s].setting # c) /\ None \notin Conn /\ None \notin Sess
      BY <1>10, <1>12 DEF Unbound, None, Conn, Sess
    <3> QED
      BY <1>1, <1>5, <3>1 DEF Tied
  <2>16. Called(t, a, o2, bd2)
    BY <2>13, <2>14 DEF Called
  <2>17. Queued(l2, a, o2, bd2, ph, r, n)
    <3>1. Unbound(Waiting(l2), o2, bd2, ph)
      <4> SUFFICES ASSUME NEW d \in Conn, d \in Waiting(l2) \/ ph[d] = "away"
                   PROVE  bd2[d] = None /\ (\A s \in Sess : o2[s].setting # d)
                          /\ ~(d \in Waiting(l2) /\ ph[d] = "away")
        BY DEF Unbound
      <4>1. d # c
        BY <1>12, <1>18 DEF Open
      <4>2. bd[d] = None /\ (\A s \in Sess : o[s].setting # d) /\ ~(d \in Waiting(l) /\ ph[d] = "away")
        BY <1>10, <2>1 DEF Unbound
      <4> QED
        BY <2>1, <2>14, <2>15, <4>1, <4>2
    <3>2. Rows(r, Turned(l2), a, n)
      BY <1>2, <1>10, <2>1, <2>2, RowsStep, Unmoved
    <3> QED
      BY <1>12, <2>3, <2>13, <3>1, <3>2 DEF Queued, Fewer
  <2>18. Tied(o2, bd2, ph, b)
    <3>1. ASSUME NEW s \in Sess, NEW d \in Conn
          PROVE  /\ o2[s].conn = d => bd2[d] = s /\ (Open(ph[d]) \/ Has(b[s], "clear"))
                 /\ o2[s].setting = d /\ Open(ph[d]) => bd2[d] = s
      <4>1. CASE s = f
        BY <1>18, <2>14, <2>15, <4>1
      <4>2. CASE s # f
        BY <1>1, <2>14, <2>15, <4>2 DEF Tied
      <4> QED
        BY <4>1, <4>2
    <3>2. ASSUME NEW d \in Conn, NEW s \in Sess, bd2[d] = s, o2[s].state = "live",
                 o2[s].home = "main", Open(ph[d])
          PROVE  o2[s].conn = d
      <4>1. CASE d = c
        BY <2>14, <3>2, <4>1
      <4>2. CASE d # c
        <5>1. bd[d] = s /\ s # f
          BY <1>1, <2>5, <2>14, <2>15, <3>2, <4>2 DEF Called
        <5> QED
          BY <1>1, <2>14, <3>2, <5>1 DEF Tied
      <4> QED
        BY <4>1, <4>2
    <3> QED
      BY <3>1, <3>2 DEF Tied
  <2>19. Attended(t, o2, up2, cl, bd2, ph, lt, Waiting(l2))
    <3>1. MixedStill(q, o, up, t, o2, up2)
      BY <1>13, <2>13 DEF MixedStill
    <3>2. Attends(o, cl, bd, ph, lt, Waiting(l), t, o2, up2, cl, bd2, ph, lt, Waiting(l2))
      <4>1. ASSUME NEW d \in Conn, d # c  PROVE bd2[d] = bd[d] /\ (d \in Waiting(l) => d \in Waiting(l2))
        BY <1>12, <2>14, <4>1
      <4>2. Met(o2, cl, bd2, Waiting(l2), c)
        BY <2>13, <2>14 DEF Met
      <4>3. ASSUME NEW s \in Sess, o[s].state = "live"  PROVE o2[s] = o[s]
        BY <2>5, <2>14, <4>3
      <4> QED
        BY <4>1, <4>2, <4>3 DEF Attends
    <3> QED
      BY <1>1, <1>7, <3>1, <3>2, AttendedStep
  <2>20. Types(t, a, o2, b, w, m2, up2, cl, bd2, ph, lt, dir2, r, n)
    BY <1>1, <1>16, <2>13, <2>14 DEF Types
  <2>21. Good(t, a, o2, b, w, m2, up2, cl, bd2, ph, lt, dir2, r, n)
    BY <1>8, <2>13, <2>16, <2>17, <2>18, <2>19, <2>20 DEF Good
  <2> QED
    BY <2>11, <2>21, InvAgain DEF Sound
<1> QED
  BY <1>17, <1>18

-----------------------------------------------------------------------------
(* What comes from outside.                                                *)

Event == events < MaxEvents /\ events' = events + 1

(* A session is transferred from another peer.                             *)
LEMMA StepTransfer ==
  ASSUME NEW q, NEW a, NEW o, NEW b, NEW w, NEW m, NEW up, NEW cl, NEW bd, NEW ph, NEW lt,
         NEW dir, NEW r, NEW n, Now(q, a, o, b, w, m, up, cl, bd, ph, lt, dir, r, n),
         Good(q, a, o, b, w, m, up, cl, bd, ph, lt, dir, r, n), Sound,
         Event, NEW u \in User, TransferSession(u)
  PROVE  Inv'
<1>1. /\ Types(q, a, o, b, w, m, up, cl, bd, ph, lt, dir, r, n)
      /\ Fits(o, b, w, cl) /\ Called(q, a, o, bd)
      /\ Queued(Lines(q, a, b), a, o, bd, ph, r, n)
      /\ Kept(q, o, m, up, cl, b) /\ Told(q, w, m, up, dir, b)
      /\ Tied(o, bd, ph, b) /\ Attended(q, o, up, cl, bd, ph, lt, Waiting(Lines(q, a, b)))
  BY DEF Good
<1>2. /\ q \in Seq(MainCall) /\ a \in Seq(Ask) /\ o \in [Sess -> Object]
      /\ b \in [Sess -> Seq(SessCall)] /\ w \in [Sess -> Seq(MainCall)]
      /\ m \in [User -> Sess \cup {None, Null}]
      /\ up \in SUBSET User /\ cl \in SUBSET Sess /\ lt \in SUBSET Conn
      /\ bd \in [Conn -> Sess \cup {None}] /\ n \in Nat /\ n <= MaxEvents
  BY <1>1, BoundsAssumption DEF Types
<1>3. n < MaxEvents /\ n + 1 \in Nat /\ MaxEvents \in Nat /\ Len(a) \in Nat
  BY <1>2, BoundsAssumption, LenProperties DEF Event, Now
<1>4. PICK l : l = Lines(q, a, b)
  OBVIOUS
<1>5. PICK n2 : n2 = n + 1
  OBVIOUS
<1>6. /\ Single(l) /\ Unbound(Waiting(l), o, bd, ph)
      /\ Sessions(o, Waiting(l), n) /\ Rows(r, Turned(l), a, n)
  BY <1>1, <1>4 DEF Queued
<1>7. /\ Waiting(l) \in SUBSET Conn /\ Turned(l) \in SUBSET Conn
      /\ Cardinality(Waiting(l)) + 1 + n <= Cardinality(Waiting(l)) + n2
      /\ Cardinality(Turned(l)) + Len(a) + n <= Cardinality(Turned(l)) + Len(a) + n2
      /\ n2 \in Nat /\ n2 <= MaxEvents
  <2>1. Waiting(l) \in SUBSET Conn /\ Turned(l) \in SUBSET Conn
    BY DEF Waiting, Turned
  <2>2. Cardinality(Waiting(l)) \in Nat /\ Cardinality(Turned(l)) \in Nat
    BY <2>1, Counted
  <2> QED
    BY <1>2, <1>3, <1>5, <2>1, <2>2
<1>8. PICK f \in Sess : /\ First(o, f)
                        /\ \A o2 : Bears(o, o2, f) => Sessions(o2, Waiting(l), n2)
  BY <1>2, <1>6, <1>7, SessionsBirth
<1>9. Fresh = f
  <2>1. First(session, f)
    BY <1>8 DEF Now
  <2> QED
    BY <2>1, FreshIs
<1>10. o[f].state = "unborn"
  BY <1>8 DEF First
<1>11. PICK o2 : o2 = [o EXCEPT ![f] =
            [Unborn EXCEPT !.state = "live", !.user = u, !.conn = None, !.timer = (None = None)]]
  OBVIOUS
<1>12. PICK m2 : m2 = [m EXCEPT ![u] = f]
  OBVIOUS
<1>13. PICK up2 : up2 = IF m[u] # None THEN up \cup {u} ELSE up
  OBVIOUS
<1>14. PICK dir2 : dir2 = [dir EXCEPT ![u] = "here"]
  OBVIOUS
<1>15. Then(q, a, o2, b, w, m2, up2, cl, bd, ph, lt, dir2, r, n2) /\ abroad' = abroad
       /\ crashed' = crashed
  BY <1>5, <1>9, <1>11, <1>12, <1>13, <1>14
     DEF Now, Then, TransferSession, Create, SessionAdded, Event, connections
<1>16. Creates(o, m, up, dir, o2, m2, up2, dir2, f, u, None)
  BY <1>8, <1>10, <1>11, <1>12, <1>13, <1>14 DEF Creates
<1>17. Stands(q, a, o, b, w, m, up, cl, bd, dir)
  BY <1>1 DEF Stands, Types
<1>18. /\ Stands(q, a, o2, b, w, m2, up2, cl, bd, dir2)
       /\ MixedStill(q, o, up, q, o2, up2) /\ f \notin cl /\ Bears(o, o2, f)
  BY <1>16, <1>17, Created
<1>19. /\ o2[f].conn = None /\ o2[f].setting = None /\ \A s \in Sess \ {f} : o2[s] = o[s]
       /\ None \notin Conn /\ None \notin Sess
  BY <1>2, <1>8, <1>11 DEF Unborn, Conn, Sess, None
<1>20. Queued(l, a, o2, bd, ph, r, n2)
  <2>1. Unbound(Waiting(l), o2, bd, ph)
    BY <1>6, <1>19 DEF Unbound
  <2>2. Kin(r, r)
    BY DEF Kin
  <2>3. Rows(r, Turned(l), a, n2)
    BY <1>2, <1>6, <1>7, <2>2, RowsStep
  <2> QED
    BY <1>6, <1>8, <1>18, <2>1, <2>3 DEF Queued
<1>21. Tied(o2, bd, ph, b)
  <2>1. ASSUME NEW s \in Sess, NEW d \in Conn
        PROVE  /\ o2[s].conn = d => bd[d] = s /\ (Open(ph[d]) \/ Has(b[s], "clear"))
               /\ o2[s].setting = d /\ Open(ph[d]) => bd[d] = s
    BY <1>1, <1>19 DEF Tied
  <2>2. ASSUME NEW d \in Conn, NEW s \in Sess, bd[d] = s, o2[s].state = "live",
               o2[s].home = "main", Open(ph[d])
        PROVE  o2[s].conn = d
    <3>1. s # f
      BY <1>1, <1>10, <1>19, <2>2 DEF Called
    <3> QED
      BY <1>1, <1>19, <2>2, <3>1 DEF Tied
  <2> QED
    BY <2>1, <2>2 DEF Tied
<1>22. Attended(q, o2, up2, cl, bd, ph, lt, Waiting(l))
  <2>1. Attends(o, cl, bd, ph, lt, Waiting(l), q, o2, up2, cl, bd, ph, lt, Waiting(l))
    <3>1. ASSUME NEW s \in Sess, o[s].state = "live"  PROVE o2[s] = o[s]
      BY <1>10, <1>19, <3>1
    <3> QED
      BY <3>1 DEF Attends
  <2> QED
    BY <1>1, <1>4, <1>18, <2>1, AttendedStep
<1>23. Types(q, a, o2, b, w, m2, up2, cl, bd, ph, lt, dir2, r, n2)
  BY <1>1, <1>7, <1>18, BoundsAssumption DEF Types, Stands
<1>24. Good(q, a, o2, b, w, m2, up2, cl, bd, ph, lt, dir2, r, n2)
  BY <1>4, <1>18, <1>20, <1>21, <1>22, <1>23 DEF Good, Stands
<1> QED
  BY <1>15, <1>24, InvAgain DEF Sound

(* A session of another peer is gone.                                      *)
LEMMA StepElsewhereEnds ==
  ASSUME NEW q, NEW a, NEW o, NEW b, NEW w, NEW m, NEW up, NEW cl, NEW bd, NEW ph, NEW lt,
         NEW dir, NEW r, NEW n, Now(q, a, o, b, w, m, up, cl, bd, ph, lt, dir, r, n),
         Good(q, a, o, b, w, m, up, cl, bd, ph, lt, dir, r, n), Sound,
         NEW u \in User, RemovedElsewhere(u)
  PROVE  Inv'
<1>1. /\ Types(q, a, o, b, w, m, up, cl, bd, ph, lt, dir, r, n)
      /\ Fits(o, b, w, cl) /\ Called(q, a, o, bd)
      /\ Queued(Lines(q, a, b), a, o, bd, ph, r, n)
      /\ Kept(q, o, m, up, cl, b) /\ Told(q, w, m, up, dir, b)
      /\ Tied(o, bd, ph, b) /\ Attended(q, o, up, cl, bd, ph, lt, Waiting(Lines(q, a, b)))
  BY DEF Good
<1>2. /\ q \in Seq(MainCall) /\ a \in Seq(Ask) /\ o \in [Sess -> Object]
      /\ b \in [Sess -> Seq(SessCall)] /\ w \in [Sess -> Seq(MainCall)]
      /\ m \in [User -> Sess \cup {None, Null}]
      /\ up \in SUBSET User /\ cl \in SUBSET Sess /\ lt \in SUBSET Conn
      /\ bd \in [Conn -> Sess \cup {None}] /\ n \in Nat /\ n <= MaxEvents
  BY <1>1, BoundsAssumption DEF Types
<1>3. PICK dir2 : dir2 = [dir EXCEPT ![u] = IF @ = "elsewhere" THEN "none" ELSE @]
  OBVIOUS
<1>4. Then(q, a, o, b, w, m, up, cl, bd, ph, lt, dir2, r, n) /\ abroad' \subseteq abroad
      /\ crashed' = crashed
  BY <1>3 DEF Now, Then, RemovedElsewhere, connections
<1>5. dir \in [User -> {"none", "here", "elsewhere"}]
  BY <1>1 DEF Types
<1>6. Told(q, w, m, up, dir2, b)
  <2>1. StillFound(q, w, m, m, up)
    BY DEF StillFound
  <2>2. \A v \in User : dir2[v] = "here" <=> dir[v] = "here"
    BY <1>3, <1>5
  <2>3. StillListed(m, dir, b, m, dir2, b, up)
    BY <2>2 DEF StillListed
  <2> QED
    BY <1>1, <1>2, <2>1, <2>3, ToldStill
<1>7. Types(q, a, o, b, w, m, up, cl, bd, ph, lt, dir2, r, n)
  BY <1>1, <1>3, <1>5 DEF Types
<1>8. Good(q, a, o, b, w, m, up, cl, bd, ph, lt, dir2, r, n)
  BY <1>1, <1>6, <1>7 DEF Good
<1> QED
  BY <1>4, <1>8, InvAgain DEF Sound

(* A user asks to log on or off.                                           *)
LEMMA StepLog ==
  ASSUME NEW q, NEW a, NEW o, NEW b, NEW w, NEW m, NEW up, NEW cl, NEW bd, NEW ph, NEW lt,
         NEW dir, NEW r, NEW n, Now(q, a, o, b, w, m, up, cl, bd, ph, lt, dir, r, n),
         Good(q, a, o, b, w, m, up, cl, bd, ph, lt, dir, r, n), Sound,
         Event, NEW s \in Sess, Log(s)
  PROVE  Inv'
<1>1. /\ Types(q, a, o, b, w, m, up, cl, bd, ph, lt, dir, r, n)
      /\ Fits(o, b, w, cl) /\ Called(q, a, o, bd)
      /\ Queued(Lines(q, a, b), a, o, bd, ph, r, n)
      /\ Kept(q, o, m, up, cl, b) /\ Told(q, w, m, up, dir, b)
      /\ Tied(o, bd, ph, b) /\ Attended(q, o, up, cl, bd, ph, lt, Waiting(Lines(q, a, b)))
  BY DEF Good
<1>2. /\ q \in Seq(MainCall) /\ a \in Seq(Ask) /\ o \in [Sess -> Object]
      /\ b \in [Sess -> Seq(SessCall)] /\ w \in [Sess -> Seq(MainCall)]
      /\ m \in [User -> Sess \cup {None, Null}]
      /\ up \in SUBSET User /\ cl \in SUBSET Sess /\ lt \in SUBSET Conn
      /\ bd \in [Conn -> Sess \cup {None}] /\ n \in Nat /\ n <= MaxEvents
  BY <1>1, BoundsAssumption DEF Types
<1>3. n < MaxEvents /\ n + 1 \in Nat /\ MaxEvents \in Nat /\ Len(a) \in Nat
  BY <1>2, BoundsAssumption, LenProperties DEF Event, Now
<1>4. PICK x : x = [ask |-> "log", session |-> s, user |-> o[s].user]
  OBVIOUS
<1>5. PICK a2 : a2 = Append(a, x)
  OBVIOUS
<1>6. PICK n2 : n2 = n + 1
  OBVIOUS
<1>7. o[s].state = "live"
  BY DEF Log, Idle, Live, Now
<1>8. Then(q, a2, o, b, w, m, up, cl, bd, ph, lt, dir, r, n2) /\ abroad' = abroad
      /\ crashed' = crashed
  BY <1>4, <1>5, <1>6 DEF Now, Then, Log, Event, connections
<1>9. x \in Ask /\ x.ask = "log" /\ x.session = s
  <2>1. o[s].user \in User
    BY <1>1, <1>7 DEF Fits, Fit
  <2> QED
    BY <1>4, <2>1 DEF Ask
<1>10. a2 \in Seq(Ask) /\ Len(a2) = Len(a) + 1
  BY <1>2, <1>5, <1>9, Appended
<1>11. Calm(Lines(q, a, b), Lines(q, a2, b))
  <2>1. Lines(q, a, b) \in [Queue -> Seq(Entry)] /\ -1 \in Queue
    BY <1>2, LinesAre
  <2>2. Pushed(Lines(q, a, b), Lines(q, a2, b), -1, x)
    BY <1>2, <1>5, LinesPush
  <2>3. (\A c \in Conn : ~Pass(-1, x, c)) /\ x \in Entry
    BY <1>9 DEF Pass, Entry
  <2> QED
    BY <1>1, <2>1, <2>2, <2>3, CalmPush DEF Queued
<1>12. Queued(Lines(q, a2, b), a2, o, bd, ph, r, n2)
  <2>1. Len(a2) + n <= Len(a) + n2 /\ n <= n2 /\ n2 \in Nat
    BY <1>2, <1>3, <1>6, <1>10
  <2> QED
    BY <1>1, <1>2, <1>10, <1>11, <2>1, QueuedCalm, Unmoved
<1>13. Called(q, a2, o, bd)
  BY <1>1, <1>2, <1>5, <1>7, <1>9, CalledAsk
<1>14. Attended(q, o, up, cl, bd, ph, lt, Waiting(Lines(q, a2, b)))
  BY <1>1, <1>11 DEF Calm
<1>15. Types(q, a2, o, b, w, m, up, cl, bd, ph, lt, dir, r, n2)
  BY <1>1, <1>3, <1>6, <1>10 DEF Types
<1>16. Good(q, a2, o, b, w, m, up, cl, bd, ph, lt, dir, r, n2)
  BY <1>1, <1>12, <1>13, <1>14, <1>15 DEF Good
<1> QED
  BY <1>8, <1>16, InvAgain DEF Sound

-----------------------------------------------------------------------------
(* What sessions do.                                                       *)

(* A session moves to the thread of an instance.                           *)
LEMMA StepEnter ==
  ASSUME NEW q, NEW a, NEW o, NEW b, NEW w, NEW m, NEW up, NEW cl, NEW bd, NEW ph, NEW lt,
         NEW dir, NEW r, NEW n, Now(q, a, o, b, w, m, up, cl, bd, ph, lt, dir, r, n),
         Good(q, a, o, b, w, m, up, cl, bd, ph, lt, dir, r, n), Sound,
         NEW s \in Sess, Enter(s)
  PROVE  Inv'
<1>1. /\ Types(q, a, o, b, w, m, up, cl, bd, ph, lt, dir, r, n)
      /\ Fits(o, b, w, cl) /\ Called(q, a, o, bd)
      /\ Queued(Lines(q, a, b), a, o, bd, ph, r, n)
      /\ Kept(q, o, m, up, cl, b) /\ Told(q, w, m, up, dir, b)
      /\ Tied(o, bd, ph, b) /\ Attended(q, o, up, cl, bd, ph, lt, Waiting(Lines(q, a, b)))
  BY DEF Good
<1>2. /\ q \in Seq(MainCall) /\ a \in Seq(Ask) /\ o \in [Sess -> Object]
      /\ b \in [Sess -> Seq(SessCall)] /\ w \in [Sess -> Seq(MainCall)]
      /\ m \in [User -> Sess \cup {None, Null}]
      /\ up \in SUBSET User /\ cl \in SUBSET Sess /\ lt \in SUBSET Conn
      /\ bd \in [Conn -> Sess \cup {None}] /\ n \in Nat /\ n <= MaxEvents
  BY <1>1, BoundsAssumption DEF Types
<1>3. PICK o2 : o2 = [o EXCEPT ![s].home = "scene"]
  OBVIOUS
<1>4. Then(q, a, o2, b, w, m, up, cl, bd, ph, lt, dir, r, n) /\ abroad' = abroad
      /\ crashed' = crashed
  BY <1>3 DEF Now, Then, Enter, connections
<1>5. o[s].state = "live" /\ o[s].home = "main"
  BY DEF Enter, Live, InMain, Now
<1>6. /\ o2 \in [Sess -> Object] /\ \A t \in Sess \ {s} : o2[t] = o[t]
      /\ o2[s].state = "live" /\ o2[s].home = "scene" /\ o2[s].user = o[s].user
      /\ o2[s].conn = o[s].conn /\ o2[s].timer = o[s].timer /\ o2[s].setting = o[s].setting
  BY <1>2, <1>3, <1>5 DEF Object
<1>7. Stands(q, a, o, b, w, m, up, cl, bd, dir)
  BY <1>1 DEF Stands, Types
<1>8. Rests(o, b, o2, b, w, cl)
  <2>1. Alike(o, b, o2, b) /\ Older(o, o2) /\ Stays(b, b)
    BY <1>5, <1>6 DEF Alike, Older, Stays
  <2>2. Fits(o2, b, w, cl)
    <3> SUFFICES ASSUME NEW t \in Sess  PROVE Fit(o2[t], b[t], w[t], t \in cl)
      BY DEF Fits
    <3>1. Fit(o[t], b[t], w[t], t \in cl)
      BY <1>1 DEF Fits
    <3>2. CASE t = s
      BY <1>5, <1>6, <3>1, <3>2 DEF Fit
    <3>3. CASE t # s
      BY <1>6, <3>1, <3>3
    <3> QED
      BY <3>2, <3>3
  <2> QED
    BY <1>2, <1>6, <2>1, <2>2 DEF Rests
<1>9. /\ Stands(q, a, o2, b, w, m, up, cl, bd, dir) /\ MixedStill(q, o, up, q, o2, up)
      /\ Born(o, o2)
  BY <1>7, <1>8, Rested
<1>10. Queued(Lines(q, a, b), a, o2, bd, ph, r, n)
  <2>1. SameBound(o, bd, ph, o2, bd, ph) /\ Kin(r, r) /\ Calm(Lines(q, a, b), Lines(q, a, b))
        /\ Len(a) \in Nat
    BY <1>1, <1>2, <1>6, LenProperties DEF SameBound, Kin, Calm, Queued
  <2>2. Len(a) + n <= Len(a) + n /\ n <= n
    BY <1>2, <2>1
  <2> QED
    BY <1>1, <1>2, <1>9, <2>1, <2>2, QueuedCalm
<1>11. Tied(o2, bd, ph, b)
  <2>1. \A t \in Sess : o2[t].conn = o[t].conn /\ o2[t].setting = o[t].setting
    BY <1>6
  <2>2. \A t \in Sess : o2[t].home = "main" => o2[t] = o[t]
    BY <1>6
  <2> QED
    BY <1>1, <2>1, <2>2 DEF Tied
<1>12. Attended(q, o2, up, cl, bd, ph, lt, Waiting(Lines(q, a, b)))
  <2>1. \A t \in Sess : o2[t].conn = o[t].conn /\ o2[t].setting = o[t].setting
                        /\ o2[t].state = o[t].state
    BY <1>5, <1>6
  <2>2. Attends(o, cl, bd, ph, lt, Waiting(Lines(q, a, b)), q, o2, up, cl, bd, ph, lt,
                Waiting(Lines(q, a, b)))
    BY <2>1 DEF Attends
  <2> QED
    BY <1>1, <1>9, <2>2, AttendedStep
<1>13. Types(q, a, o2, b, w, m, up, cl, bd, ph, lt, dir, r, n)
  BY <1>1, <1>6 DEF Types
<1>14. Good(q, a, o2, b, w, m, up, cl, bd, ph, lt, dir, r, n)
  BY <1>9, <1>10, <1>11, <1>12, <1>13 DEF Good, Stands
<1> QED
  BY <1>4, <1>14, InvAgain DEF Sound

(* The rest of Session::setConnection.                                     *)
LEMMA StepSetting ==
  ASSUME NEW q, NEW a, NEW o, NEW b, NEW w, NEW m, NEW up, NEW cl, NEW bd, NEW ph, NEW lt,
         NEW dir, NEW r, NEW n, Now(q, a, o, b, w, m, up, cl, bd, ph, lt, dir, r, n),
         Good(q, a, o, b, w, m, up, cl, bd, ph, lt, dir, r, n), Sound,
         NEW s \in Sess, FinishSetting(s)
  PROVE  Inv'
<1>1. /\ Types(q, a, o, b, w, m, up, cl, bd, ph, lt, dir, r, n)
      /\ Fits(o, b, w, cl) /\ Called(q, a, o, bd)
      /\ Queued(Lines(q, a, b), a, o, bd, ph, r, n)
      /\ Kept(q, o, m, up, cl, b) /\ Told(q, w, m, up, dir, b)
      /\ Tied(o, bd, ph, b) /\ Attended(q, o, up, cl, bd, ph, lt, Waiting(Lines(q, a, b)))
  BY DEF Good
<1>2. /\ q \in Seq(MainCall) /\ a \in Seq(Ask) /\ o \in [Sess -> Object]
      /\ b \in [Sess -> Seq(SessCall)] /\ w \in [Sess -> Seq(MainCall)]
      /\ m \in [User -> Sess \cup {None, Null}]
      /\ up \in SUBSET User /\ cl \in SUBSET Sess /\ lt \in SUBSET Conn
      /\ bd \in [Conn -> Sess \cup {None}] /\ n \in Nat /\ n <= MaxEvents
  BY <1>1, BoundsAssumption DEF Types
<1>3. PICK c \in Conn : c = o[s].setting
  BY <1>2 DEF FinishSetting, Now, Object
<1>4. PICK o2 : o2 = [o EXCEPT ![s] =
        IF Open(ph[c]) THEN [o[s] EXCEPT !.conn = c, !.timer = FALSE, !.setting = None]
        ELSE [o[s] EXCEPT !.setting = None]]
  OBVIOUS
<1>5. Then(q, a, o2, b, w, m, up, cl, bd, ph, lt, dir, r, n) /\ abroad' = abroad
      /\ crashed' = crashed
  <2>1. \A x \in Object : [[x EXCEPT !.conn = c, !.timer = FALSE] EXCEPT !.setting = None]
                            = [x EXCEPT !.conn = c, !.timer = FALSE, !.setting = None]
    BY DEF Object
  <2>2. session' = o2
    BY <1>2, <1>3, <1>4, <2>1 DEF Now, FinishSetting, Connected, IsOpen, Open
  <2> QED
    BY <2>2 DEF Now, Then, FinishSetting, connections
<1>6. None \notin Conn /\ c # None
  BY <1>3 DEF None, Conn
<1>7. Fit(o[s], b[s], w[s], s \in cl)
  BY <1>1 DEF Fits
<1>8. o[s].state = "live" /\ o[s].home = "scene" /\ o[s].conn = None /\ o[s].timer
  BY <1>3, <1>6, <1>7 DEF Fit
<1>9. /\ o2 \in [Sess -> Object] /\ \A t \in Sess \ {s} : o2[t] = o[t]
      /\ o2[s].state = "live" /\ o2[s].home = "scene" /\ o2[s].user = o[s].user
      /\ o2[s].setting = None
      /\ IF Open(ph[c]) THEN o2[s].conn = c /\ o2[s].timer = FALSE
         ELSE o2[s].conn = None /\ o2[s].timer
  <2>1. CASE Open(ph[c])
    <3>1. PICK x : x = [o[s] EXCEPT !.conn = c, !.timer = FALSE, !.setting = None]
      OBVIOUS
    <3>2. o2 = [o EXCEPT ![s] = x]
      BY <1>4, <2>1, <3>1
    <3>3. o[s] \in Object
      BY <1>2
    <3>4. /\ x \in Object /\ x.state = "live" /\ x.home = "scene" /\ x.user = o[s].user
          /\ x.setting = None /\ x.conn = c /\ x.timer = FALSE
      BY <1>3, <1>8, <3>1, <3>3 DEF Object
    <3> QED
      BY <1>2, <2>1, <3>2, <3>4
  <2>2. CASE ~Open(ph[c])
    <3>1. o2 = [o EXCEPT ![s] = [o[s] EXCEPT !.setting = None]]
      BY <1>4, <2>2
    <3> QED
      BY <1>2, <1>3, <1>8, <2>2, <3>1 DEF Object
  <2> QED
    BY <2>1, <2>2
<1>10. Stands(q, a, o, b, w, m, up, cl, bd, dir)
  BY <1>1 DEF Stands, Types
<1>11. Rests(o, b, o2, b, w, cl)
  <2>1. Alike(o, b, o2, b) /\ Older(o, o2) /\ Stays(b, b)
    BY <1>8, <1>9 DEF Alike, Older, Stays
  <2>2. Fits(o2, b, w, cl)
    <3> SUFFICES ASSUME NEW t \in Sess  PROVE Fit(o2[t], b[t], w[t], t \in cl)
      BY DEF Fits
    <3>1. CASE t = s
      BY <1>6, <1>7, <1>8, <1>9, <3>1 DEF Fit
    <3>2. CASE t # s
      BY <1>1, <1>9, <3>2 DEF Fits
    <3> QED
      BY <3>1, <3>2
  <2> QED
    BY <1>2, <1>9, <2>1, <2>2 DEF Rests
<1>12. /\ Stands(q, a, o2, b, w, m, up, cl, bd, dir) /\ MixedStill(q, o, up, q, o2, up)
       /\ Born(o, o2)
  BY <1>10, <1>11, Rested
<1>13. Queued(Lines(q, a, b), a, o2, bd, ph, r, n)
  <2>1. SameBound(o, bd, ph, o2, bd, ph) /\ Kin(r, r) /\ Calm(Lines(q, a, b), Lines(q, a, b))
        /\ Len(a) \in Nat
    BY <1>1, <1>2, <1>6, <1>9, LenProperties DEF SameBound, Kin, Calm, Queued
  <2>2. Len(a) + n <= Len(a) + n /\ n <= n
    BY <1>2, <2>1
  <2> QED
    BY <1>1, <1>2, <1>12, <2>1, <2>2, QueuedCalm
<1>14. Tied(o2, bd, ph, b)
  <2>1. Open(ph[c]) => bd[c] = s
    BY <1>1, <1>3 DEF Tied
  <2>2. ASSUME NEW t \in Sess, NEW d \in Conn
        PROVE  /\ o2[t].conn = d => bd[d] = t /\ (Open(ph[d]) \/ Has(b[t], "clear"))
               /\ o2[t].setting = d /\ Open(ph[d]) => bd[d] = t
    <3>1. CASE t = s
      BY <1>6, <1>9, <2>1, <3>1
    <3>2. CASE t # s
      BY <1>1, <1>9, <3>2 DEF Tied
    <3> QED
      BY <3>1, <3>2
  <2>3. \A t \in Sess : o2[t].home = "main" => o2[t] = o[t]
    BY <1>9
  <2> QED
    BY <1>1, <2>2, <2>3 DEF Tied
<1>15. Attended(q, o2, up, cl, bd, ph, lt, Waiting(Lines(q, a, b)))
  <2>1. ASSUME NEW t \in Sess, NEW d \in Conn, ph[d] = "open", o[t].conn = d \/ o[t].setting = d
        PROVE  (o2[t].conn = d \/ o2[t].setting = d) /\ o2[t].state = o[t].state
    BY <1>3, <1>6, <1>8, <1>9, <2>1 DEF Open
  <2>2. Attends(o, cl, bd, ph, lt, Waiting(Lines(q, a, b)), q, o2, up, cl, bd, ph, lt,
                Waiting(Lines(q, a, b)))
    BY <2>1 DEF Attends
  <2> QED
    BY <1>1, <1>12, <2>2, AttendedStep
<1>16. Types(q, a, o2, b, w, m, up, cl, bd, ph, lt, dir, r, n)
  BY <1>1, <1>9 DEF Types
<1>17. Good(q, a, o2, b, w, m, up, cl, bd, ph, lt, dir, r, n)
  BY <1>12, <1>13, <1>14, <1>15, <1>16 DEF Good, Stands
<1> QED
  BY <1>5, <1>17, InvAgain DEF Sound

(* The next call of several to the main thread.                            *)
LEMMA StepTell ==
  ASSUME NEW q, NEW a, NEW o, NEW b, NEW w, NEW m, NEW up, NEW cl, NEW bd, NEW ph, NEW lt,
         NEW dir, NEW r, NEW n, Now(q, a, o, b, w, m, up, cl, bd, ph, lt, dir, r, n),
         Good(q, a, o, b, w, m, up, cl, bd, ph, lt, dir, r, n), Sound,
         NEW s \in Sess, Tell(s)
  PROVE  Inv'
<1>1. /\ Types(q, a, o, b, w, m, up, cl, bd, ph, lt, dir, r, n)
      /\ Fits(o, b, w, cl) /\ Called(q, a, o, bd)
      /\ Queued(Lines(q, a, b), a, o, bd, ph, r, n)
      /\ Kept(q, o, m, up, cl, b) /\ Told(q, w, m, up, dir, b)
      /\ Tied(o, bd, ph, b) /\ Attended(q, o, up, cl, bd, ph, lt, Waiting(Lines(q, a, b)))
  BY DEF Good
<1>2. /\ q \in Seq(MainCall) /\ a \in Seq(Ask) /\ o \in [Sess -> Object]
      /\ b \in [Sess -> Seq(SessCall)] /\ w \in [Sess -> Seq(MainCall)]
      /\ m \in [User -> Sess \cup {None, Null}]
      /\ up \in SUBSET User /\ cl \in SUBSET Sess /\ lt \in SUBSET Conn
      /\ bd \in [Conn -> Sess \cup {None}] /\ n \in Nat /\ n <= MaxEvents
  BY <1>1, BoundsAssumption DEF Types
<1>3. w[s] # <<>> /\ w[s] \in Seq(MainCall)
  BY <1>2 DEF Tell, Now
<1>4. PICK x : x = Head(w[s])
  OBVIOUS
<1>5. PICK q2 : q2 = Append(q, x)
  OBVIOUS
<1>6. PICK w2 : w2 = [w EXCEPT ![s] = Tail(w[s])]
  OBVIOUS
<1>7. Then(q2, a, o, b, w2, m, up, cl, bd, ph, lt, dir, r, n) /\ abroad' = abroad
      /\ crashed' = crashed
  BY <1>4, <1>5, <1>6 DEF Now, Then, Tell, TellMain, connections
<1>8. w2 \in [Sess -> Seq(MainCall)] /\ Passes(w, w2, s)
  BY <1>2, <1>3, <1>6, Headed DEF Passes
<1>9. /\ x \in MainCall /\ Plain(x) /\ x.call \in {"removed", "added"} /\ x.session = s
      /\ Told(q2, w2, m, up, dir, b)
  <2>1. /\ Head(w[s]) \in MainCall /\ Plain(Head(w[s]))
        /\ Head(w[s]).call \in {"removed", "added"} /\ Head(w[s]).session = s
        /\ Told(Append(q, Head(w[s])), w2, m, up, dir, b)
    BY <1>1, <1>2, <1>8, ToldPasses
  <2> QED
    BY <1>4, <1>5, <2>1
<1>10. q2 \in Seq(MainCall)
  BY <1>2, <1>5, <1>9, Appended
<1>11. Kept(q2, o, m, up, cl, b) /\ MixedStill(q, o, up, q2, o, up)
  BY <1>1, <1>2, <1>5, <1>9, KeptMore
<1>12. Fit(o[s], b[s], w[s], s \in cl)
  BY <1>1 DEF Fits
<1>13. o[s].home = "scene" /\ o[s].state # "unborn"
  <2>1. o[s].home \in {"main", "scene"}
    BY <1>2 DEF Object
  <2> QED
    BY <1>3, <1>12, <2>1 DEF Fit
<1>14. Fits(o, b, w2, cl)
  <2> SUFFICES ASSUME NEW t \in Sess  PROVE Fit(o[t], b[t], w2[t], t \in cl)
    BY DEF Fits
  <2>1. CASE t = s
    BY <1>12, <1>13, <2>1 DEF Fit
  <2>2. CASE t # s
    BY <1>1, <1>8, <2>2 DEF Fits, Passes
  <2> QED
    BY <2>1, <2>2
<1>15. Called(q2, a, o, bd)
  BY <1>1, <1>2, <1>5, <1>9, <1>13, CalledMore
<1>16. Calm(Lines(q, a, b), Lines(q2, a, b))
  BY <1>1, <1>2, <1>5, <1>9, CalmCalls DEF Queued
<1>17. Queued(Lines(q2, a, b), a, o, bd, ph, r, n)
  BY <1>1, <1>2, <1>16, QueuedLike
<1>18. Attended(q2, o, up, cl, bd, ph, lt, Waiting(Lines(q2, a, b)))
  <2>1. Attends(o, cl, bd, ph, lt, Waiting(Lines(q, a, b)), q2, o, up, cl, bd, ph, lt,
                Waiting(Lines(q2, a, b)))
    BY <1>16 DEF Attends, Calm
  <2> QED
    BY <1>1, <1>11, <2>1, AttendedStep
<1>19. Types(q2, a, o, b, w2, m, up, cl, bd, ph, lt, dir, r, n)
  BY <1>1, <1>8, <1>10 DEF Types
<1>20. Good(q2, a, o, b, w2, m, up, cl, bd, ph, lt, dir, r, n)
  BY <1>1, <1>9, <1>11, <1>14, <1>15, <1>17, <1>18, <1>19 DEF Good
<1> QED
  BY <1>7, <1>20, InvAgain DEF Sound

(* A session that has been without a connection for too long.              *)
LEMMA StepTimeOut ==
  ASSUME NEW q, NEW a, NEW o, NEW b, NEW w, NEW m, NEW up, NEW cl, NEW bd, NEW ph, NEW lt,
         NEW dir, NEW r, NEW n, Now(q, a, o, b, w, m, up, cl, bd, ph, lt, dir, r, n),
         Good(q, a, o, b, w, m, up, cl, bd, ph, lt, dir, r, n), Sound,
         NEW s \in Sess, TimeOut(s)
  PROVE  Inv'
<1>1. /\ Types(q, a, o, b, w, m, up, cl, bd, ph, lt, dir, r, n)
      /\ Fits(o, b, w, cl) /\ Called(q, a, o, bd)
      /\ Queued(Lines(q, a, b), a, o, bd, ph, r, n)
      /\ Kept(q, o, m, up, cl, b) /\ Told(q, w, m, up, dir, b)
      /\ Tied(o, bd, ph, b) /\ Attended(q, o, up, cl, bd, ph, lt, Waiting(Lines(q, a, b)))
  BY DEF Good
<1>2. /\ q \in Seq(MainCall) /\ a \in Seq(Ask) /\ o \in [Sess -> Object]
      /\ b \in [Sess -> Seq(SessCall)] /\ w \in [Sess -> Seq(MainCall)]
      /\ m \in [User -> Sess \cup {None, Null}]
      /\ up \in SUBSET User /\ cl \in SUBSET Sess /\ lt \in SUBSET Conn
      /\ bd \in [Conn -> Sess \cup {None}] /\ n \in Nat /\ n <= MaxEvents
  BY <1>1, BoundsAssumption DEF Types
<1>3. Fit(o[s], b[s], w[s], s \in cl)
  BY <1>1 DEF Fits
<1>4. o[s].state = "live" /\ o[s].conn = None
  BY <1>3 DEF Fit, TimeOut, Now
<1>5. o[s].setting = None /\ w[s] = <<>> /\ None \notin Conn
  BY <1>4 DEF TimeOut, Quiet, Idle, Live, Now, None, Conn
<1>6. PICK u : u = o[s].user
  OBVIOUS
<1>7. PICK cl2 : cl2 = cl \cup {s}
  OBVIOUS
<1>8. PICK up2 : up2 = IF s \in cl THEN up \cup {u} ELSE up
  OBVIOUS
<1>9. Stands(q, a, o, b, w, m, up, cl, bd, dir) /\ up2 \in SUBSET User
  BY <1>1, <1>2, <1>3, <1>4, <1>6, <1>8 DEF Stands, Types, Fit
<1>10. \A c \in Conn : o[s].conn # c /\ o[s].setting # c
  BY <1>4, <1>5
<1>11. CASE o[s].home = "main"
  <2>1. PICK m2 : m2 = [m EXCEPT ![u] = None]
    OBVIOUS
  <2>2. PICK x : x = IF dir[u] = "here" THEN "none" ELSE dir[u]
    OBVIOUS
  <2>3. PICK dir2 : dir2 = [dir EXCEPT ![u] = x]
    OBVIOUS
  <2>4. PICK b2 : b2 = IF m[u] \in Alive(o)
                       THEN [b EXCEPT ![m[u]] = Append(b[m[u]], [call |-> "delete"])] ELSE b
    OBVIOUS
  <2>5. Alive(o) \subseteq Sess /\ u \in User /\ x \in {"none", "elsewhere"}
    <3>1. u \in User
      BY <1>3, <1>4, <1>6 DEF Fit
    <3> QED
      BY <1>1, <2>2, <3>1 DEF Alive, Types
  <2>6. Then(q, a, o, b2, w, m2, up2, cl2, bd, ph, lt, dir2, r, n) /\ abroad' = abroad
        /\ crashed' = (m[u] \notin Alive(o))
    BY <1>6, <1>7, <1>8, <1>11, <2>1, <2>2, <2>3, <2>4, <2>5
       DEF Now, Then, TimeOut, Close, InMain, SessionClosed, SessionRemoved, Live, Alive, connections
  <2>7. Shuts(o, b, m, up, cl, dir, b2, m2, up2, cl2, dir2, s, u, x)
    BY <1>4, <1>6, <1>7, <1>8, <1>11, <2>1, <2>3, <2>4, <2>5 DEF Shuts
  <2>8. /\ Stands(q, a, o, b2, w, m2, up2, cl2, bd, dir2)
        /\ MixedStill(q, o, up, q, o, up2) /\ Grows(b, b2)
        /\ m[u] \notin Alive(o) => up2 # {}
        /\ Single(Lines(q, a, b)) => Calm(Lines(q, a, b), Lines(q, a, b2))
    BY <1>9, <2>7, ShutInMain
  <2>9. Calm(Lines(q, a, b), Lines(q, a, b2))
    BY <1>1, <2>8 DEF Queued
  <2>10. Queued(Lines(q, a, b2), a, o, bd, ph, r, n)
    BY <1>1, <1>2, <2>9, QueuedLike
  <2>11. Tied(o, bd, ph, b2)
    BY <1>1, <2>8, TiedBox DEF Grows
  <2>12. Attended(q, o, up2, cl2, bd, ph, lt, Waiting(Lines(q, a, b2)))
    <3>1. Attends(o, cl, bd, ph, lt, Waiting(Lines(q, a, b)), q, o, up2, cl2, bd, ph, lt,
                  Waiting(Lines(q, a, b2)))
      BY <1>7, <1>10, <2>9 DEF Attends, Calm
    <3> QED
      BY <1>1, <2>8, <3>1, AttendedStep
  <2>13. Types(q, a, o, b2, w, m2, up2, cl2, bd, ph, lt, dir2, r, n)
    BY <1>1, <2>8 DEF Types, Stands
  <2>14. Good(q, a, o, b2, w, m2, up2, cl2, bd, ph, lt, dir2, r, n)
    BY <2>8, <2>10, <2>11, <2>12, <2>13 DEF Good, Stands
  <2> QED
    BY <2>6, <2>8, <2>14, InvAgain DEF Sound
<1>12. CASE o[s].home = "scene"
  <2>1. PICK q2 : q2 = Append(q, [call |-> "closed", session |-> s, user |-> u])
    OBVIOUS
  <2>2. PICK w2 : w2 = [w EXCEPT ![s] = <<[call |-> "removed", session |-> s, user |-> u]>>]
    OBVIOUS
  <2>3. Then(q2, a, o, b, w2, m, up2, cl2, bd, ph, lt, dir, r, n) /\ abroad' = abroad
        /\ crashed' = crashed
    BY <1>6, <1>7, <1>8, <1>12, <2>1, <2>2
       DEF Now, Then, TimeOut, Close, InMain, TellMain, connections
  <2>4. Leaves(o, q, b, w, up, cl, q2, b, w2, up2, cl2, s, u)
    BY <1>4, <1>5, <1>6, <1>7, <1>8, <1>12, <2>1, <2>2 DEF Leaves
  <2>5. /\ Stands(q2, a, o, b, w2, m, up2, cl2, bd, dir)
        /\ MixedStill(q, o, up, q2, o, up2)
        /\ Single(Lines(q, a, b)) => Calm(Lines(q, a, b), Lines(q2, a, b))
    BY <1>9, <2>4, ShutInScene
  <2>6. Calm(Lines(q, a, b), Lines(q2, a, b))
    BY <1>1, <2>5 DEF Queued
  <2>7. Queued(Lines(q2, a, b), a, o, bd, ph, r, n)
    BY <1>1, <1>2, <2>6, QueuedLike
  <2>8. Attended(q2, o, up2, cl2, bd, ph, lt, Waiting(Lines(q2, a, b)))
    <3>1. Attends(o, cl, bd, ph, lt, Waiting(Lines(q, a, b)), q2, o, up2, cl2, bd, ph, lt,
                  Waiting(Lines(q2, a, b)))
      BY <1>7, <1>10, <2>6 DEF Attends, Calm
    <3> QED
      BY <1>1, <2>5, <3>1, AttendedStep
  <2>9. Types(q2, a, o, b, w2, m, up2, cl2, bd, ph, lt, dir, r, n)
    BY <1>1, <2>5 DEF Types, Stands
  <2>10. Good(q2, a, o, b, w2, m, up2, cl2, bd, ph, lt, dir, r, n)
    BY <1>1, <2>5, <2>7, <2>8, <2>9 DEF Good, Stands
  <2> QED
    BY <2>3, <2>10, InvAgain DEF Sound
<1>13. o[s].home \in {"main", "scene"}
  BY <1>2 DEF Object
<1> QED
  BY <1>11, <1>12, <1>13

\* The session s, which is free, takes the first call that waits for it.
Taken(s) == Idle(s) /\ inbox[s] # <<>> /\ UNCHANGED <<asked, record, abroad, events>>

(* It is there and owes nothing; in the main thread it is only told of     *)
(* another user or deleted.                                                *)
LEMMA Taking ==
  ASSUME NEW q, NEW a, NEW o, NEW b, NEW w, NEW m, NEW up, NEW cl, NEW bd, NEW ph, NEW lt,
         NEW dir, NEW r, NEW n, Now(q, a, o, b, w, m, up, cl, bd, ph, lt, dir, r, n),
         Good(q, a, o, b, w, m, up, cl, bd, ph, lt, dir, r, n), Sound,
         NEW s \in Sess, Taken(s)
  PROVE  /\ b[s] # <<>> /\ b[s][1] \in SessCall /\ Head(b[s]) = b[s][1]
         /\ o[s].state = "live" /\ o[s].setting = None /\ w[s] = <<>> /\ None \notin Conn
         /\ o[s].user \in User /\ o[s].home \in {"main", "scene"}
         /\ b[s][1].call \notin {"user", "delete"} => o[s].home = "scene"
         /\ Has(b[s], b[s][1].call)
<1>1. /\ Types(q, a, o, b, w, m, up, cl, bd, ph, lt, dir, r, n)
      /\ Fits(o, b, w, cl) /\ Called(q, a, o, bd)
      /\ Queued(Lines(q, a, b), a, o, bd, ph, r, n)
      /\ Kept(q, o, m, up, cl, b) /\ Told(q, w, m, up, dir, b)
      /\ Tied(o, bd, ph, b) /\ Attended(q, o, up, cl, bd, ph, lt, Waiting(Lines(q, a, b)))
  BY DEF Good
<1>2. /\ q \in Seq(MainCall) /\ a \in Seq(Ask) /\ o \in [Sess -> Object]
      /\ b \in [Sess -> Seq(SessCall)] /\ w \in [Sess -> Seq(MainCall)]
      /\ m \in [User -> Sess \cup {None, Null}]
      /\ up \in SUBSET User /\ cl \in SUBSET Sess /\ lt \in SUBSET Conn
      /\ bd \in [Conn -> Sess \cup {None}] /\ n \in Nat /\ n <= MaxEvents
  BY <1>1, BoundsAssumption DEF Types
<1>3. b[s] # <<>> /\ b[s] \in Seq(SessCall)
  BY <1>2 DEF Taken, Now
<1>4. o[s].state = "live" /\ o[s].setting = None /\ w[s] = <<>>
  BY DEF Taken, Idle, Live, Now
<1>5. b[s][1] \in SessCall /\ Head(b[s]) = b[s][1] /\ Len(b[s]) \in Nat \ {0}
  BY <1>3, Headed
<1>6. 1 \in 1 .. Len(b[s]) /\ DOMAIN b[s] = 1 .. Len(b[s])
  BY <1>3, <1>5, LenProperties
<1>7. Has(b[s], b[s][1].call)
  BY <1>6 DEF Has
<1>8. o[s].home \in {"main", "scene"}
  BY <1>2 DEF Object
<1>9. Fit(o[s], b[s], w[s], s \in cl)
  BY <1>1 DEF Fits
<1>10. o[s].user \in User /\ (b[s][1].call \notin {"user", "delete"} => o[s].home = "scene")
  BY <1>4, <1>6, <1>8, <1>9 DEF Fit
<1> QED
  BY <1>3, <1>4, <1>5, <1>7, <1>8, <1>10 DEF None, Conn

(* Session::clearConnection in the thread of an instance.                  *)
LEMMA StepClear ==
  ASSUME NEW q, NEW a, NEW o, NEW b, NEW w, NEW m, NEW up, NEW cl, NEW bd, NEW ph, NEW lt,
         NEW dir, NEW r, NEW n, Now(q, a, o, b, w, m, up, cl, bd, ph, lt, dir, r, n),
         Good(q, a, o, b, w, m, up, cl, bd, ph, lt, dir, r, n), Sound,
         NEW s \in Sess, Taken(s), RunClear(s, Head(inbox[s]))
  PROVE  Inv'
<1>1. /\ Types(q, a, o, b, w, m, up, cl, bd, ph, lt, dir, r, n)
      /\ Fits(o, b, w, cl) /\ Called(q, a, o, bd)
      /\ Queued(Lines(q, a, b), a, o, bd, ph, r, n)
      /\ Kept(q, o, m, up, cl, b) /\ Told(q, w, m, up, dir, b)
      /\ Tied(o, bd, ph, b) /\ Attended(q, o, up, cl, bd, ph, lt, Waiting(Lines(q, a, b)))
  BY DEF Good
<1>2. /\ q \in Seq(MainCall) /\ a \in Seq(Ask) /\ o \in [Sess -> Object]
      /\ b \in [Sess -> Seq(SessCall)] /\ w \in [Sess -> Seq(MainCall)]
      /\ m \in [User -> Sess \cup {None, Null}]
      /\ up \in SUBSET User /\ cl \in SUBSET Sess /\ lt \in SUBSET Conn
      /\ bd \in [Conn -> Sess \cup {None}] /\ n \in Nat /\ n <= MaxEvents
  BY <1>1, BoundsAssumption DEF Types
<1>3. /\ b[s] # <<>> /\ b[s][1] \in SessCall /\ Head(b[s]) = b[s][1]
      /\ o[s].state = "live" /\ o[s].setting = None /\ w[s] = <<>> /\ None \notin Conn
      /\ o[s].user \in User
      /\ b[s][1].call \notin {"user", "delete"} => o[s].home = "scene"
  BY Taking
<1>4. b[s][1].call = "clear"
  BY <1>3 DEF RunClear, Now
<1>5. o[s].home = "scene"
  BY <1>3, <1>4
<1>6. PICK o2 : o2 = [o EXCEPT ![s] = [o[s] EXCEPT !.conn = None, !.timer = TRUE]]
  OBVIOUS
<1>7. PICK b2 : b2 = [b EXCEPT ![s] = Tail(b[s])]
  OBVIOUS
<1>8. PICK lt2 : lt2 = IF o[s].conn # None /\ Open(ph[o[s].conn]) THEN lt \cup {o[s].conn} ELSE lt
  OBVIOUS
<1>9. Then(q, a, o2, b2, w, m, up, cl, bd, ph, lt2, dir, r, n) /\ abroad' = abroad
      /\ crashed' = crashed
  BY <1>6, <1>7, <1>8
     DEF Now, Then, RunClear, Rest, Unconnected, Taken, IsOpen, Open, connections
<1>10. /\ o2 \in [Sess -> Object] /\ \A t \in Sess \ {s} : o2[t] = o[t]
       /\ o2[s].state = "live" /\ o2[s].home = "scene" /\ o2[s].user = o[s].user
       /\ o2[s].setting = None /\ o2[s].conn = None /\ o2[s].timer
  BY <1>2, <1>3, <1>5, <1>6 DEF Object
<1>11. Gains(b2, b, s, "clear")
  <2>1. Gains(b2, b, s, b[s][1].call)
    BY <1>2, <1>3, <1>7, HasPop
  <2> QED
    BY <1>4, <2>1
<1>12. b2 \in [Sess -> Seq(SessCall)] /\ \A t \in Sess \ {s} : b2[t] = b[t]
  BY <1>2, <1>3, <1>7, Headed
<1>13. Stands(q, a, o, b, w, m, up, cl, bd, dir)
  BY <1>1 DEF Stands, Types
<1>14. Rests(o, b, o2, b2, w, cl)
  <2>1. Alike(o, b, o2, b2) /\ Older(o, o2) /\ Stays(b, b2)
    BY <1>3, <1>10, <1>11 DEF Alike, Older, Stays, Gains
  <2>2. Fits(o, b2, w, cl)
    BY <1>1, <1>2, <1>3, <1>7, FitsBox
  <2>3. Fits(o2, b2, w, cl)
    <3> SUFFICES ASSUME NEW t \in Sess  PROVE Fit(o2[t], b2[t], w[t], t \in cl)
      BY DEF Fits
    <3>1. CASE t = s
      BY <1>3, <1>10, <3>1 DEF Fit
    <3>2. CASE t # s
      BY <1>10, <2>2, <3>2 DEF Fits
    <3> QED
      BY <3>1, <3>2
  <2> QED
    BY <1>10, <1>12, <2>1, <2>3 DEF Rests
<1>15. /\ Stands(q, a, o2, b2, w, m, up, cl, bd, dir) /\ MixedStill(q, o, up, q, o2, up)
       /\ Born(o, o2)
  BY <1>13, <1>14, Rested
<1>16. Calm(Lines(q, a, b), Lines(q, a, b2))
  <2>1. b[s][1].call # "set"
    BY <1>4
  <2> QED
    BY <1>1, <1>2, <1>3, <1>7, <2>1, CalmBox DEF Queued
<1>17. Queued(Lines(q, a, b2), a, o2, bd, ph, r, n)
  <2>1. SameBound(o, bd, ph, o2, bd, ph) /\ Kin(r, r) /\ Len(a) \in Nat
    BY <1>2, <1>3, <1>10, LenProperties DEF SameBound, Kin
  <2>2. Len(a) + n <= Len(a) + n /\ n <= n
    BY <1>2, <2>1
  <2> QED
    BY <1>1, <1>2, <1>15, <1>16, <2>1, <2>2, QueuedCalm
<1>18. Tied(o2, bd, ph, b2)
  <2>1. ASSUME NEW t \in Sess, NEW d \in Conn
        PROVE  /\ o2[t].conn = d => bd[d] = t /\ (Open(ph[d]) \/ Has(b2[t], "clear"))
               /\ o2[t].setting = d /\ Open(ph[d]) => bd[d] = t
    <3>1. CASE t = s
      BY <1>3, <1>10, <3>1
    <3>2. CASE t # s
      BY <1>1, <1>10, <1>12, <3>2 DEF Tied
    <3> QED
      BY <3>1, <3>2
  <2>2. \A t \in Sess : o2[t].home = "main" => o2[t] = o[t]
    BY <1>10
  <2> QED
    BY <1>1, <2>1, <2>2 DEF Tied
<1>19. Attended(q, o2, up, cl, bd, ph, lt2, Waiting(Lines(q, a, b2)))
  <2>1. lt \subseteq lt2 /\ \A d \in Conn : ph[d] = "open" /\ o[s].conn = d => d \in lt2
    BY <1>3, <1>8 DEF Open
  <2>2. ASSUME NEW t \in Sess, NEW d \in Conn, ph[d] = "open", d \notin lt2,
               o[t].conn = d \/ o[t].setting = d
        PROVE  o2[t] = o[t]
    BY <1>3, <1>10, <2>1, <2>2
  <2>3. Attends(o, cl, bd, ph, lt, Waiting(Lines(q, a, b)), q, o2, up, cl, bd, ph, lt2,
                Waiting(Lines(q, a, b2)))
    BY <1>16, <2>1, <2>2 DEF Attends, Calm
  <2> QED
    BY <1>1, <1>15, <2>3, AttendedStep
<1>20. lt2 \in SUBSET Conn
  BY <1>2, <1>8 DEF Object
<1>21. Types(q, a, o2, b2, w, m, up, cl, bd, ph, lt2, dir, r, n)
  BY <1>1, <1>10, <1>12, <1>20 DEF Types
<1>22. Good(q, a, o2, b2, w, m, up, cl, bd, ph, lt2, dir, r, n)
  BY <1>15, <1>17, <1>18, <1>19, <1>21 DEF Good, Stands
<1> QED
  BY <1>9, <1>22, InvAgain DEF Sound

(* Session::shutdown and reconnect in the thread of an instance.           *)
LEMMA StepClose ==
  ASSUME NEW q, NEW a, NEW o, NEW b, NEW w, NEW m, NEW up, NEW cl, NEW bd, NEW ph, NEW lt,
         NEW dir, NEW r, NEW n, Now(q, a, o, b, w, m, up, cl, bd, ph, lt, dir, r, n),
         Good(q, a, o, b, w, m, up, cl, bd, ph, lt, dir, r, n), Sound,
         NEW s \in Sess, Taken(s), RunClose(s, Head(inbox[s]))
  PROVE  Inv'
<1>1. /\ Types(q, a, o, b, w, m, up, cl, bd, ph, lt, dir, r, n)
      /\ Fits(o, b, w, cl) /\ Called(q, a, o, bd)
      /\ Queued(Lines(q, a, b), a, o, bd, ph, r, n)
      /\ Kept(q, o, m, up, cl, b) /\ Told(q, w, m, up, dir, b)
      /\ Tied(o, bd, ph, b) /\ Attended(q, o, up, cl, bd, ph, lt, Waiting(Lines(q, a, b)))
  BY DEF Good
<1>2. /\ q \in Seq(MainCall) /\ a \in Seq(Ask) /\ o \in [Sess -> Object]
      /\ b \in [Sess -> Seq(SessCall)] /\ w \in [Sess -> Seq(MainCall)]
      /\ m \in [User -> Sess \cup {None, Null}]
      /\ up \in SUBSET User /\ cl \in SUBSET Sess /\ lt \in SUBSET Conn
      /\ bd \in [Conn -> Sess \cup {None}] /\ n \in Nat /\ n <= MaxEvents
  BY <1>1, BoundsAssumption DEF Types
<1>3. /\ b[s] # <<>> /\ b[s][1] \in SessCall /\ Head(b[s]) = b[s][1]
      /\ o[s].state = "live" /\ o[s].setting = None /\ w[s] = <<>> /\ None \notin Conn
      /\ o[s].user \in User
      /\ b[s][1].call \notin {"user", "delete"} => o[s].home = "scene"
  BY Taking
<1>4. b[s][1].call \in {"shutdown", "reconnect"}
  BY <1>3 DEF RunClose, Now
<1>5. o[s].home = "scene"
  BY <1>3, <1>4
<1>6. PICK u : u = o[s].user
  OBVIOUS
<1>7. PICK x : x = o[s].conn
  OBVIOUS
<1>8. PICK b2 : b2 = [b EXCEPT ![s] = Tail(b[s])]
  OBVIOUS
<1>9. PICK ph2 : ph2 = IF b[s][1].call = "reconnect" /\ x # None /\ ph[x] = "open"
                       THEN [ph EXCEPT ![x] = "leaving"] ELSE ph
  OBVIOUS
<1>10. PICK lt2 : lt2 = IF x # None /\ ph2[x] = "open" THEN lt \cup {x} ELSE lt
  OBVIOUS
<1>11. PICK cl2 : cl2 = cl \cup {s}
  OBVIOUS
<1>12. PICK up2 : up2 = IF s \in cl THEN up \cup {u} ELSE up
  OBVIOUS
<1>13. PICK q2 : q2 = Append(q, [call |-> "closed", session |-> s, user |-> u])
  OBVIOUS
<1>14. PICK w2 : w2 = [w EXCEPT ![s] = <<[call |-> "removed", session |-> s, user |-> u]>>]
  OBVIOUS
<1>15. Then(q2, a, o, b2, w2, m, up2, cl2, bd, ph2, lt2, dir, r, n) /\ abroad' = abroad
       /\ crashed' = crashed
  <2>1. phase' = ph2
    BY <1>3, <1>7, <1>9 DEF Now, RunClose, ToldToLeave
  <2> QED
    BY <1>3, <1>5, <1>6, <1>7, <1>8, <1>10, <1>11, <1>12, <1>13, <1>14, <2>1
       DEF Now, Then, RunClose, Close, InMain, TellMain, Rest, Taken
<1>16. Leaves(o, q, b, w, up, cl, q2, b2, w2, up2, cl2, s, u)
  BY <1>3, <1>4, <1>5, <1>6, <1>8, <1>11, <1>12, <1>13, <1>14 DEF Leaves
<1>17. Stands(q, a, o, b, w, m, up, cl, bd, dir)
  BY <1>1 DEF Stands, Types
<1>18. /\ Stands(q2, a, o, b2, w2, m, up2, cl2, bd, dir)
       /\ MixedStill(q, o, up, q2, o, up2)
       /\ \A t \in Sess : Has(b[t], "clear") => Has(b2[t], "clear")
       /\ Single(Lines(q, a, b)) => Calm(Lines(q, a, b), Lines(q2, a, b2))
  BY <1>16, <1>17, ShutInScene
<1>19. Calm(Lines(q, a, b), Lines(q2, a, b2))
  BY <1>1, <1>18 DEF Queued
<1>20. /\ ph2 \in [Conn -> {"away", "open", "leaving", "bye", "closed"}]
       /\ \A d \in Conn : /\ ph2[d] = "away" <=> ph[d] = "away"
                          /\ Open(ph2[d]) <=> Open(ph[d])
                          /\ ph2[d] = "open" => ph[d] = "open"
  <2>1. ph \in [Conn -> {"away", "open", "leaving", "bye", "closed"}]
    BY <1>1 DEF Types
  <2> QED
    BY <1>9, <2>1 DEF Open
<1>21. Queued(Lines(q2, a, b2), a, o, bd, ph2, r, n)
  <2>1. SameBound(o, bd, ph, o, bd, ph2) /\ Kin(r, r) /\ Born(o, o) /\ Len(a) \in Nat
    BY <1>2, <1>20, LenProperties DEF SameBound, Kin, Born
  <2>2. Len(a) + n <= Len(a) + n /\ n <= n
    BY <1>2, <2>1
  <2> QED
    BY <1>1, <1>2, <1>19, <2>1, <2>2, QueuedCalm
<1>22. Tied(o, bd, ph2, b2)
  BY <1>1, <1>18, <1>20 DEF Tied
<1>23. Attended(q2, o, up2, cl2, bd, ph2, lt2, Waiting(Lines(q2, a, b2)))
  <2>1. lt \subseteq lt2 /\ \A d \in Conn : ph2[d] = "open" /\ o[s].conn = d => d \in lt2
    BY <1>3, <1>7, <1>10
  <2>2. ASSUME NEW t \in Sess, NEW d \in Conn, ph2[d] = "open", d \notin lt2, t \notin cl,
               o[t].conn = d \/ o[t].setting = d
        PROVE  t \notin cl2
    BY <1>3, <1>11, <2>1, <2>2
  <2>3. Attends(o, cl, bd, ph, lt, Waiting(Lines(q, a, b)), q2, o, up2, cl2, bd, ph2, lt2,
                Waiting(Lines(q2, a, b2)))
    BY <1>19, <1>20, <2>1, <2>2 DEF Attends, Calm
  <2> QED
    BY <1>1, <1>18, <2>3, AttendedStep
<1>24. lt2 \in SUBSET Conn
  <2>1. x \in Conn \cup {None}
    BY <1>2, <1>7 DEF Object
  <2> QED
    BY <1>2, <1>10, <2>1
<1>25. Types(q2, a, o, b2, w2, m, up2, cl2, bd, ph2, lt2, dir, r, n)
  BY <1>1, <1>18, <1>20, <1>24 DEF Types, Stands
<1>26. Good(q2, a, o, b2, w2, m, up2, cl2, bd, ph2, lt2, dir, r, n)
  BY <1>18, <1>21, <1>22, <1>23, <1>25 DEF Good, Stands
<1> QED
  BY <1>15, <1>26, InvAgain DEF Sound

(* Session::loggedOn, loggedOff and userChanged.                           *)
LEMMA StepUser ==
  ASSUME NEW q, NEW a, NEW o, NEW b, NEW w, NEW m, NEW up, NEW cl, NEW bd, NEW ph, NEW lt,
         NEW dir, NEW r, NEW n, Now(q, a, o, b, w, m, up, cl, bd, ph, lt, dir, r, n),
         Good(q, a, o, b, w, m, up, cl, bd, ph, lt, dir, r, n), Sound,
         NEW s \in Sess, Taken(s), RunUser(s, Head(inbox[s]))
  PROVE  Inv'
<1>1. /\ Types(q, a, o, b, w, m, up, cl, bd, ph, lt, dir, r, n)
      /\ Fits(o, b, w, cl) /\ Called(q, a, o, bd)
      /\ Queued(Lines(q, a, b), a, o, bd, ph, r, n)
      /\ Kept(q, o, m, up, cl, b) /\ Told(q, w, m, up, dir, b)
      /\ Tied(o, bd, ph, b) /\ Attended(q, o, up, cl, bd, ph, lt, Waiting(Lines(q, a, b)))
  BY DEF Good
<1>2. /\ q \in Seq(MainCall) /\ a \in Seq(Ask) /\ o \in [Sess -> Object]
      /\ b \in [Sess -> Seq(SessCall)] /\ w \in [Sess -> Seq(MainCall)]
      /\ m \in [User -> Sess \cup {None, Null}]
      /\ up \in SUBSET User /\ cl \in SUBSET Sess /\ lt \in SUBSET Conn
      /\ bd \in [Conn -> Sess \cup {None}] /\ n \in Nat /\ n <= MaxEvents
  BY <1>1, BoundsAssumption DEF Types
<1>3. /\ b[s] # <<>> /\ b[s][1] \in SessCall /\ Head(b[s]) = b[s][1]
      /\ o[s].state = "live" /\ w[s] = <<>> /\ o[s].user \in User /\ o[s].home \in {"main", "scene"}
  BY Taking
<1>4. b[s][1].call = "user"
  BY <1>3 DEF RunUser, Now
<1>5. PICK u \in User : u = o[s].user
  BY <1>3
<1>6. PICK v \in User : v = b[s][1].user
  BY <1>3, <1>4 DEF SessCall
<1>7. PICK o2 : o2 = [o EXCEPT ![s].user = v]
  OBVIOUS
<1>8. PICK b2 : b2 = [b EXCEPT ![s] = Tail(b[s])]
  OBVIOUS
<1>9. Stands(q, a, o, b, w, m, up, cl, bd, dir)
  BY <1>1 DEF Stands, Types
<1>10. \A t \in Sess : /\ o2[t].state = o[t].state /\ o2[t].conn = o[t].conn
                       /\ o2[t].setting = o[t].setting /\ o2[t].home = o[t].home
  BY <1>2, <1>7 DEF Object
<1>11. Born(o, o2) /\ Kin(r, r) /\ SameBound(o, bd, ph, o2, bd, ph) /\ Len(a) \in Nat
  BY <1>2, <1>10, LenProperties DEF Born, Kin, SameBound
<1>12. Len(a) + n <= Len(a) + n /\ n <= n
  BY <1>2, <1>11
<1>13. \A t \in Sess : Has(b[t], "clear") => Has(b2[t], "clear")
  <2>1. Gains(b2, b, s, b[s][1].call)
    BY <1>2, <1>3, <1>8, HasPop
  <2> QED
    BY <1>4, <2>1 DEF Gains
<1>14. Tied(o2, bd, ph, b2)
  BY <1>1, <1>10, <1>13 DEF Tied
<1>15. ASSUME NEW q2, Calm(Lines(q, a, b), Lines(q2, a, b)), q2 \in Seq(MainCall)
       PROVE  /\ Calm(Lines(q, a, b), Lines(q2, a, b2))
              /\ Queued(Lines(q2, a, b2), a, o2, bd, ph, r, n)
  <2>1. Calm(Lines(q2, a, b), Lines(q2, a, b2))
    <3>1. b[s][1].call # "set" /\ Single(Lines(q2, a, b))
      BY <1>4, <1>15 DEF Calm
    <3> QED
      BY <1>2, <1>3, <1>8, <1>15, <3>1, CalmBox
  <2>2. Calm(Lines(q, a, b), Lines(q2, a, b2))
    BY <1>15, <2>1, CalmTwice
  <2> QED
    BY <1>1, <1>2, <1>11, <1>12, <2>2, QueuedCalm
<1>16. CASE o[s].home = "main"
  <2>1. PICK m2 : m2 = [m EXCEPT ![u] = None, ![v] = IF m[u] = None THEN Null ELSE m[u]]
    OBVIOUS
  <2>2. PICK up2 : up2 = up \cup (IF m[u] # s \/ u \in up THEN {u, v} ELSE {})
                            \cup (IF u # v /\ m[v] # None THEN {v} ELSE {})
    OBVIOUS
  <2>3. PICK dir2 : dir2 = [x \in User |-> IF x = v THEN "here"
                                ELSE IF x = u /\ dir[u] = "here" THEN "none" ELSE dir[x]]
    OBVIOUS
  <2>4. Then(q, a, o2, b2, w, m2, up2, cl, bd, ph, lt, dir2, r, n) /\ abroad' = abroad
        /\ crashed' = crashed
    BY <1>3, <1>5, <1>6, <1>7, <1>8, <1>16, <2>1, <2>2, <2>3
       DEF Now, Then, RunUser, UserChanged, SessionChanged, Rest, InMain, Taken, connections
  <2>5. Alters(o, b, m, up, dir, o2, b2, m2, up2, dir2, s, u, v)
    BY <1>3, <1>4, <1>5, <1>6, <1>7, <1>8, <1>16, <2>1, <2>2, <2>3 DEF Alters
  <2>6. Stands(q, a, o2, b2, w, m2, up2, cl, bd, dir2) /\ MixedStill(q, o, up, q, o2, up2)
    BY <1>9, <2>5, AlteredInMain
  <2>7. Calm(Lines(q, a, b), Lines(q, a, b2)) /\ Queued(Lines(q, a, b2), a, o2, bd, ph, r, n)
    <3>1. Calm(Lines(q, a, b), Lines(q, a, b))
      BY <1>1 DEF Calm, Queued
    <3> QED
      BY <1>2, <1>15, <3>1
  <2>8. Attended(q, o2, up2, cl, bd, ph, lt, Waiting(Lines(q, a, b2)))
    <3>1. Attends(o, cl, bd, ph, lt, Waiting(Lines(q, a, b)), q, o2, up2, cl, bd, ph, lt,
                  Waiting(Lines(q, a, b2)))
      BY <1>10, <2>7 DEF Attends, Calm
    <3> QED
      BY <1>1, <2>6, <3>1, AttendedStep
  <2>9. Types(q, a, o2, b2, w, m2, up2, cl, bd, ph, lt, dir2, r, n)
    BY <1>1, <2>6 DEF Types, Stands
  <2>10. Good(q, a, o2, b2, w, m2, up2, cl, bd, ph, lt, dir2, r, n)
    BY <1>14, <2>6, <2>7, <2>8, <2>9 DEF Good, Stands
  <2> QED
    BY <2>4, <2>10, InvAgain DEF Sound
<1>17. CASE o[s].home = "scene"
  <2>1. PICK q2 : q2 = Append(q, [call |-> "changed", session |-> s, user |-> u, new |-> v])
    OBVIOUS
  <2>2. PICK w2 : w2 = [w EXCEPT ![s] = <<[call |-> "removed", session |-> s, user |-> u],
                                          [call |-> "added", session |-> s, user |-> v]>>]
    OBVIOUS
  <2>3. Then(q2, a, o2, b2, w2, m, up, cl, bd, ph, lt, dir, r, n) /\ abroad' = abroad
        /\ crashed' = crashed
    BY <1>3, <1>5, <1>6, <1>7, <1>8, <1>17, <2>1, <2>2
       DEF Now, Then, RunUser, UserChanged, TellMain, Rest, InMain, Taken, connections
  <2>4. Tends(o, q, b, w, o2, q2, b2, w2, s, u, v)
    BY <1>3, <1>4, <1>5, <1>6, <1>7, <1>8, <1>17, <2>1, <2>2 DEF Tends
  <2>5. /\ Stands(q2, a, o2, b2, w2, m, up, cl, bd, dir)
        /\ MixedStill(q, o, up, q2, o2, up)
        /\ Single(Lines(q, a, b)) => Calm(Lines(q, a, b), Lines(q2, a, b))
    BY <1>9, <2>4, AlteredInScene
  <2>6. Calm(Lines(q, a, b), Lines(q2, a, b2)) /\ Queued(Lines(q2, a, b2), a, o2, bd, ph, r, n)
    <3>1. Calm(Lines(q, a, b), Lines(q2, a, b)) /\ q2 \in Seq(MainCall)
      BY <1>1, <2>5 DEF Queued, Stands
    <3> QED
      BY <1>15, <3>1
  <2>7. Attended(q2, o2, up, cl, bd, ph, lt, Waiting(Lines(q2, a, b2)))
    <3>1. Attends(o, cl, bd, ph, lt, Waiting(Lines(q, a, b)), q2, o2, up, cl, bd, ph, lt,
                  Waiting(Lines(q2, a, b2)))
      BY <1>10, <2>6 DEF Attends, Calm
    <3> QED
      BY <1>1, <2>5, <3>1, AttendedStep
  <2>8. Types(q2, a, o2, b2, w2, m, up, cl, bd, ph, lt, dir, r, n)
    BY <1>1, <2>5 DEF Types, Stands
  <2>9. Good(q2, a, o2, b2, w2, m, up, cl, bd, ph, lt, dir, r, n)
    BY <1>14, <2>5, <2>6, <2>7, <2>8 DEF Good, Stands
  <2> QED
    BY <2>3, <2>9, InvAgain DEF Sound
<1> QED
  BY <1>3, <1>16, <1>17

-----------------------------------------------------------------------------
(* The ends of connections.                                                *)

\* The session s is told that it has lost c, or loses it at once.
Loses(o, b, o2, b2, s, c) ==
    /\ \A t \in Sess : /\ o2[t].state = o[t].state /\ o2[t].home = o[t].home
                       /\ o2[t].setting = o[t].setting
                       /\ o2[t].conn = o[t].conn \/ (t = s /\ o2[t].conn = None /\ o[t].home = "main")
    /\ \A t \in Sess : Has(b[t], "clear") => Has(b2[t], "clear")
    /\ s \in Sess /\ o[s].state = "live" => o2[s].conn = None \/ Has(b2[s], "clear")

(* What a session and its connection agree on when that has ended.         *)
LEMMA TiedLoses ==
  ASSUME NEW o, NEW b, NEW w, NEW cl, NEW bd, NEW ph, NEW o2, NEW b2, NEW ph2, NEW s,
         NEW c \in Conn,
         Tied(o, bd, ph, b), Fits(o, b, w, cl), s = bd[c], Loses(o, b, o2, b2, s, c),
         ph2[c] = "closed", \A d \in Conn \ {c} : ph2[d] = ph[d], Open(ph[c])
  PROVE  /\ Tied(o2, bd, ph2, b2)
         /\ \A t \in Sess, d \in Conn : d # c /\ Open(ph[d]) /\ o[t].conn = d /\ o[t].state = "live"
                /\ bd[d] = t => o2[t].conn = d
<1>1. ~Open(ph2[c]) /\ None \notin Conn
  BY DEF Open, None, Conn
<1>2. ASSUME NEW t \in Sess, NEW d \in Conn
      PROVE  /\ o2[t].conn = d => bd[d] = t /\ (Open(ph2[d]) \/ Has(b2[t], "clear"))
             /\ o2[t].setting = d /\ Open(ph2[d]) => bd[d] = t
  <2>1. o2[t].conn = d => bd[d] = t /\ (Open(ph[d]) \/ Has(b2[t], "clear")) /\ o[t].conn = d
    BY <1>1 DEF Tied, Loses
  <2>2. o2[t].conn = c => Has(b2[t], "clear")
    <3>1. o[t].conn = c => o[t].state = "live"
      BY <1>1 DEF Fits, Fit
    <3> QED
      BY <1>1, <2>1, <3>1 DEF Tied, Loses
  <2>3. o2[t].setting = d /\ Open(ph2[d]) => bd[d] = t
    BY <1>1 DEF Tied, Loses
  <2> QED
    BY <2>1, <2>2, <2>3
<1>3. ASSUME NEW t \in Sess, NEW d \in Conn, d # c, bd[d] = t, o[t].state = "live", Open(ph[d]),
             o[t].conn = d
      PROVE  o2[t].conn = d
  <2>1. CASE t = s /\ o[t].home = "main"
    <3>1. o[s].conn = c
      BY <1>3, <2>1 DEF Tied
    <3> QED
      BY <1>3, <2>1, <3>1
  <2> QED
    BY <1>3, <2>1 DEF Loses
<1>4. ASSUME NEW d \in Conn, NEW t \in Sess, bd[d] = t, o2[t].state = "live", o2[t].home = "main",
             Open(ph2[d])
      PROVE  o2[t].conn = d
  <2>1. d # c /\ Open(ph[d]) /\ o[t].state = "live" /\ o[t].home = "main"
    BY <1>1, <1>4 DEF Loses
  <2> QED
    BY <1>3, <1>4, <2>1 DEF Tied
<1> QED
  BY <1>2, <1>3, <1>4 DEF Tied

(* In the main thread it loses it at once.                                 *)
LEMMA LostInMain ==
  ASSUME NEW q, NEW a, NEW o, NEW b, NEW w, NEW m, NEW up, NEW cl, NEW bd, NEW dir,
         NEW s \in Sess,
         NEW c, Stands(q, a, o, b, w, m, up, cl, bd, dir), o[s].state = "live",
         o[s].home = "main",
         NEW o2, o2 = [o EXCEPT ![s] = [o[s] EXCEPT !.conn = None, !.timer = TRUE]]
  PROVE  Rests(o, b, o2, b, w, cl) /\ Loses(o, b, o2, b, s, c)
<1>1. o \in [Sess -> Object] /\ b \in [Sess -> Seq(SessCall)] /\ Fits(o, b, w, cl)
  BY DEF Stands
<1>2. w[s] = <<>> /\ o[s].setting = None /\ o[s].user \in User
  BY <1>1 DEF Fits, Fit
<1>3. /\ o2 \in [Sess -> Object] /\ \A t \in Sess \ {s} : o2[t] = o[t]
      /\ o2[s].state = "live" /\ o2[s].home = "main" /\ o2[s].user = o[s].user
      /\ o2[s].setting = None /\ o2[s].conn = None /\ o2[s].timer
  BY <1>1, <1>2 DEF Object
<1>4. Fits(o2, b, w, cl)
  <2> SUFFICES ASSUME NEW t \in Sess  PROVE Fit(o2[t], b[t], w[t], t \in cl)
    BY DEF Fits
  <2>1. Fit(o[t], b[t], w[t], t \in cl)
    BY <1>1 DEF Fits
  <2>2. CASE t = s
    BY <1>2, <1>3, <2>1, <2>2 DEF Fit
  <2> QED
    BY <1>3, <2>1, <2>2
<1>5. Rests(o, b, o2, b, w, cl)
  BY <1>1, <1>3, <1>4 DEF Rests, Alike, Older, Stays
<1>6. Loses(o, b, o2, b, s, c)
  BY <1>2, <1>3 DEF Loses
<1> QED
  BY <1>5, <1>6

(* Connection::close.                                                      *)
LEMMA StepDisconnect ==
  ASSUME NEW q, NEW a, NEW o, NEW b, NEW w, NEW m, NEW up, NEW cl, NEW bd, NEW ph, NEW lt,
         NEW dir, NEW r, NEW n, Now(q, a, o, b, w, m, up, cl, bd, ph, lt, dir, r, n),
         Good(q, a, o, b, w, m, up, cl, bd, ph, lt, dir, r, n), Sound,
         NEW c \in Conn, Disconnect(c)
  PROVE  Inv'
<1>1. /\ Types(q, a, o, b, w, m, up, cl, bd, ph, lt, dir, r, n)
      /\ Fits(o, b, w, cl) /\ Called(q, a, o, bd)
      /\ Queued(Lines(q, a, b), a, o, bd, ph, r, n)
      /\ Kept(q, o, m, up, cl, b) /\ Told(q, w, m, up, dir, b)
      /\ Tied(o, bd, ph, b) /\ Attended(q, o, up, cl, bd, ph, lt, Waiting(Lines(q, a, b)))
  BY DEF Good
<1>2. /\ q \in Seq(MainCall) /\ a \in Seq(Ask) /\ o \in [Sess -> Object]
      /\ b \in [Sess -> Seq(SessCall)] /\ w \in [Sess -> Seq(MainCall)]
      /\ m \in [User -> Sess \cup {None, Null}]
      /\ up \in SUBSET User /\ cl \in SUBSET Sess /\ lt \in SUBSET Conn
      /\ bd \in [Conn -> Sess \cup {None}] /\ n \in Nat /\ n <= MaxEvents
  BY <1>1, BoundsAssumption DEF Types
<1>3. PICK s : s = bd[c]
  OBVIOUS
<1>4. PICK ph2 : ph2 = [ph EXCEPT ![c] = "closed"]
  OBVIOUS
<1>5. Open(ph[c]) /\ s \in Sess \cup {None} /\ None \notin Sess /\ None \notin Conn
  BY <1>2, <1>3 DEF Disconnect, IsOpen, Now, Open, None, Sess, Conn
<1>6. /\ ph2 \in [Conn -> {"away", "open", "leaving", "bye", "closed"}]
      /\ ph2[c] = "closed" /\ (\A d \in Conn \ {c} : ph2[d] = ph[d]) /\ ~Open(ph2[c])
      /\ \A d \in Conn : ph2[d] = "away" <=> ph[d] = "away"
  <2>1. ph \in [Conn -> {"away", "open", "leaving", "bye", "closed"}]
    BY <1>1 DEF Types
  <2> QED
    BY <1>4, <1>5, <2>1 DEF Open
<1>7. Stands(q, a, o, b, w, m, up, cl, bd, dir)
  BY <1>1 DEF Stands, Types
<1>8. ASSUME NEW o2, NEW b2, session' = o2, inbox' = b2,
             Stands(q, a, o2, b2, w, m, up, cl, bd, dir), MixedStill(q, o, up, q, o2, up),
             Born(o, o2), Calm(Lines(q, a, b), Lines(q, a, b2)), Loses(o, b, o2, b2, s, c)
      PROVE  Inv'
  <2>1. Then(q, a, o2, b2, w, m, up, cl, bd, ph2, lt, dir, r, n) /\ abroad' = abroad
        /\ crashed' = crashed
    BY <1>4, <1>8 DEF Now, Then, Disconnect
  <2>2. /\ Tied(o2, bd, ph2, b2)
        /\ \A t \in Sess, d \in Conn : d # c /\ Open(ph[d]) /\ o[t].conn = d /\ o[t].state = "live"
                /\ bd[d] = t => o2[t].conn = d
    BY <1>1, <1>3, <1>5, <1>6, <1>8, TiedLoses
  <2>3. Queued(Lines(q, a, b2), a, o2, bd, ph2, r, n)
    <3>1. SameBound(o, bd, ph, o2, bd, ph2) /\ Kin(r, r) /\ Len(a) \in Nat
      BY <1>2, <1>6, <1>8, LenProperties DEF SameBound, Kin, Loses
    <3>2. Len(a) + n <= Len(a) + n /\ n <= n
      BY <1>2, <3>1
    <3> QED
      BY <1>1, <1>2, <1>8, <3>1, <3>2, QueuedCalm
  <2>4. Attended(q, o2, up, cl, bd, ph2, lt, Waiting(Lines(q, a, b2)))
    <3>1. Attends(o, cl, bd, ph, lt, Waiting(Lines(q, a, b)), q, o2, up, cl, bd, ph2, lt,
                  Waiting(Lines(q, a, b2)))
      <4>1. \A d \in Conn : ph2[d] = "open" => d # c /\ ph[d] = "open" /\ Open(ph[d])
        BY <1>6 DEF Open
      <4>2. \A t \in Sess : o2[t].state = o[t].state /\ o2[t].setting = o[t].setting
        BY <1>8 DEF Loses
      <4>3. Waiting(Lines(q, a, b2)) = Waiting(Lines(q, a, b))
        BY <1>8 DEF Calm
      <4> QED
        BY <2>2, <4>1, <4>2, <4>3 DEF Attends
    <3> QED
      BY <1>1, <1>8, <3>1, AttendedStep
  <2>5. Types(q, a, o2, b2, w, m, up, cl, bd, ph2, lt, dir, r, n)
    BY <1>1, <1>6, <1>8 DEF Types, Stands
  <2>6. Good(q, a, o2, b2, w, m, up, cl, bd, ph2, lt, dir, r, n)
    BY <1>8, <2>2, <2>3, <2>4, <2>5 DEF Good, Stands
  <2> QED
    BY <2>1, <2>6, InvAgain DEF Sound
<1>9. Calm(Lines(q, a, b), Lines(q, a, b)) /\ Born(o, o) /\ MixedStill(q, o, up, q, o, up)
  BY <1>1 DEF Calm, Queued, Born, MixedStill
<1>10. s \in Live <=> s \in Sess /\ o[s].state = "live"
  BY DEF Live, Now
<1>11. CASE s \notin Live
  <2>1. session' = o /\ inbox' = b
    BY <1>3, <1>11 DEF Now, Disconnect
  <2>2. Loses(o, b, o, b, s, c)
    BY <1>10, <1>11 DEF Loses
  <2> QED
    BY <1>7, <1>8, <1>9, <2>1, <2>2
<1>12. CASE s \in Live /\ o[s].home = "main"
  <2>1. PICK o2 : o2 = [o EXCEPT ![s] = [o[s] EXCEPT !.conn = None, !.timer = TRUE]]
    OBVIOUS
  <2>2. session' = o2 /\ inbox' = b
    BY <1>3, <1>12, <2>1 DEF Now, Disconnect, InMain, Unconnected
  <2>3. Rests(o, b, o2, b, w, cl) /\ Loses(o, b, o2, b, s, c)
    BY <1>7, <1>10, <1>12, <2>1, LostInMain
  <2> QED
    BY <1>7, <1>8, <1>9, <2>2, <2>3, Rested
<1>13. CASE s \in Live /\ o[s].home # "main"
  <2>1. PICK x : x = [call |-> "clear"]
    OBVIOUS
  <2>2. PICK b2 : b2 = [b EXCEPT ![s] = Append(b[s], x)]
    OBVIOUS
  <2>3. session' = o /\ inbox' = b2
    BY <1>3, <1>13, <2>1, <2>2 DEF Now, Disconnect, InMain
  <2>4. x \in SessCall /\ x.call = "clear"
    BY <2>1 DEF SessCall
  <2>5. Posts(o, b, b2, s, x)
    BY <1>10, <1>13, <2>2, <2>4 DEF Posts
  <2>6. /\ Stands(q, a, o, b2, w, m, up, cl, bd, dir) /\ Gains(b, b2, s, x.call)
        /\ x.call # "set" /\ Single(Lines(q, a, b)) => Calm(Lines(q, a, b), Lines(q, a, b2))
    BY <1>7, <2>5, Posted
  <2>7. Loses(o, b, o, b2, s, c)
    BY <1>10, <1>13, <2>4, <2>6 DEF Loses, Gains
  <2>8. Calm(Lines(q, a, b), Lines(q, a, b2))
    BY <1>1, <2>4, <2>6 DEF Queued
  <2> QED
    BY <1>8, <1>9, <2>3, <2>6, <2>7, <2>8
<1> QED
  BY <1>11, <1>12, <1>13

(* A session of the user starts on another peer.                           *)
LEMMA StepElsewhere ==
  ASSUME NEW q, NEW a, NEW o, NEW b, NEW w, NEW m, NEW up, NEW cl, NEW bd, NEW ph, NEW lt,
         NEW dir, NEW r, NEW n, Now(q, a, o, b, w, m, up, cl, bd, ph, lt, dir, r, n),
         Good(q, a, o, b, w, m, up, cl, bd, ph, lt, dir, r, n), Sound,
         Event, upset = {}, NEW u \in User, AddedElsewhere(u)
  PROVE  Inv'
<1>1. /\ Types(q, a, o, b, w, m, up, cl, bd, ph, lt, dir, r, n)
      /\ Fits(o, b, w, cl) /\ Called(q, a, o, bd)
      /\ Queued(Lines(q, a, b), a, o, bd, ph, r, n)
      /\ Kept(q, o, m, up, cl, b) /\ Told(q, w, m, up, dir, b)
      /\ Tied(o, bd, ph, b) /\ Attended(q, o, up, cl, bd, ph, lt, Waiting(Lines(q, a, b)))
  BY DEF Good
<1>2. /\ q \in Seq(MainCall) /\ a \in Seq(Ask) /\ o \in [Sess -> Object]
      /\ b \in [Sess -> Seq(SessCall)] /\ w \in [Sess -> Seq(MainCall)]
      /\ m \in [User -> Sess \cup {None, Null}]
      /\ up \in SUBSET User /\ cl \in SUBSET Sess /\ lt \in SUBSET Conn
      /\ bd \in [Conn -> Sess \cup {None}] /\ n \in Nat /\ n <= MaxEvents
  BY <1>1, BoundsAssumption DEF Types
<1>3. n < MaxEvents /\ n + 1 \in Nat /\ MaxEvents \in Nat /\ Len(a) \in Nat
  BY <1>2, BoundsAssumption, LenProperties DEF Event, Now
<1>4. PICK n2 : n2 = n + 1
  OBVIOUS
<1>5. PICK s : s = m[u]
  OBVIOUS
<1>6. PICK dir2 : dir2 = [dir EXCEPT ![u] = "elsewhere"]
  OBVIOUS
<1>7. /\ dir2 \in [User -> {"none", "here", "elsewhere"}] /\ dir2[u] = "elsewhere"
      /\ \A v \in User \ {u} : dir2[v] = dir[v]
  BY <1>1, <1>6 DEF Types
<1>8. up = {} /\ (s \in Live <=> s \in Sess /\ o[s].state = "live")
      /\ (s \in Sess => o[s].state = "live") /\ None \notin Conn
  BY <1>1, <1>5 DEF Now, Live, Kept, KeptBut, Entries, None, Conn
<1>9. Stands(q, a, o, b, w, m, up, cl, bd, dir)
  BY <1>1 DEF Stands, Types
<1>10. /\ Then(q, a, o, inbox', w, sessions', upset', closed', bd, phase', lt, directory', r, n2)
       /\ abroad' \subseteq User
  BY <1>4 DEF Now, Then, AddedElsewhere, Event, Sound
<1>11. ASSUME NEW b2, NEW m2, NEW up2, NEW cl2, NEW ph2, inbox' = b2, sessions' = m2,
              upset' = up2, closed' = cl2, phase' = ph2, directory' = dir2, crashed' = FALSE,
              Stands(q, a, o, b2, w, m2, up2, cl2, bd, dir2), MixedStill(q, o, up, q, o, up2),
              Grows(b, b2), Calm(Lines(q, a, b), Lines(q, a, b2)),
              ph2 \in [Conn -> {"away", "open", "leaving", "bye", "closed"}],
              \A d \in Conn : /\ ph2[d] = "away" <=> ph[d] = "away"
                              /\ Open(ph2[d]) <=> Open(ph[d])
                              /\ ph2[d] = "open" => ph[d] = "open",
              \A t \in Sess, d \in Conn :
                t \notin cl /\ ph2[d] = "open" /\ (o[t].conn = d \/ o[t].setting = d) => t \notin cl2
       PROVE  Inv'
  <2>1. Then(q, a, o, b2, w, m2, up2, cl2, bd, ph2, lt, dir2, r, n2)
    BY <1>10, <1>11
  <2>2. Queued(Lines(q, a, b2), a, o, bd, ph2, r, n2)
    <3>1. SameBound(o, bd, ph, o, bd, ph2) /\ Kin(r, r) /\ Born(o, o)
      BY <1>11 DEF SameBound, Kin, Born
    <3>2. Len(a) + n <= Len(a) + n2 /\ n <= n2 /\ n2 \in Nat
      BY <1>2, <1>3, <1>4
    <3> QED
      BY <1>1, <1>2, <1>11, <3>1, <3>2, QueuedCalm
  <2>3. Tied(o, bd, ph2, b2)
    BY <1>1, <1>11 DEF Tied, Grows
  <2>4. Attended(q, o, up2, cl2, bd, ph2, lt, Waiting(Lines(q, a, b2)))
    <3>1. Attends(o, cl, bd, ph, lt, Waiting(Lines(q, a, b)), q, o, up2, cl2, bd, ph2, lt,
                  Waiting(Lines(q, a, b2)))
      BY <1>11 DEF Attends, Calm
    <3> QED
      BY <1>1, <1>11, <3>1, AttendedStep
  <2>5. Types(q, a, o, b2, w, m2, up2, cl2, bd, ph2, lt, dir2, r, n2)
    BY <1>1, <1>3, <1>4, <1>11 DEF Types, Stands
  <2>6. Good(q, a, o, b2, w, m2, up2, cl2, bd, ph2, lt, dir2, r, n2)
    BY <1>11, <2>2, <2>3, <2>4, <2>5 DEF Good, Stands
  <2> QED
    BY <1>10, <1>11, <2>1, <2>6, InvAgain
<1>12. ASSUME NEW b2, Stands(q, a, o, b2, w, m, up, cl, bd, dir),
              m[u] \in Sess => Has(b2[m[u]], "reconnect")
       PROVE  Stands(q, a, o, b2, w, m, up, cl, bd, dir2)
  <2>1. /\ q \in Seq(MainCall) /\ w \in [Sess -> Seq(MainCall)] /\ Told(q, w, m, up, dir, b2)
    BY <1>12 DEF Stands
  <2>2. StillFound(q, w, m, m, up)
    BY DEF StillFound
  <2>3. StillListed(m, dir, b2, m, dir2, b2, up)
    BY <1>7, <1>12 DEF StillListed
  <2>4. Told(q, w, m, up, dir2, b2)
    BY <2>1, <2>2, <2>3, ToldStill
  <2> QED
    BY <1>7, <1>12, <2>4 DEF Stands
<1>13. /\ ph \in [Conn -> {"away", "open", "leaving", "bye", "closed"}]
       /\ MixedStill(q, o, up, q, o, up) /\ Grows(b, b) /\ Calm(Lines(q, a, b), Lines(q, a, b))
  BY <1>1 DEF Types, MixedStill, Grows, Calm, Queued
<1>14. CASE s \notin Live
  <2>0. sessions[u] = s /\ ~(s \in Live /\ InMain(s)) /\ (s \in Sess \ Live) = FALSE
    BY <1>5, <1>8, <1>14 DEF Now
  <2>1. /\ inbox' = b /\ sessions' = m /\ upset' = up /\ closed' = cl /\ phase' = ph
        /\ directory' = dir2 /\ crashed' = FALSE
    <3>1. crashed' = (s \in Sess \ Live) /\ directory' = [directory EXCEPT ![u] = "elsewhere"]
          /\ UNCHANGED <<phase, closed, upset, sessions>> /\ inbox' = inbox
      BY <1>14, <2>0 DEF AddedElsewhere
    <3> QED
      BY <1>6, <2>0, <3>1 DEF Now
  <2>2. Stands(q, a, o, b, w, m, up, cl, bd, dir2)
    BY <1>5, <1>8, <1>9, <1>12, <1>14
  <2> QED
    BY <1>11, <1>13, <2>1, <2>2
<1>15. CASE s \in Live /\ o[s].home # "main"
  <2>1. PICK x : x = [call |-> "reconnect"]
    OBVIOUS
  <2>2. PICK b2 : b2 = [b EXCEPT ![s] = Append(b[s], x)]
    OBVIOUS
  <2>3. /\ inbox' = b2 /\ sessions' = m /\ upset' = up /\ closed' = cl /\ phase' = ph
        /\ directory' = dir2 /\ crashed' = FALSE
    <3>1. sessions[u] = s /\ ~(s \in Live /\ InMain(s)) /\ (s \in Sess \ Live) = FALSE
      BY <1>5, <1>8, <1>15 DEF Now, InMain
    <3>2. crashed' = (s \in Sess \ Live) /\ directory' = [directory EXCEPT ![u] = "elsewhere"]
          /\ UNCHANGED <<phase, closed, upset, sessions>>
          /\ inbox' = [inbox EXCEPT ![s] = Append(@, x)]
      BY <1>15, <2>1, <3>1 DEF AddedElsewhere
    <3> QED
      BY <1>6, <2>2, <3>1, <3>2 DEF Now
  <2>4. x \in SessCall /\ x.call = "reconnect"
    BY <2>1 DEF SessCall
  <2>5. Posts(o, b, b2, s, x)
    BY <1>8, <1>15, <2>2, <2>4 DEF Posts
  <2>6. /\ Stands(q, a, o, b2, w, m, up, cl, bd, dir) /\ Gains(b, b2, s, x.call)
        /\ x.call # "set" /\ Single(Lines(q, a, b)) => Calm(Lines(q, a, b), Lines(q, a, b2))
    BY <1>9, <2>5, Posted
  <2>7. Has(b2[s], "reconnect") /\ Grows(b, b2) /\ Calm(Lines(q, a, b), Lines(q, a, b2))
    BY <1>1, <1>8, <1>15, <2>4, <2>6 DEF Gains, Grows, Queued
  <2>8. Stands(q, a, o, b2, w, m, up, cl, bd, dir2)
    BY <1>5, <1>12, <2>6, <2>7
  <2> QED
    BY <1>11, <1>13, <2>3, <2>7, <2>8
<1>16. CASE s \in Live /\ o[s].home = "main"
  <2>1. s \in Sess /\ o[s].state = "live" /\ o[s].setting = None
    BY <1>1, <1>8, <1>16 DEF Fits, Fit
  <2>2. o[s].user = u
    <3>1. \A i \in 1 .. Len(q) : q[i].call \in {"closed", "changed", "removed", "added"}
                                   => q[i].session # s
      BY <1>1, <1>16, <2>1 DEF Called
    <3>2. \A i \in 1 .. Len(q) : ~Call(q[i], "changed", s)
      BY <3>1 DEF Call
    <3>3. Was(q, o[s].user, s, 1, u)
      BY <1>1, <1>5, <1>8, <2>1 DEF Kept, KeptBut, Agreed
    <3> QED
      BY <3>2, <3>3, WasNone
  <2>3. PICK x : x = o[s].conn
    OBVIOUS
  <2>4. PICK ph2 : ph2 = IF x # None /\ ph[x] = "open" THEN [ph EXCEPT ![x] = "leaving"] ELSE ph
    OBVIOUS
  <2>5. PICK b2 : b2 = [b EXCEPT ![s] = Append(b[s], [call |-> "delete"])]
    OBVIOUS
  <2>6. PICK m2 : m2 = [m EXCEPT ![u] = None]
    OBVIOUS
  <2>7. PICK cl2 : cl2 = cl \cup {s}
    OBVIOUS
  <2>8. PICK up2 : up2 = IF s \in cl THEN up \cup {u} ELSE up
    OBVIOUS
  <2>9. /\ inbox' = b2 /\ sessions' = m2 /\ upset' = up2 /\ closed' = cl2 /\ phase' = ph2
        /\ directory' = dir2 /\ crashed' = FALSE
    BY <1>5, <1>6, <1>16, <2>3, <2>4, <2>5, <2>6, <2>7, <2>8
       DEF Now, AddedElsewhere, InMain, SessionClosed, ToldToLeave
  <2>10. s \in Alive(o)
    BY <2>1 DEF Alive
  <2>11. Shuts(o, b, m, up, cl, dir, b2, m2, up2, cl2, dir2, s, u, "elsewhere")
    BY <1>5, <1>6, <1>16, <2>1, <2>2, <2>5, <2>6, <2>7, <2>8, <2>10 DEF Shuts
  <2>12. /\ Stands(q, a, o, b2, w, m2, up2, cl2, bd, dir2)
         /\ MixedStill(q, o, up, q, o, up2) /\ Grows(b, b2)
         /\ Single(Lines(q, a, b)) => Calm(Lines(q, a, b), Lines(q, a, b2))
    BY <1>9, <2>11, ShutInMain
  <2>13. Calm(Lines(q, a, b), Lines(q, a, b2))
    BY <1>1, <2>12 DEF Queued
  <2>14. /\ ph2 \in [Conn -> {"away", "open", "leaving", "bye", "closed"}]
         /\ \A d \in Conn : /\ ph2[d] = "away" <=> ph[d] = "away"
                            /\ Open(ph2[d]) <=> Open(ph[d])
                            /\ ph2[d] = "open" => ph[d] = "open" /\ d # x
    BY <1>8, <1>13, <2>4 DEF Open
  <2>15. \A t \in Sess, d \in Conn :
            t \notin cl /\ ph2[d] = "open" /\ (o[t].conn = d \/ o[t].setting = d) => t \notin cl2
    BY <1>8, <2>1, <2>3, <2>7, <2>14
  <2> QED
    BY <1>11, <2>9, <2>12, <2>13, <2>14, <2>15
<1> QED
  BY <1>14, <1>15, <1>16

-----------------------------------------------------------------------------
(* The database, and ConnectionManager::broadcast.                         *)

\* The repository answers the first request.
Answering ==
    /\ asked # <<>> /\ asked' = Tail(asked)
    /\ UNCHANGED <<connections, session, owes, sessions, directory, abroad, events,
                   crashed, closed, upset, late>>

(* UserRepository::createUser and validateSessionToken for a connection.   *)
LEMMA StepConnectionAnswer ==
  ASSUME NEW q, NEW a, NEW o, NEW b, NEW w, NEW m, NEW up, NEW cl, NEW bd, NEW ph, NEW lt,
         NEW dir, NEW r, NEW n, Now(q, a, o, b, w, m, up, cl, bd, ph, lt, dir, r, n),
         Good(q, a, o, b, w, m, up, cl, bd, ph, lt, dir, r, n), Sound,
         Answering, AnswerConnection(Head(asked))
  PROVE  Inv'
<1>1. /\ Types(q, a, o, b, w, m, up, cl, bd, ph, lt, dir, r, n)
      /\ Fits(o, b, w, cl) /\ Called(q, a, o, bd)
      /\ Queued(Lines(q, a, b), a, o, bd, ph, r, n)
      /\ Kept(q, o, m, up, cl, b) /\ Told(q, w, m, up, dir, b)
      /\ Tied(o, bd, ph, b) /\ Attended(q, o, up, cl, bd, ph, lt, Waiting(Lines(q, a, b)))
  BY DEF Good
<1>2. /\ q \in Seq(MainCall) /\ a \in Seq(Ask) /\ o \in [Sess -> Object]
      /\ b \in [Sess -> Seq(SessCall)] /\ w \in [Sess -> Seq(MainCall)]
      /\ m \in [User -> Sess \cup {None, Null}]
      /\ up \in SUBSET User /\ cl \in SUBSET Sess /\ lt \in SUBSET Conn
      /\ bd \in [Conn -> Sess \cup {None}] /\ n \in Nat /\ n <= MaxEvents
  BY <1>1, BoundsAssumption DEF Types
<1>3. a # <<>> /\ Head(a) = a[1] /\ a[1] \in Ask /\ Tail(a) \in Seq(Ask)
      /\ Len(a) \in Nat \ {0} /\ Len(Tail(a)) = Len(a) - 1
  BY <1>2, Headed DEF Now, Answering
<1>4. a[1].ask \in {"create", "validate"}
  BY <1>3 DEF Now, AnswerConnection
<1>5. PICK c \in Conn : c = a[1].conn
  BY <1>3, <1>4 DEF Ask
<1>6. PICK a2 : a2 = Tail(a)
  OBVIOUS
<1>7. PICK l : l = Lines(q, a, b)
  OBVIOUS
<1>8. /\ l \in [Queue -> Seq(Entry)] /\ l[-1] = a /\ 0 \in Queue /\ -1 \in Queue
  BY <1>2, <1>7, LinesAre
<1>9. PICK l1 : l1 = Lines(q, a2, b)
  OBVIOUS
<1>10. l1 \in [Queue -> Seq(Entry)]
  BY <1>2, <1>3, <1>6, <1>9, LinesAre
<1>11. /\ Single(l) /\ Unbound(Waiting(l), o, bd, ph)
       /\ Sessions(o, Waiting(l), n) /\ Rows(r, Turned(l), a, n)
  BY <1>1, <1>7 DEF Queued
<1>12. \A d : Pass(-1, a[1], d) <=> d = c
  BY <1>4, <1>5 DEF Pass
<1>13. /\ Single(l1) /\ Waiting(l1) \subseteq Waiting(l) /\ Turned(l1) \subseteq Turned(l)
       /\ c \in Waiting(l) /\ c \notin Waiting(l1)
       /\ \A d \in Conn : d # c /\ d \in Waiting(l) => d \in Waiting(l1)
  <2>1. Popped(l, l1, -1)
    BY <1>2, <1>3, <1>6, <1>7, <1>9, LinesPop
  <2> QED
    BY <1>8, <1>11, <1>12, <2>1, PoppedSingle
<1>14. Stands(q, a2, o, b, w, m, up, cl, bd, dir)
  <2>1. Called(q, a2, o, bd)
    BY <1>1, <1>2, <1>3, <1>6, CalledAsk
  <2> QED
    BY <1>1, <1>3, <1>6, <2>1 DEF Stands, Types
<1>15. ASSUME NEW u \in User, NEW r2, record' = r2, NEW x, x = [call |-> "token", conn |-> c, user |-> u],
              main' = Append(q, x), r2 \in [User -> {"none", "guest", "account", "deleted"}],
              \A l2 : Turned(l2) \subseteq Turned(l) => Rows(r2, Turned(l2), a2, n)
       PROVE  Inv'
  <2>1. PICK q2 : q2 = Append(q, x)
    OBVIOUS
  <2>2. PICK l2 : l2 = Lines(q2, a2, b)
    OBVIOUS
  <2>3. x \in MainCall /\ x.call = "token" /\ x.conn = c
    BY <1>15 DEF MainCall
  <2>4. Then(q2, a2, o, b, w, m, up, cl, bd, ph, lt, dir, r2, n) /\ abroad' = abroad
        /\ crashed' = crashed
    BY <1>6, <1>15, <2>1 DEF Now, Then, Answering, AnswerConnection, connections
  <2>5. Stands(q2, a2, o, b, w, m, up, cl, bd, dir) /\ MixedStill(q, o, up, q2, o, up)
    BY <1>14, <2>1, <2>3, Sent
  <2>6. /\ Single(l2) /\ Waiting(l2) = Waiting(l1) \cup {c} /\ Turned(l2) = Turned(l1)
    <3>1. Pushed(l1, l2, 0, x)
      BY <1>2, <1>3, <1>6, <1>9, <2>1, <2>2, LinesPush
    <3>2. \A d : Pass(0, x, d) <=> d = c
      BY <2>3 DEF Pass
    <3>3. Apart(l1, 0, x) /\ x \in Entry
      BY <1>13, <2>3, <3>2 DEF Apart, Entry
    <3>4. /\ Single(l2)
          /\ Waiting(l2) = Waiting(l1) \cup {d \in Conn : Pass(0, x, d)}
          /\ Turned(l2) = Turned(l1) \cup {d \in Conn : Pass(0, x, d) /\ 0 # -1 /\ x.call # "token"}
      <4>1. l1 \in [Queue -> Seq(Entry)] /\ 0 \in Queue /\ x \in Entry /\ Pushed(l1, l2, 0, x)
            /\ Single(l1) /\ Apart(l1, 0, x)
        BY <1>8, <1>10, <1>13, <3>1, <3>3
      <4> QED
        BY <4>1, PushedSingle
    <3> QED
      BY <2>3, <3>2, <3>4
  <2>7. Waiting(l2) = Waiting(l) /\ Turned(l2) \subseteq Turned(l)
        /\ Waiting(l) \subseteq Conn
    BY <1>13, <2>6 DEF Waiting
  <2>8. Queued(l2, a2, o, bd, ph, r2, n)
    BY <1>11, <1>15, <2>6, <2>7 DEF Queued
  <2>9. Attended(q2, o, up, cl, bd, ph, lt, Waiting(l2))
    <3>1. Attends(o, cl, bd, ph, lt, Waiting(l), q2, o, up, cl, bd, ph, lt, Waiting(l2))
      BY <2>7 DEF Attends
    <3> QED
      BY <1>1, <1>7, <2>5, <3>1, AttendedStep
  <2>10. Types(q2, a2, o, b, w, m, up, cl, bd, ph, lt, dir, r2, n)
    BY <1>1, <1>15, <2>5 DEF Types, Stands
  <2>11. Good(q2, a2, o, b, w, m, up, cl, bd, ph, lt, dir, r2, n)
    BY <1>1, <2>2, <2>5, <2>8, <2>9, <2>10 DEF Good, Stands
  <2> QED
    BY <2>4, <2>11, InvAgain DEF Sound
<1>16. r \in [User -> {"none", "guest", "account", "deleted"}] /\ a2 \in Seq(Ask)
       /\ Len(a2) = Len(a) - 1 /\ Turned(l) \subseteq Conn
  BY <1>1, <1>3, <1>6 DEF Types, Turned
<1>17. \A t \in SUBSET Turned(l) :
         /\ t \in SUBSET Conn
         /\ Cardinality(t) + Len(a2) + 1 <= Cardinality(Turned(l)) + Len(a)
         /\ Cardinality(t) + Len(a2) + n <= Cardinality(Turned(l)) + Len(a) + n
  <2> SUFFICES ASSUME NEW t \in SUBSET Turned(l)
               PROVE  /\ t \in SUBSET Conn
                      /\ Cardinality(t) + Len(a2) + 1 <= Cardinality(Turned(l)) + Len(a)
                      /\ Cardinality(t) + Len(a2) + n <= Cardinality(Turned(l)) + Len(a) + n
    OBVIOUS
  <2>1. t \in SUBSET Conn /\ Turned(l) \in SUBSET Conn
    BY <1>16
  <2>2. Cardinality(t) <= Cardinality(Turned(l)) /\ Cardinality(t) \in Nat
        /\ Cardinality(Turned(l)) \in Nat
    BY <2>1, Counted
  <2> QED
    BY <1>2, <1>3, <1>16, <2>1, <2>2
<1>18. CASE Vouched(Head(asked))
  <2>1. /\ main' = Append(q, [call |-> "token", conn |-> c, user |-> a[1].user]) /\ record' = r
    BY <1>3, <1>5, <1>18 DEF Now, AnswerConnection
  <2>2. a[1].user \in User
    <3>1. a[1].ask = "validate" /\ a[1].user # None
      BY <1>3, <1>18 DEF Now, Vouched
    <3> QED
      BY <1>3, <3>1 DEF Ask
  <2>3. ASSUME NEW l2, Turned(l2) \subseteq Turned(l)  PROVE Rows(r, Turned(l2), a2, n)
    BY <1>2, <1>11, <1>16, <1>17, <2>3, RowsStep, Unmoved
  <2> QED
    BY <1>15, <1>16, <2>1, <2>2, <2>3
<1>19. CASE ~Vouched(Head(asked))
  <2>1. PICK u \in User : /\ NextRow(r, u)
                          /\ \A t \in SUBSET Turned(l) : \A r2 : Adds(r, r2, u) => Rows(r2, t, a2, n)
    <3>1. \A t \in SUBSET Turned(l) :
            \E u \in User : NextRow(r, u) /\ \A r2 : Adds(r, r2, u) => Rows(r2, t, a2, n)
      BY <1>2, <1>11, <1>16, <1>17, RowsBirth
    <3>2. \A u \in User : NextRow(r, u) => u = NewUser
      BY NewUserIs DEF Now
    <3> QED
      BY <3>1, <3>2
  <2>2. NewUser = u
    BY <2>1, NewUserIs DEF Now
  <2>3. PICK r2 : r2 = [r EXCEPT ![u] = "guest"]
    OBVIOUS
  <2>4. main' = Append(q, [call |-> "token", conn |-> c, user |-> u]) /\ record' = r2
    BY <1>3, <1>5, <1>19, <2>2, <2>3 DEF Now, AnswerConnection
  <2>5. Adds(r, r2, u) /\ r2 \in [User -> {"none", "guest", "account", "deleted"}]
    BY <1>16, <2>3 DEF Adds
  <2>6. ASSUME NEW l2, Turned(l2) \subseteq Turned(l)  PROVE Rows(r2, Turned(l2), a2, n)
    BY <2>1, <2>5, <2>6
  <2> QED
    BY <1>15, <2>4, <2>5, <2>6
<1> QED
  BY <1>18, <1>19

(* What the repository answers a session that asks to log on or off.       *)
LEMMA StepSessionAnswer ==
  ASSUME NEW q, NEW a, NEW o, NEW b, NEW w, NEW m, NEW up, NEW cl, NEW bd, NEW ph, NEW lt,
         NEW dir, NEW r, NEW n, Now(q, a, o, b, w, m, up, cl, bd, ph, lt, dir, r, n),
         Good(q, a, o, b, w, m, up, cl, bd, ph, lt, dir, r, n), Sound,
         Answering, AnswerSession(Head(asked))
  PROVE  Inv'
<1>1. /\ Types(q, a, o, b, w, m, up, cl, bd, ph, lt, dir, r, n)
      /\ Fits(o, b, w, cl) /\ Called(q, a, o, bd)
      /\ Queued(Lines(q, a, b), a, o, bd, ph, r, n)
      /\ Kept(q, o, m, up, cl, b) /\ Told(q, w, m, up, dir, b)
      /\ Tied(o, bd, ph, b) /\ Attended(q, o, up, cl, bd, ph, lt, Waiting(Lines(q, a, b)))
  BY DEF Good
<1>2. /\ q \in Seq(MainCall) /\ a \in Seq(Ask) /\ o \in [Sess -> Object]
      /\ b \in [Sess -> Seq(SessCall)] /\ w \in [Sess -> Seq(MainCall)]
      /\ m \in [User -> Sess \cup {None, Null}]
      /\ up \in SUBSET User /\ cl \in SUBSET Sess /\ lt \in SUBSET Conn
      /\ bd \in [Conn -> Sess \cup {None}] /\ n \in Nat /\ n <= MaxEvents
  BY <1>1, BoundsAssumption DEF Types
<1>3. a # <<>> /\ Head(a) = a[1] /\ a[1] \in Ask /\ Tail(a) \in Seq(Ask)
      /\ Len(a) \in Nat \ {0} /\ Len(Tail(a)) = Len(a) - 1
  BY <1>2, Headed DEF Now, Answering
<1>4. a[1].ask = "log"
  BY <1>3 DEF Now, AnswerSession
<1>5. PICK s \in Sess, v \in User : s = a[1].session /\ v = a[1].user
  BY <1>3, <1>4 DEF Ask
<1>6. PICK a2 : a2 = Tail(a)
  OBVIOUS
<1>7. PICK l : l = Lines(q, a, b)
  OBVIOUS
<1>8. PICK l1 : l1 = Lines(q, a2, b)
  OBVIOUS
<1>9. /\ Single(l) /\ Unbound(Waiting(l), o, bd, ph)
      /\ Sessions(o, Waiting(l), n) /\ Rows(r, Turned(l), a, n)
  BY <1>1, <1>7 DEF Queued
<1>10. Calm(l, l1)
  <2>1. Popped(l, l1, -1)
    BY <1>2, <1>3, <1>6, <1>7, <1>8, LinesPop
  <2>2. l \in [Queue -> Seq(Entry)] /\ l[-1] = a /\ -1 \in Queue
    BY <1>2, <1>7, LinesAre
  <2>3. \A d \in Conn : ~Pass(-1, l[-1][1], d)
    BY <1>4, <2>2 DEF Pass
  <2> QED
    BY <1>9, <2>1, <2>2, <2>3, CalmPop
<1>11. Stands(q, a2, o, b, w, m, up, cl, bd, dir)
  <2>1. Called(q, a2, o, bd)
    BY <1>1, <1>2, <1>3, <1>6, CalledAsk
  <2> QED
    BY <1>1, <1>3, <1>6, <2>1 DEF Stands, Types
<1>12. PICK u \in User :
        /\ \/ /\ record[u] = "account" /\ u # v
              /\ record' = IF record[v] = "guest" THEN [record EXCEPT ![v] = "deleted"] ELSE record
           \/ /\ u = v
              /\ record' = [record EXCEPT ![u] = IF @ = "guest" THEN "account" ELSE @]
           \/ /\ u = NewUser
              /\ record' = [record EXCEPT ![u] = "guest"]
        /\ inbox' = IF s \in Live THEN [inbox EXCEPT ![s] = Append(@, [call |-> "user", user |-> u])]
                    ELSE inbox
  BY <1>3, <1>5 DEF AnswerSession, Now
<1>13. r \in [User -> {"none", "guest", "account", "deleted"}] /\ a2 \in Seq(Ask)
       /\ Len(a2) = Len(a) - 1 /\ Turned(l) \in SUBSET Conn /\ Waiting(l) \in SUBSET Conn
  BY <1>1, <1>3, <1>6 DEF Types, Turned, Waiting
<1>14. PICK r2 : /\ record' = r2 /\ r2 \in [User -> {"none", "guest", "account", "deleted"}]
                 /\ Rows(r2, Turned(l), a2, n)
  <2>1. /\ Cardinality(Turned(l)) + Len(a2) + 1 <= Cardinality(Turned(l)) + Len(a)
        /\ Cardinality(Turned(l)) + Len(a2) + n <= Cardinality(Turned(l)) + Len(a) + n
    <3>1. Cardinality(Turned(l)) \in Nat
      BY <1>13, Counted
    <3> QED
      BY <1>2, <1>3, <1>13, <3>1
  <2>2. CASE u = NewUser /\ record' = [record EXCEPT ![u] = "guest"]
    <3>1. PICK x \in User : NextRow(r, x) /\ \A r2 : Adds(r, r2, x) => Rows(r2, Turned(l), a2, n)
      BY <1>2, <1>9, <1>13, <2>1, RowsBirth
    <3>2. x = u
      BY <2>2, <3>1, NewUserIs DEF Now
    <3>3. PICK r2 : r2 = [r EXCEPT ![u] = "guest"]
      OBVIOUS
    <3>4. Adds(r, r2, u) /\ r2 \in [User -> {"none", "guest", "account", "deleted"}]
      BY <1>13, <3>3 DEF Adds
    <3>5. record' = r2
      BY <2>2, <3>3 DEF Now
    <3> QED
      BY <3>1, <3>2, <3>4, <3>5
  <2>3. ASSUME NEW r2, record' = r2, r2 \in [User -> {"none", "guest", "account", "deleted"}],
               Kin(r, r2)
        PROVE  Rows(r2, Turned(l), a2, n)
    BY <1>2, <1>9, <1>13, <2>1, <2>3, RowsStep
  <2>4. CASE record' = IF record[v] = "guest" THEN [record EXCEPT ![v] = "deleted"] ELSE record
    <3>1. PICK r2 : r2 = IF r[v] = "guest" THEN [r EXCEPT ![v] = "deleted"] ELSE r
      OBVIOUS
    <3>2. Kin(r, r2) /\ r2 \in [User -> {"none", "guest", "account", "deleted"}]
      BY <1>13, <3>1 DEF Kin
    <3>3. record' = r2
      BY <2>4, <3>1 DEF Now
    <3> QED
      BY <2>3, <3>2, <3>3
  <2>5. CASE record' = [record EXCEPT ![u] = IF @ = "guest" THEN "account" ELSE @]
    <3>1. PICK r2 : r2 = [r EXCEPT ![u] = IF r[u] = "guest" THEN "account" ELSE r[u]]
      OBVIOUS
    <3>2. Kin(r, r2) /\ r2 \in [User -> {"none", "guest", "account", "deleted"}]
      BY <1>13, <3>1 DEF Kin
    <3>3. record' = r2
      BY <2>5, <3>1 DEF Now
    <3> QED
      BY <2>3, <3>2, <3>3
  <2> QED
    BY <1>12, <2>2, <2>4, <2>5
<1>15. PICK x : x = [call |-> "user", user |-> u]
  OBVIOUS
<1>16. x \in SessCall /\ x.call = "user"
  BY <1>15 DEF SessCall
<1>17. PICK b2 : b2 = IF o[s].state = "live" THEN [b EXCEPT ![s] = Append(b[s], x)] ELSE b
  OBVIOUS
<1>18. inbox' = b2
  BY <1>12, <1>15, <1>17 DEF Now, Live
<1>19. PICK l2 : l2 = Lines(q, a2, b2)
  OBVIOUS
<1>20. Stands(q, a2, o, b2, w, m, up, cl, bd, dir) /\ Grows(b, b2) /\ Calm(l1, l2)
  <2>1. CASE o[s].state = "live"
    <3>1. Posts(o, b, b2, s, x)
      BY <1>16, <1>17, <2>1 DEF Posts
    <3>2. /\ Stands(q, a2, o, b2, w, m, up, cl, bd, dir) /\ Gains(b, b2, s, x.call)
          /\ x.call # "set" /\ Single(Lines(q, a2, b)) => Calm(Lines(q, a2, b), Lines(q, a2, b2))
      BY <1>11, <3>1, Posted
    <3> QED
      BY <1>8, <1>10, <1>16, <1>19, <3>2 DEF Gains, Grows, Calm
  <2>2. CASE o[s].state # "live"
    <3>1. b2 = b
      BY <1>17, <2>2
    <3> QED
      BY <1>8, <1>10, <1>11, <1>19, <3>1 DEF Grows, Calm
  <2> QED
    BY <2>1, <2>2
<1>21. Calm(l, l2)
  BY <1>10, <1>20, CalmTwice
<1>22. Then(q, a2, o, b2, w, m, up, cl, bd, ph, lt, dir, r2, n) /\ abroad' = abroad
       /\ crashed' = crashed
  BY <1>6, <1>14, <1>18 DEF Now, Then, Answering, AnswerSession, connections
<1>23. Queued(l2, a2, o, bd, ph, r2, n)
  BY <1>9, <1>14, <1>21 DEF Queued, Calm
<1>24. Tied(o, bd, ph, b2)
  BY <1>1, <1>20, TiedBox DEF Grows
<1>25. Attended(q, o, up, cl, bd, ph, lt, Waiting(l2))
  BY <1>1, <1>7, <1>21 DEF Calm
<1>26. Types(q, a2, o, b2, w, m, up, cl, bd, ph, lt, dir, r2, n)
  BY <1>1, <1>14, <1>20 DEF Types, Stands
<1>27. Good(q, a2, o, b2, w, m, up, cl, bd, ph, lt, dir, r2, n)
  BY <1>19, <1>20, <1>23, <1>24, <1>25, <1>26 DEF Good, Stands
<1> QED
  BY <1>22, <1>27, InvAgain DEF Sound

(* ConnectionManager::broadcast finds what is not there only of users      *)
(* whose entries have been mixed up.                                       *)
LEMMA StepBroadcast ==
  ASSUME NEW q, NEW a, NEW o, NEW b, NEW w, NEW m, NEW up, NEW cl, NEW bd, NEW ph, NEW lt,
         NEW dir, NEW r, NEW n, Now(q, a, o, b, w, m, up, cl, bd, ph, lt, dir, r, n),
         Good(q, a, o, b, w, m, up, cl, bd, ph, lt, dir, r, n), Sound,
         Broadcast
  PROVE  Inv'
<1>1. /\ Types(q, a, o, b, w, m, up, cl, bd, ph, lt, dir, r, n)
      /\ Fits(o, b, w, cl) /\ Called(q, a, o, bd)
      /\ Queued(Lines(q, a, b), a, o, bd, ph, r, n)
      /\ Kept(q, o, m, up, cl, b) /\ Told(q, w, m, up, dir, b)
      /\ Tied(o, bd, ph, b) /\ Attended(q, o, up, cl, bd, ph, lt, Waiting(Lines(q, a, b)))
  BY DEF Good
<1>2. /\ q \in Seq(MainCall) /\ a \in Seq(Ask) /\ o \in [Sess -> Object]
      /\ b \in [Sess -> Seq(SessCall)] /\ w \in [Sess -> Seq(MainCall)]
      /\ m \in [User -> Sess \cup {None, Null}]
      /\ up \in SUBSET User /\ cl \in SUBSET Sess /\ lt \in SUBSET Conn
      /\ bd \in [Conn -> Sess \cup {None}] /\ n \in Nat /\ n <= MaxEvents
  BY <1>1, BoundsAssumption DEF Types
<1>3. Then(q, a, o, b, w, m, up, cl, bd, ph, lt, dir, r, n) /\ abroad' = abroad
      /\ crashed' = TRUE
  BY DEF Now, Then, Broadcast, connections
<1>4. PICK u \in User : m[u] # None /\ m[u] \notin Live
  BY DEF Broadcast, Now
<1>5. m[u] = Null
  BY <1>1, <1>2, <1>4 DEF Kept, KeptBut, Entries, Live, Now
<1>6. u \in up
  BY <1>1, <1>5 DEF Kept, KeptBut, Entries
<1> QED
  BY <1>3, <1>6, InvAgain DEF Sound

(* The client says that its window is closed.                              *)
LEMMA StepWindowClosed ==
  ASSUME NEW q, NEW a, NEW o, NEW b, NEW w, NEW m, NEW up, NEW cl, NEW bd, NEW ph, NEW lt,
         NEW dir, NEW r, NEW n, Now(q, a, o, b, w, m, up, cl, bd, ph, lt, dir, r, n),
         Good(q, a, o, b, w, m, up, cl, bd, ph, lt, dir, r, n), Sound,
         upset = {}, NEW c \in Conn, NEW socket \in BOOLEAN, WindowClosed(c, socket)
  PROVE  Inv'
<1>1. /\ Types(q, a, o, b, w, m, up, cl, bd, ph, lt, dir, r, n)
      /\ Fits(o, b, w, cl) /\ Called(q, a, o, bd)
      /\ Queued(Lines(q, a, b), a, o, bd, ph, r, n)
      /\ Kept(q, o, m, up, cl, b) /\ Told(q, w, m, up, dir, b)
      /\ Tied(o, bd, ph, b) /\ Attended(q, o, up, cl, bd, ph, lt, Waiting(Lines(q, a, b)))
  BY DEF Good
<1>2. /\ q \in Seq(MainCall) /\ a \in Seq(Ask) /\ o \in [Sess -> Object]
      /\ b \in [Sess -> Seq(SessCall)] /\ w \in [Sess -> Seq(MainCall)]
      /\ m \in [User -> Sess \cup {None, Null}]
      /\ up \in SUBSET User /\ cl \in SUBSET Sess /\ lt \in SUBSET Conn
      /\ bd \in [Conn -> Sess \cup {None}] /\ n \in Nat /\ n <= MaxEvents
  BY <1>1, BoundsAssumption DEF Types
<1>3. PICK s \in Sess : s = bd[c]
  BY <1>2 DEF WindowClosed, Now
<1>4. PICK ph2 : ph2 = [ph EXCEPT ![c] = IF socket THEN "closed" ELSE "bye"]
  OBVIOUS
<1>5. Open(ph[c]) /\ None \notin Sess /\ None \notin Conn /\ bd[c] = s /\ up = {}
  BY <1>2, <1>3 DEF WindowClosed, Now, Open, None, Sess, Conn
<1>6. /\ ph2 \in [Conn -> {"away", "open", "leaving", "bye", "closed"}]
      /\ ph2[c] = (IF socket THEN "closed" ELSE "bye") /\ \A d \in Conn \ {c} : ph2[d] = ph[d]
      /\ \A d \in Conn : ph2[d] = "away" <=> ph[d] = "away"
  <2>1. ph \in [Conn -> {"away", "open", "leaving", "bye", "closed"}]
    BY <1>1 DEF Types
  <2> QED
    BY <1>4, <1>5, <2>1 DEF Open
<1>7. Stands(q, a, o, b, w, m, up, cl, bd, dir)
  BY <1>1 DEF Stands, Types
<1>8. ASSUME NEW o1, NEW b1, socket => Loses(o, b, o1, b1, s, c), ~socket => o1 = o, Grows(b, b1)
      PROVE  /\ Tied(o1, bd, ph2, b1)
             /\ \A t \in Sess, d \in Conn : d # c /\ Open(ph[d]) /\ o[t].conn = d /\ o[t].state = "live"
                   /\ bd[d] = t => o1[t].conn = d
             /\ \A t \in Sess : o1[t].state = o[t].state /\ o1[t].setting = o[t].setting
  <2>1. CASE ~socket
    <3>1. \A d \in Conn : Open(ph2[d]) <=> Open(ph[d])
      BY <1>5, <1>6, <2>1 DEF Open
    <3>2. Tied(o, bd, ph2, b1)
      BY <1>1, <1>8, <3>1 DEF Tied, Grows
    <3> QED
      BY <1>8, <2>1, <3>2
  <2>2. CASE socket
    <3>1. ph2[c] = "closed" /\ Loses(o, b, o1, b1, s, c)
      BY <1>6, <1>8, <2>2
    <3>2. /\ Tied(o1, bd, ph2, b1)
          /\ \A t \in Sess, d \in Conn : d # c /\ Open(ph[d]) /\ o[t].conn = d
               /\ o[t].state = "live" /\ bd[d] = t => o1[t].conn = d
      BY <1>1, <1>3, <1>5, <1>6, <3>1, TiedLoses
    <3> QED
      BY <3>1, <3>2 DEF Loses
  <2> QED
    BY <2>1, <2>2
<1>9. ASSUME NEW o1, NEW b1, NEW b2, NEW m2, NEW up2, NEW cl2, NEW dir2,
             session' = o1, inbox' = b2, sessions' = m2, upset' = up2, closed' = cl2, directory' = dir2,
             owes' = w, main' = q,
             Stands(q, a, o1, b2, w, m2, up2, cl2, bd, dir2), MixedStill(q, o, up, q, o1, up2),
             Born(o, o1), Calm(Lines(q, a, b), Lines(q, a, b2)),
             socket => Loses(o, b, o1, b1, s, c), ~socket => o1 = o, Grows(b, b1), Grows(b1, b2),
             crashed' \in BOOLEAN, crashed' => up2 # {},
             \A t \in Sess, d \in Conn :
                d # c /\ Open(ph[d]) /\ t \notin cl /\ (o[t].conn = d \/ o[t].setting = d) => t \notin cl2
       PROVE  Inv'
  <2>1. Then(q, a, o1, b2, w, m2, up2, cl2, bd, ph2, lt, dir2, r, n) /\ abroad' = abroad
    BY <1>4, <1>9 DEF Now, Then, WindowClosed
  <2>2. /\ Tied(o1, bd, ph2, b1)
        /\ \A t \in Sess, d \in Conn : d # c /\ Open(ph[d]) /\ o[t].conn = d /\ o[t].state = "live"
              /\ bd[d] = t => o1[t].conn = d
        /\ \A t \in Sess : o1[t].state = o[t].state /\ o1[t].setting = o[t].setting
    BY <1>8, <1>9
  <2>3. Tied(o1, bd, ph2, b2)
    BY <1>9, <2>2, TiedBox DEF Grows
  <2>4. Queued(Lines(q, a, b2), a, o1, bd, ph2, r, n)
    <3>1. SameBound(o, bd, ph, o1, bd, ph2) /\ Kin(r, r) /\ Len(a) \in Nat
      BY <1>2, <1>6, <2>2, LenProperties DEF SameBound, Kin
    <3>2. Len(a) + n <= Len(a) + n /\ n <= n
      BY <1>2, <3>1
    <3> QED
      BY <1>1, <1>2, <1>9, <3>1, <3>2, QueuedCalm
  <2>5. Attended(q, o1, up2, cl2, bd, ph2, lt, Waiting(Lines(q, a, b2)))
    <3>1. Attends(o, cl, bd, ph, lt, Waiting(Lines(q, a, b)), q, o1, up2, cl2, bd, ph2, lt,
                  Waiting(Lines(q, a, b2)))
      <4>1. \A d \in Conn : ph2[d] = "open" => d # c /\ ph[d] = "open" /\ Open(ph[d])
        BY <1>6 DEF Open
      <4>2. Waiting(Lines(q, a, b2)) = Waiting(Lines(q, a, b))
        BY <1>9 DEF Calm
      <4> QED
        BY <1>9, <2>2, <4>1, <4>2 DEF Attends
    <3> QED
      BY <1>1, <1>9, <3>1, AttendedStep
  <2>6. Types(q, a, o1, b2, w, m2, up2, cl2, bd, ph2, lt, dir2, r, n)
    BY <1>1, <1>6, <1>9 DEF Types, Stands
  <2>7. Good(q, a, o1, b2, w, m2, up2, cl2, bd, ph2, lt, dir2, r, n)
    BY <1>9, <2>3, <2>4, <2>5, <2>6 DEF Good, Stands
  <2> QED
    BY <1>9, <2>1, <2>7, InvAgain DEF Sound
<1>10. /\ Calm(Lines(q, a, b), Lines(q, a, b)) /\ Born(o, o) /\ MixedStill(q, o, up, q, o, up)
       /\ \A x : Grows(x, x)
  BY <1>1 DEF Calm, Queued, Born, MixedStill, Grows
<1>11. s \in Live <=> o[s].state = "live"
  BY DEF Live, Now
<1>12. CASE s \notin Live
  <2>1. /\ session' = o /\ inbox' = b /\ sessions' = m /\ upset' = up /\ closed' = cl
        /\ directory' = dir /\ owes' = w /\ main' = q /\ crashed' = FALSE
    BY <1>3, <1>12 DEF Now, WindowClosed, Sound
  <2>2. Loses(o, b, o, b, s, c)
    BY <1>11, <1>12 DEF Loses
  <2> QED
    BY <1>7, <1>9, <1>10, <2>1, <2>2
<1>13. CASE s \in Live /\ o[s].home # "main"
  <2>1. PICK y : y = [call |-> "clear"]
    OBVIOUS
  <2>2. PICK z : z = [call |-> "shutdown"]
    OBVIOUS
  <2>3. PICK b1 : b1 = IF socket THEN [b EXCEPT ![s] = Append(b[s], y)] ELSE b
    OBVIOUS
  <2>4. PICK b2 : b2 = [b1 EXCEPT ![s] = Append(b1[s], z)]
    OBVIOUS
  <2>5. y \in SessCall /\ y.call = "clear" /\ z \in SessCall /\ z.call = "shutdown"
    BY <2>1, <2>2 DEF SessCall
  <2>6. /\ Stands(q, a, o, b1, w, m, up, cl, bd, dir) /\ Grows(b, b1)
        /\ Calm(Lines(q, a, b), Lines(q, a, b1)) /\ (socket => Loses(o, b, o, b1, s, c))
    <3>1. CASE socket
      <4>1. Posts(o, b, b1, s, y)
        BY <1>11, <1>13, <2>3, <2>5, <3>1 DEF Posts
      <4>2. /\ Stands(q, a, o, b1, w, m, up, cl, bd, dir) /\ Gains(b, b1, s, y.call)
            /\ y.call # "set" /\ Single(Lines(q, a, b)) => Calm(Lines(q, a, b), Lines(q, a, b1))
        BY <1>7, <4>1, Posted
      <4> QED
        BY <1>1, <2>5, <4>2 DEF Gains, Grows, Loses, Queued
    <3>2. CASE ~socket
      BY <1>7, <1>10, <2>3, <3>2
    <3> QED
      BY <3>1, <3>2
  <2>7. Posts(o, b1, b2, s, z)
    BY <1>11, <1>13, <2>4, <2>5 DEF Posts
  <2>8. /\ Stands(q, a, o, b2, w, m, up, cl, bd, dir) /\ Gains(b1, b2, s, z.call)
        /\ z.call # "set" /\ Single(Lines(q, a, b1)) => Calm(Lines(q, a, b1), Lines(q, a, b2))
    BY <2>6, <2>7, Posted
  <2>9. Grows(b1, b2) /\ Calm(Lines(q, a, b1), Lines(q, a, b2))
    BY <2>5, <2>6, <2>8 DEF Gains, Grows, Calm
  <2>10. Calm(Lines(q, a, b), Lines(q, a, b2))
    BY <2>6, <2>9, CalmTwice
  <2>11. b[s] \o (IF socket THEN <<y, z>> ELSE <<z>>) = Append(b1[s], z)
    <3>1. b[s] \in Seq(SessCall) /\ b1[s] \in Seq(SessCall)
      BY <1>2, <2>6 DEF Stands
    <3>2. CASE socket
      <4>1. b1[s] = Append(b[s], y)
        BY <1>2, <2>3, <3>2
      <4>2. b[s] \o <<y, z>> = Append(Append(b[s], y), z)
        BY <2>5, <3>1, TwoAppended
      <4> QED
        BY <3>2, <4>1, <4>2
    <3>3. CASE ~socket
      <4>1. b1[s] = b[s]
        BY <2>3, <3>3
      <4> QED
        BY <2>5, <3>1, <3>3, <4>1, AppendIsConcat
    <3> QED
      BY <3>2, <3>3
  <2>12. b2 = [b EXCEPT ![s] = Append(b1[s], z)]
    BY <1>2, <2>3, <2>4
  <2>13. /\ session' = o /\ sessions' = m /\ upset' = up /\ closed' = cl
         /\ directory' = dir /\ owes' = w /\ main' = q /\ crashed' = FALSE /\ inbox' = b2
    <3>1. bound[c] = s /\ s \in Live /\ ~InMain(s)
      BY <1>3, <1>13 DEF Now, InMain
    <3>2. /\ inbox' = [inbox EXCEPT ![s] = @ \o (IF socket THEN <<y, z>> ELSE <<z>>)]
          /\ UNCHANGED <<session, owes, main, sessions, directory, crashed, closed, upset>>
      BY <2>1, <2>2, <3>1 DEF WindowClosed
    <3> QED
      BY <2>11, <2>12, <3>2 DEF Now, Sound
  <2> QED
    BY <1>9, <1>10, <2>6, <2>8, <2>9, <2>10, <2>13
<1>14. CASE s \in Live /\ o[s].home = "main"
  <2>1. PICK u : u = o[s].user
    OBVIOUS
  <2>2. PICK o1 : o1 = IF socket THEN [o EXCEPT ![s] = [o[s] EXCEPT !.conn = None, !.timer = TRUE]]
                       ELSE o
    OBVIOUS
  <2>3. PICK b2 : b2 = IF m[u] \in Alive(o)
                       THEN [b EXCEPT ![m[u]] = Append(b[m[u]], [call |-> "delete"])] ELSE b
    OBVIOUS
  <2>4. PICK m2 : m2 = [m EXCEPT ![u] = None]
    OBVIOUS
  <2>5. PICK cl2 : cl2 = cl \cup {s}
    OBVIOUS
  <2>6. PICK up2 : up2 = IF s \in cl THEN up \cup {u} ELSE up
    OBVIOUS
  <2>7. PICK x \in {"none", "elsewhere"} : x = IF dir[u] = "here" THEN "none" ELSE dir[u]
    <3>1. u \in User
      BY <1>1, <1>11, <1>14, <2>1 DEF Fits, Fit
    <3> QED
      BY <1>1, <3>1 DEF Types
  <2>8. PICK dir2 : dir2 = [dir EXCEPT ![u] = x]
    OBVIOUS
  <2>9. Live = Alive(o)
    BY DEF Now, Live, Alive
  <2>10. /\ session' = o1 /\ sessions' = m2 /\ upset' = up2 /\ closed' = cl2 /\ inbox' = b2
         /\ directory' = dir2 /\ owes' = w /\ main' = q /\ crashed' = (m[u] \notin Alive(o))
    <3>1. /\ bound[c] = s /\ s \in Live /\ InMain(s)
      BY <1>3, <1>14 DEF Now, InMain
    <3>2. /\ session' = IF socket THEN [session EXCEPT ![s] = Unconnected(@)] ELSE session
          /\ Close(s, inbox)
      BY <3>1 DEF WindowClosed
    <3>3. session' = o1
      BY <2>2, <3>2 DEF Now, Unconnected
    <3>4. /\ SessionClosed(u, inbox) /\ SessionRemoved(u) /\ UNCHANGED <<main, owes>>
          /\ closed' = cl2 /\ upset' = up2
      BY <2>1, <2>5, <2>6, <3>1, <3>2 DEF Close, Now
    <3> QED
      BY <2>3, <2>4, <2>7, <2>8, <2>9, <3>3, <3>4 DEF SessionClosed, SessionRemoved, Now
  <2>11. /\ Stands(q, a, o1, b, w, m, up, cl, bd, dir) /\ MixedStill(q, o, up, q, o1, up)
         /\ Born(o, o1) /\ (socket => Loses(o, b, o1, b, s, c)) /\ (~socket => o1 = o)
    <3>1. CASE socket
      <4>1. Rests(o, b, o1, b, w, cl) /\ Loses(o, b, o1, b, s, c)
        BY <1>7, <1>11, <1>14, <2>2, <3>1, LostInMain
      <4> QED
        BY <1>7, <3>1, <4>1, Rested
    <3>2. CASE ~socket
      BY <1>7, <1>10, <2>2, <3>2
    <3> QED
      BY <3>1, <3>2
  <2>12. /\ o1[s].state = "live" /\ o1[s].home = "main" /\ o1[s].user = u /\ Alive(o1) = Alive(o)
    BY <1>2, <1>11, <1>14, <2>1, <2>2 DEF Alive, Object
  <2>13. Shuts(o1, b, m, up, cl, dir, b2, m2, up2, cl2, dir2, s, u, x)
    BY <2>3, <2>4, <2>5, <2>6, <2>7, <2>8, <2>12 DEF Shuts
  <2>14. /\ Stands(q, a, o1, b2, w, m2, up2, cl2, bd, dir2)
         /\ MixedStill(q, o1, up, q, o1, up2) /\ Grows(b, b2)
         /\ m[u] \notin Alive(o1) => up2 # {}
         /\ Single(Lines(q, a, b)) => Calm(Lines(q, a, b), Lines(q, a, b2))
    BY <2>11, <2>13, ShutInMain
  <2>15. MixedStill(q, o, up, q, o1, up2) /\ Calm(Lines(q, a, b), Lines(q, a, b2))
    BY <1>1, <2>11, <2>14 DEF MixedStill, Born, Queued
  <2>16. \A t \in Sess, d \in Conn :
            d # c /\ Open(ph[d]) /\ t \notin cl /\ (o[t].conn = d \/ o[t].setting = d) => t \notin cl2
    <3>1. o[s].conn = c /\ o[s].setting = None
      BY <1>1, <1>5, <1>11, <1>14 DEF Tied, Fits, Fit
    <3> QED
      BY <1>5, <2>5, <3>1
  <2>17. crashed' \in BOOLEAN /\ (crashed' => up2 # {})
    BY <2>10, <2>12, <2>14
  <2> QED
    BY <1>9, <1>10, <2>10, <2>11, <2>14, <2>15, <2>16, <2>17
<1> QED
  BY <1>12, <1>13, <1>14

-----------------------------------------------------------------------------
(* The calls to sessions about connections that wait there.                *)

(* Session::~Session.                                                      *)
LEMMA StepDelete ==
  ASSUME NEW q, NEW a, NEW o, NEW b, NEW w, NEW m, NEW up, NEW cl, NEW bd, NEW ph, NEW lt,
         NEW dir, NEW r, NEW n, Now(q, a, o, b, w, m, up, cl, bd, ph, lt, dir, r, n),
         Good(q, a, o, b, w, m, up, cl, bd, ph, lt, dir, r, n), Sound,
         NEW s \in Sess, Taken(s), RunDelete(s, Head(inbox[s]))
  PROVE  Inv'
<1>1. /\ Types(q, a, o, b, w, m, up, cl, bd, ph, lt, dir, r, n)
      /\ Fits(o, b, w, cl) /\ Called(q, a, o, bd)
      /\ Queued(Lines(q, a, b), a, o, bd, ph, r, n)
      /\ Kept(q, o, m, up, cl, b) /\ Told(q, w, m, up, dir, b)
      /\ Tied(o, bd, ph, b) /\ Attended(q, o, up, cl, bd, ph, lt, Waiting(Lines(q, a, b)))
  BY DEF Good
<1>2. /\ q \in Seq(MainCall) /\ a \in Seq(Ask) /\ o \in [Sess -> Object]
      /\ b \in [Sess -> Seq(SessCall)] /\ w \in [Sess -> Seq(MainCall)]
      /\ m \in [User -> Sess \cup {None, Null}]
      /\ up \in SUBSET User /\ cl \in SUBSET Sess /\ lt \in SUBSET Conn
      /\ bd \in [Conn -> Sess \cup {None}] /\ n \in Nat /\ n <= MaxEvents
  BY <1>1, BoundsAssumption DEF Types
<1>3. /\ b[s] # <<>> /\ b[s][1] \in SessCall /\ Head(b[s]) = b[s][1]
      /\ o[s].state = "live" /\ o[s].setting = None /\ w[s] = <<>> /\ None \notin Conn
      /\ o[s].user \in User /\ o[s].home \in {"main", "scene"}
      /\ Has(b[s], b[s][1].call)
  BY Taking
<1>4. b[s][1].call = "delete"
  BY <1>3 DEF RunDelete, Now
<1>5. Has(b[s], "delete")
  BY <1>3, <1>4
<1>6. PICK o2 : o2 = [o EXCEPT ![s] = [o[s] EXCEPT !.state = "gone", !.conn = None, !.timer = FALSE]]
  OBVIOUS
<1>7. PICK b2 : b2 = [b EXCEPT ![s] = <<>>]
  OBVIOUS
<1>8. PICK lt2 : lt2 = lt \cup {c \in Conn : \E i \in DOMAIN b[s] :
                                    b[s][i].call = "set" /\ b[s][i].conn = c}
  OBVIOUS
<1>9. /\ o2 \in [Sess -> Object] /\ \A t \in Sess \ {s} : o2[t] = o[t]
      /\ o2[s].state = "gone" /\ o2[s].home = o[s].home /\ o2[s].user = o[s].user
      /\ o2[s].setting = None /\ o2[s].conn = None /\ ~o2[s].timer
  BY <1>2, <1>3, <1>6 DEF Object
<1>10. Then(q, a, o2, b2, w, m, up, cl, bd, ph, lt2, dir, r, n) /\ abroad' = abroad
       /\ crashed' = crashed
  <2>1. session' = o2
    <3>1. session' = [session EXCEPT ![s].state = "gone", ![s].conn = None, ![s].timer = FALSE]
      BY DEF RunDelete
    <3>2. PICK o3 : o3 = [o EXCEPT ![s] = [o[s] EXCEPT !.state = "gone"]]
      OBVIOUS
    <3>3. o3 \in [Sess -> Object]
      <4>1. PICK x : x = [o[s] EXCEPT !.state = "gone"]
        OBVIOUS
      <4>2. o[s] \in Object
        BY <1>2
      <4>3. x \in Object
        BY <4>1, <4>2 DEF Object
      <4> QED
        BY <1>2, <3>2, <4>1, <4>3
    <3>4. PICK o4 : o4 = [o3 EXCEPT ![s] = [o3[s] EXCEPT !.conn = None]]
      OBVIOUS
    <3>5. o4 \in [Sess -> Object]
      BY <3>3, <3>4 DEF Object
    <3>6. session' = [o4 EXCEPT ![s] = [o4[s] EXCEPT !.timer = FALSE]]
      BY <3>1, <3>2, <3>4 DEF Now
    <3>7. session' \in [Sess -> Object]
      BY <3>5, <3>6 DEF Object
    <3>8. \A t \in Sess \ {s} : session'[t] = o2[t]
      BY <1>2, <1>9, <3>2, <3>3, <3>4, <3>5, <3>6
    <3>9. session'[s] = o2[s]
      <4>1. o3[s] = [o[s] EXCEPT !.state = "gone"] /\ o4[s] = [o3[s] EXCEPT !.conn = None]
            /\ session'[s] = [o4[s] EXCEPT !.timer = FALSE]
        BY <1>2, <3>2, <3>3, <3>4, <3>5, <3>6
      <4>2. o2[s] = [o[s] EXCEPT !.state = "gone", !.conn = None, !.timer = FALSE]
        BY <1>2, <1>6
      <4>3. o[s] \in Object
        BY <1>2
      <4> QED
        BY <4>1, <4>2, <4>3 DEF Object
    <3> QED
      BY <1>9, <3>7, <3>8, <3>9
  <2> QED
    BY <1>7, <1>8, <2>1 DEF Now, Then, RunDelete, Taken, connections
<1>11. b2 \in [Sess -> Seq(SessCall)] /\ b2[s] = <<>> /\ \A t \in Sess \ {s} : b2[t] = b[t]
  BY <1>2, <1>7
<1>12. Kept(q, o2, m, up, cl, b2) /\ MixedStill(q, o, up, q, o2, up)
  <2>1. ~Has(b2[s], "delete")
    BY <1>11, HasNone
  <2>2. Dies(o, b, o2, b2, s)
    BY <1>3, <1>5, <1>9, <1>11, <2>1 DEF Dies
  <2> QED
    BY <1>1, <1>2, <2>2, KeptDies
<1>13. \A u \in User : m[u] # s
  BY <1>1, <1>5 DEF Kept, KeptBut, Entries
<1>14. Told(q, w, m, up, dir, b2)
  <2>1. StillFound(q, w, m, m, up)
    BY DEF StillFound
  <2>2. StillListed(m, dir, b, m, dir, b2, up)
    BY <1>11, <1>13 DEF StillListed
  <2> QED
    BY <1>1, <1>2, <2>1, <2>2, ToldStill
<1>15. Fits(o2, b2, w, cl)
  <2> SUFFICES ASSUME NEW t \in Sess  PROVE Fit(o2[t], b2[t], w[t], t \in cl)
    BY DEF Fits
  <2>1. CASE t = s
    <3>1. 1 .. Len(b2[s]) = {}
      BY <1>11
    <3> QED
      BY <1>3, <1>9, <1>11, <2>1, <3>1 DEF Fit
  <2>2. CASE t # s
    BY <1>1, <1>9, <1>11, <2>2 DEF Fits
  <2> QED
    BY <2>1, <2>2
<1>16. Called(q, a, o2, bd)
  <2>1. Older(o, o2)
    BY <1>3, <1>9 DEF Older
  <2> QED
    BY <1>1, <1>2, <2>1, CalledStay
<1>17. PICK l : l = Lines(q, a, b)
  OBVIOUS
<1>18. PICK l2 : l2 = Lines(q, a, b2)
  OBVIOUS
<1>19. l[s] = b[s] /\ s \in Queue /\ s # 0 /\ s # -1
  BY <1>2, <1>17, LinesAre
<1>20. Fewer(l, l2) /\ \A c \in Conn : c \in Waiting(l) /\ c \notin Waiting(l2) => \E i \in Nat : Waits(l, s, i, c)
  <2>1. Dropped(l, l2, s)
    BY <1>2, <1>7, <1>17, <1>18, LinesPop
  <2>2. Single(l)
    BY <1>1, <1>17 DEF Queued
  <2> QED
    BY <1>19, <2>1, <2>2, DroppedSingle DEF Fewer
<1>21. Queued(l2, a, o2, bd, ph, r, n)
  <2>1. SameBound(o, bd, ph, o2, bd, ph)
    BY <1>3, <1>9 DEF SameBound
  <2>2. Born(o, o2) /\ Kin(r, r) /\ Len(a) \in Nat
    BY <1>2, <1>3, <1>9, LenProperties DEF Born, Kin
  <2>3. Len(a) + n <= Len(a) + n /\ n <= n
    BY <1>2, <2>2
  <2>4. Unbound(Waiting(l2), o2, bd, ph)
    BY <1>1, <1>17, <1>20, <2>1, UnboundStep DEF Fewer, Queued
  <2> QED
    BY <1>1, <1>2, <1>17, <1>20, <2>2, <2>3, <2>4, QueuedStep
<1>22. Tied(o2, bd, ph, b2)
  <2>1. ASSUME NEW t \in Sess, NEW d \in Conn
        PROVE  /\ o2[t].conn = d => bd[d] = t /\ (Open(ph[d]) \/ Has(b2[t], "clear"))
               /\ o2[t].setting = d /\ Open(ph[d]) => bd[d] = t
    <3>1. CASE t = s
      BY <1>3, <1>9, <3>1
    <3>2. CASE t # s
      BY <1>1, <1>9, <1>11, <3>2 DEF Tied
    <3> QED
      BY <3>1, <3>2
  <2>2. \A t \in Sess : o2[t].state = "live" => o2[t] = o[t]
    BY <1>9
  <2> QED
    BY <1>1, <2>1, <2>2 DEF Tied
<1>23. Attended(q, o2, up, cl, bd, ph, lt2, Waiting(l2))
  <2>1. ASSUME NEW c \in Conn, c \in Waiting(l), c \notin lt2  PROVE c \in Waiting(l2)
    <3> SUFFICES ASSUME c \notin Waiting(l2)  PROVE FALSE
      OBVIOUS
    <3>1. PICK i \in Nat : Waits(l, s, i, c)
      BY <1>20, <2>1
    <3>2. i \in 1 .. Len(b[s]) /\ b[s][i].call = "set" /\ b[s][i].conn = c
      BY <1>19, <3>1 DEF Waits, Pass
    <3>3. DOMAIN b[s] = 1 .. Len(b[s])
      BY <1>2, LenProperties
    <3> QED
      BY <1>8, <2>1, <3>2, <3>3
  <2>2. s \notin cl => Mixed(q, o2, up, s)
    <3>1. s \notin cl => Held(q, o, m, up, s)
      BY <1>1, <1>3 DEF Kept, KeptBut, Found
    <3>2. s \notin cl => Mixed(q, o, up, s)
      BY <1>13, <3>1 DEF Held, Mixed
    <3> QED
      BY <1>3, <1>12, <3>2 DEF MixedStill
  <2>3. lt \subseteq lt2
    BY <1>8
  <2>4. Attends(o, cl, bd, ph, lt, Waiting(l), q, o2, up, cl, bd, ph, lt2, Waiting(l2))
    BY <1>9, <2>1, <2>2, <2>3 DEF Attends
  <2> QED
    BY <1>1, <1>12, <1>17, <2>4, AttendedStep
<1>24. lt2 \in SUBSET Conn
  BY <1>2, <1>8
<1>25. Types(q, a, o2, b2, w, m, up, cl, bd, ph, lt2, dir, r, n)
  BY <1>1, <1>9, <1>11, <1>24 DEF Types
<1>26. Good(q, a, o2, b2, w, m, up, cl, bd, ph, lt2, dir, r, n)
  BY <1>12, <1>14, <1>15, <1>16, <1>18, <1>21, <1>22, <1>23, <1>25 DEF Good
<1> QED
  BY <1>10, <1>26, InvAgain DEF Sound

(* Session::maybeSetConnection in the thread of an instance.               *)
LEMMA StepSet ==
  ASSUME NEW q, NEW a, NEW o, NEW b, NEW w, NEW m, NEW up, NEW cl, NEW bd, NEW ph, NEW lt,
         NEW dir, NEW r, NEW n, Now(q, a, o, b, w, m, up, cl, bd, ph, lt, dir, r, n),
         Good(q, a, o, b, w, m, up, cl, bd, ph, lt, dir, r, n), Sound,
         NEW s \in Sess, Taken(s), RunSet(s, Head(inbox[s]))
  PROVE  Inv'
<1>1. /\ Types(q, a, o, b, w, m, up, cl, bd, ph, lt, dir, r, n)
      /\ Fits(o, b, w, cl) /\ Called(q, a, o, bd)
      /\ Queued(Lines(q, a, b), a, o, bd, ph, r, n)
      /\ Kept(q, o, m, up, cl, b) /\ Told(q, w, m, up, dir, b)
      /\ Tied(o, bd, ph, b) /\ Attended(q, o, up, cl, bd, ph, lt, Waiting(Lines(q, a, b)))
  BY DEF Good
<1>2. /\ q \in Seq(MainCall) /\ a \in Seq(Ask) /\ o \in [Sess -> Object]
      /\ b \in [Sess -> Seq(SessCall)] /\ w \in [Sess -> Seq(MainCall)]
      /\ m \in [User -> Sess \cup {None, Null}]
      /\ up \in SUBSET User /\ cl \in SUBSET Sess /\ lt \in SUBSET Conn
      /\ bd \in [Conn -> Sess \cup {None}] /\ n \in Nat /\ n <= MaxEvents
  BY <1>1, BoundsAssumption DEF Types
<1>3. /\ b[s] # <<>> /\ b[s][1] \in SessCall /\ Head(b[s]) = b[s][1]
      /\ o[s].state = "live" /\ o[s].setting = None /\ w[s] = <<>> /\ None \notin Conn
      /\ o[s].user \in User
      /\ b[s][1].call \notin {"user", "delete"} => o[s].home = "scene"
  BY Taking
<1>4. b[s][1].call = "set"
  BY <1>3 DEF RunSet, Now
<1>5. o[s].home = "scene"
  BY <1>3, <1>4
<1>6. PICK c \in Conn : c = b[s][1].conn
  BY <1>3, <1>4 DEF SessCall
<1>7. PICK b2 : b2 = [b EXCEPT ![s] = Tail(b[s])]
  OBVIOUS
<1>8. Gains(b2, b, s, "set")
  <2>1. Gains(b2, b, s, b[s][1].call)
    BY <1>2, <1>3, <1>7, HasPop
  <2> QED
    BY <1>4, <2>1
<1>9. b2 \in [Sess -> Seq(SessCall)] /\ \A t \in Sess \ {s} : b2[t] = b[t]
  BY <1>2, <1>3, <1>7, Headed
<1>10. Stands(q, a, o, b, w, m, up, cl, bd, dir)
  BY <1>1 DEF Stands, Types
<1>11. PICK l : l = Lines(q, a, b)
  OBVIOUS
<1>12. PICK l1 : l1 = Lines(q, a, b2)
  OBVIOUS
<1>13. /\ l \in [Queue -> Seq(Entry)] /\ l[s] = b[s] /\ s \in Queue /\ s # 0 /\ s # -1
       /\ l1 \in [Queue -> Seq(Entry)] /\ 0 \in Queue
  BY <1>2, <1>9, <1>11, <1>12, LinesAre
<1>14. /\ Single(l) /\ Unbound(Waiting(l), o, bd, ph)
  BY <1>1, <1>11 DEF Queued
<1>15. \A d : Pass(s, b[s][1], d) <=> d = c
  BY <1>4, <1>6, <1>13 DEF Pass
<1>16. /\ Fewer(l, l1) /\ c \in Waiting(l) /\ c \notin Waiting(l1)
       /\ \A d \in Conn : d # c /\ d \in Waiting(l) => d \in Waiting(l1)
  <2>1. Popped(l, l1, s)
    BY <1>2, <1>3, <1>7, <1>11, <1>12, LinesPop
  <2> QED
    BY <1>13, <1>14, <1>15, <2>1, PoppedSingle DEF Fewer
<1>17. c \in Turned(l)
  <2>1. Len(b[s]) \in Nat \ {0}
    BY <1>2, <1>3, Headed
  <2>2. Waits(l, s, 1, c)
    BY <1>13, <1>15, <2>1 DEF Waits
  <2>3. s \in Queue \ {-1} /\ 1 \in Nat /\ l[s][1].call # "token"
    BY <1>4, <1>13
  <2> QED
    BY <2>2, <2>3 DEF Turned
<1>18. bd[c] = None /\ ph[c] # "away" /\ \A t \in Sess : o[t].setting # c /\ o[t].conn # c
  <2>1. bd[c] = None /\ ph[c] # "away" /\ \A t \in Sess : o[t].setting # c
    BY <1>14, <1>16 DEF Unbound
  <2>2. None \notin Sess
    BY DEF None, Sess
  <2> QED
    BY <1>1, <2>1, <2>2 DEF Tied
<1>19. Fits(o, b2, w, cl)
  BY <1>1, <1>2, <1>3, <1>7, FitsBox
<1>20. Alike(o, b, o, b2) /\ Stays(b, b2) /\ Len(a) \in Nat
  BY <1>2, <1>8, LenProperties DEF Alike, Stays, Gains
<1>21. Len(a) + n <= Len(a) + n /\ n <= n
  BY <1>2, <1>20
<1>22. CASE Takes(s, b[s][1].user, b[s][1].valid)
  <2>1. PICK o2 : o2 = [o EXCEPT ![s] = [o[s] EXCEPT !.setting = c]]
    OBVIOUS
  <2>2. PICK bd2 : bd2 = IF Open(ph[c]) THEN [bd EXCEPT ![c] = s] ELSE bd
    OBVIOUS
  <2>3. PICK lt2 : lt2 = IF s \in cl THEN lt \cup {c} ELSE lt
    OBVIOUS
  <2>4. Then(q, a, o2, b2, w, m, up, cl, bd2, ph, lt2, dir, r, n) /\ abroad' = abroad
        /\ crashed' = crashed
    <3>1. /\ inbox' = Rest(s) /\ session' = [session EXCEPT ![s].setting = c]
          /\ bound' = (IF IsOpen(c) THEN [bound EXCEPT ![c] = s] ELSE bound)
          /\ late' = (IF s \in closed THEN late \cup {c} ELSE late) /\ UNCHANGED main
          /\ UNCHANGED <<phase, owes, sessions, directory, crashed, closed, upset>>
      BY <1>3, <1>6, <1>22 DEF RunSet, Now
    <3> QED
      BY <1>7, <2>1, <2>2, <2>3, <3>1 DEF Now, Then, Rest, Taken, IsOpen, Open
  <2>5. /\ o2 \in [Sess -> Object] /\ \A t \in Sess \ {s} : o2[t] = o[t]
        /\ o2[s].state = "live" /\ o2[s].home = "scene" /\ o2[s].user = o[s].user
        /\ o2[s].setting = c /\ o2[s].conn = o[s].conn /\ o2[s].timer = o[s].timer
    BY <1>2, <1>3, <1>5, <2>1 DEF Object
  <2>6. o[s].conn = None
    BY <1>22 DEF Takes, Now
  <2>7. Rests(o, b, o2, b2, w, cl)
    <3>1. Fits(o2, b2, w, cl)
      <4> SUFFICES ASSUME NEW t \in Sess  PROVE Fit(o2[t], b2[t], w[t], t \in cl)
        BY DEF Fits
      <4>1. Fit(o[t], b2[t], w[t], t \in cl)
        BY <1>19 DEF Fits
      <4>2. CASE t = s
        BY <1>3, <2>5, <2>6, <4>1, <4>2 DEF Fit
      <4> QED
        BY <2>5, <4>1, <4>2
    <3>2. Alike(o, b, o2, b2) /\ Older(o, o2)
      BY <1>3, <1>20, <2>5 DEF Alike, Older
    <3> QED
      BY <1>9, <1>20, <2>5, <3>1, <3>2 DEF Rests
  <2>8. /\ Stands(q, a, o2, b2, w, m, up, cl, bd, dir) /\ MixedStill(q, o, up, q, o2, up)
        /\ Born(o, o2)
    BY <1>10, <2>7, Rested
  <2>9. /\ bd2 \in [Conn -> Sess \cup {None}] /\ \A d \in Conn \ {c} : bd2[d] = bd[d]
        /\ bd2[c] = IF Open(ph[c]) THEN s ELSE None
    BY <1>2, <1>18, <2>2
  <2>10. Called(q, a, o2, bd2)
    BY <2>5, <2>8, <2>9 DEF Called, Stands
  <2>11. Queued(l1, a, o2, bd2, ph, r, n)
    <3>1. Unbound(Waiting(l1), o2, bd2, ph)
      BY <1>3, <1>14, <1>16, <1>18, <2>5, <2>9 DEF Unbound, Fewer
    <3> QED
      BY <1>1, <1>2, <1>11, <1>16, <1>21, <2>8, <3>1, QueuedStep, Unmoved
  <2>12. Tied(o2, bd2, ph, b2)
    <3>1. \A t \in Sess : o2[t].conn = o[t].conn /\ (Has(b[t], "clear") => Has(b2[t], "clear"))
      BY <1>8, <2>5 DEF Gains
    <3>2. ASSUME NEW t \in Sess, NEW d \in Conn
          PROVE  /\ o2[t].conn = d => bd2[d] = t /\ (Open(ph[d]) \/ Has(b2[t], "clear"))
                 /\ o2[t].setting = d /\ Open(ph[d]) => bd2[d] = t
      <4>1. o2[t].conn = d => bd2[d] = t /\ (Open(ph[d]) \/ Has(b2[t], "clear"))
        BY <1>1, <1>18, <2>9, <3>1 DEF Tied
      <4>2. CASE t = s
        BY <2>5, <2>9, <4>1, <4>2
      <4>3. CASE t # s
        BY <1>1, <1>18, <2>5, <2>9, <4>1, <4>3 DEF Tied
      <4> QED
        BY <4>2, <4>3
    <3>3. ASSUME NEW d \in Conn, NEW t \in Sess, bd2[d] = t, o2[t].state = "live",
                 o2[t].home = "main", Open(ph[d])
          PROVE  o2[t].conn = d
      <4>1. t # s /\ o2[t] = o[t]
        BY <2>5, <3>3
      <4>2. d # c
        BY <2>9, <3>3, <4>1
      <4> QED
        BY <1>1, <2>9, <3>3, <4>1, <4>2 DEF Tied
    <3> QED
      BY <3>2, <3>3 DEF Tied
  <2>13. Attended(q, o2, up, cl, bd2, ph, lt2, Waiting(l1))
    <3>1. Attends(o, cl, bd, ph, lt, Waiting(l), q, o2, up, cl, bd2, ph, lt2, Waiting(l1))
      <4> SUFFICES ASSUME NEW d \in Conn, d \notin lt2, ph[d] = "open"
                   PROVE  \/ Met(o2, cl, bd2, Waiting(l1), d)
                          \/ /\ d \notin lt /\ bd2[d] = bd[d] /\ (d \in Waiting(l) => d \in Waiting(l1))
                             /\ \A t \in Sess :
                                 bd[d] = t /\ t \notin cl /\ o[t].state = "live"
                                   /\ (o[t].conn = d \/ o[t].setting = d) =>
                                     o2[t].state = "live" /\ (o2[t].conn = d \/ o2[t].setting = d)
        BY DEF Attends
      <4>1. CASE d = c
        <5>1. s \notin cl /\ Open(ph[c])
          BY <2>3, <4>1 DEF Open
        <5> QED
          BY <2>5, <2>9, <4>1, <5>1 DEF Met
      <4>2. CASE d # c
        <5>1. d \notin lt
          BY <2>3
        <5>2. ASSUME NEW t \in Sess, o[t].conn = d \/ o[t].setting = d  PROVE o2[t] = o[t]
          BY <1>3, <2>5, <2>6, <5>2
        <5> QED
          BY <1>16, <2>9, <4>2, <5>1, <5>2
      <4> QED
        BY <4>1, <4>2
    <3> QED
      BY <1>1, <1>11, <2>8, <3>1, AttendedStep
  <2>14. lt2 \in SUBSET Conn
    BY <1>2, <2>3
  <2>15. Types(q, a, o2, b2, w, m, up, cl, bd2, ph, lt2, dir, r, n)
    BY <1>1, <2>8, <2>9, <2>14 DEF Types, Stands
  <2>16. Good(q, a, o2, b2, w, m, up, cl, bd2, ph, lt2, dir, r, n)
    BY <1>12, <2>8, <2>10, <2>11, <2>12, <2>13, <2>15 DEF Good, Stands
  <2> QED
    BY <2>4, <2>16, InvAgain DEF Sound
<1>23. CASE ~Takes(s, b[s][1].user, b[s][1].valid)
  <2>1. PICK x : x = [call |-> "unset", conn |-> c]
    OBVIOUS
  <2>2. PICK q2 : q2 = Append(q, x)
    OBVIOUS
  <2>3. PICK l2 : l2 = Lines(q2, a, b2)
    OBVIOUS
  <2>4. x \in MainCall /\ x.call = "unset" /\ x.conn = c
    BY <2>1 DEF MainCall
  <2>5. Then(q2, a, o, b2, w, m, up, cl, bd, ph, lt, dir, r, n) /\ abroad' = abroad
        /\ crashed' = crashed
    <3>1. /\ inbox' = Rest(s) /\ main' = Append(main, x)
          /\ UNCHANGED <<bound, session, late>>
          /\ UNCHANGED <<phase, owes, sessions, directory, crashed, closed, upset>>
      BY <1>3, <1>6, <1>23, <2>1 DEF RunSet, Now
    <3> QED
      BY <1>7, <2>2, <3>1 DEF Now, Then, Rest, Taken
  <2>6. Rests(o, b, o, b2, w, cl)
    BY <1>2, <1>9, <1>19, <1>20 DEF Rests, Older
  <2>7. Stands(q, a, o, b2, w, m, up, cl, bd, dir)
    BY <1>10, <2>6, Rested
  <2>8. Stands(q2, a, o, b2, w, m, up, cl, bd, dir) /\ MixedStill(q, o, up, q2, o, up)
    BY <2>2, <2>4, <2>7, Sent
  <2>9. /\ Single(l2) /\ Waiting(l2) = Waiting(l1) \cup {c} /\ Turned(l2) \subseteq Turned(l1) \cup {c}
    <3>1. Pushed(l1, l2, 0, x)
      BY <1>2, <1>9, <1>12, <2>2, <2>3, LinesPush
    <3>2. \A d : Pass(0, x, d) <=> d = c
      BY <2>4 DEF Pass
    <3>3. l1 \in [Queue -> Seq(Entry)] /\ 0 \in Queue /\ x \in Entry /\ Pushed(l1, l2, 0, x)
          /\ Single(l1) /\ Apart(l1, 0, x)
      BY <1>13, <1>16, <2>4, <3>1, <3>2 DEF Apart, Entry, Fewer
    <3>4. /\ Single(l2)
          /\ Waiting(l2) = Waiting(l1) \cup {d \in Conn : Pass(0, x, d)}
          /\ Turned(l2) = Turned(l1) \cup {d \in Conn : Pass(0, x, d) /\ 0 # -1 /\ x.call # "token"}
      BY <3>3, PushedSingle
    <3> QED
      BY <3>2, <3>4
  <2>10. Fewer(l, l2) /\ Waiting(l) \subseteq Waiting(l2)
    <3>1. Waiting(l) \subseteq Conn
      BY DEF Waiting
    <3> QED
      BY <1>16, <1>17, <2>9, <3>1 DEF Fewer
  <2>11. Queued(l2, a, o, bd, ph, r, n)
    <3>1. Unbound(Waiting(l2), o, bd, ph)
      BY <1>14, <2>10, UnboundStep, Unmoved DEF Fewer
    <3> QED
      BY <1>1, <1>2, <1>11, <1>21, <2>10, <3>1, QueuedStep, Unmoved
  <2>12. Tied(o, bd, ph, b2)
    BY <1>1, <1>8, TiedBox DEF Gains
  <2>13. Attended(q2, o, up, cl, bd, ph, lt, Waiting(l2))
    <3>1. Attends(o, cl, bd, ph, lt, Waiting(l), q2, o, up, cl, bd, ph, lt, Waiting(l2))
      BY <2>10 DEF Attends
    <3> QED
      BY <1>1, <1>11, <2>8, <3>1, AttendedStep
  <2>14. Types(q2, a, o, b2, w, m, up, cl, bd, ph, lt, dir, r, n)
    BY <1>1, <2>8 DEF Types, Stands
  <2>15. Good(q2, a, o, b2, w, m, up, cl, bd, ph, lt, dir, r, n)
    BY <2>3, <2>8, <2>11, <2>12, <2>13, <2>14 DEF Good, Stands
  <2> QED
    BY <2>5, <2>15, InvAgain DEF Sound
<1> QED
  BY <1>22, <1>23

-----------------------------------------------------------------------------
(* A client connects.                                                      *)

\* The connection c comes, and may wait; it takes one of the events.
Comes(ph, ph2, c, p) ==
    /\ c \in Conn /\ ph[c] = "away" /\ p \in {"open", "leaving"} /\ ph2 = [ph EXCEPT ![c] = p]
Coming(l, l2, a, a2, c) ==
    /\ Single(l2) /\ Waiting(l) \subseteq Waiting(l2) /\ Waiting(l2) \subseteq Waiting(l) \cup {c}
    /\ \/ Turned(l2) \subseteq Turned(l) /\ Len(a2) <= Len(a) + 1
       \/ Turned(l2) \subseteq Turned(l) \cup {c} /\ Len(a2) <= Len(a)

(* There are enough objects and rows for one connection more.              *)
LEMMA QueuedComes ==
  ASSUME NEW l, NEW l2, NEW a \in Seq(Ask), NEW a2 \in Seq(Ask), NEW o, NEW o2, NEW bd, NEW bd2,
         NEW ph, NEW ph2, NEW r, NEW n \in Nat, NEW n2 \in Nat, NEW c \in Conn,
         Queued(l, a, o, bd, ph, r, n), Coming(l, l2, a, a2, c), n2 = n + 1,
         Born(o, o2), Unbound(Waiting(l2), o2, bd2, ph2)
  PROVE  Queued(l2, a2, o2, bd2, ph2, r, n2)
<1>1. PICK t \in SUBSET Conn : t = Waiting(l)
  BY DEF Waiting
<1>2. PICK t2 \in SUBSET Conn : t2 = Waiting(l2)
  BY DEF Waiting
<1>3. PICK v \in SUBSET Conn : v = Turned(l)
  BY DEF Turned
<1>4. PICK v2 \in SUBSET Conn : v2 = Turned(l2)
  BY DEF Turned
<1>5. /\ Single(l2) /\ Sessions(o, t, n) /\ Rows(r, v, a, n)
      /\ t2 \subseteq t \cup {c}
      /\ \/ v2 \subseteq v /\ Len(a2) <= Len(a) + 1
         \/ v2 \subseteq v \cup {c} /\ Len(a2) <= Len(a)
  BY <1>1, <1>2, <1>3, <1>4 DEF Queued, Coming
<1>6. Len(a) \in Nat /\ Len(a2) \in Nat
  BY LenProperties
<1>7. ASSUME NEW x \in SUBSET Conn, NEW y \in SUBSET Conn
      PROVE  /\ Cardinality(x) \in Nat /\ Cardinality(y) \in Nat
             /\ y \subseteq x => Cardinality(y) <= Cardinality(x)
             /\ y \subseteq x \cup {c} => Cardinality(y) <= Cardinality(x) + 1
  <2>1. x \cup {c} \in SUBSET Conn
    OBVIOUS
  <2>2. /\ Cardinality(x) \in Nat /\ Cardinality(y) \in Nat /\ Cardinality(x \cup {c}) \in Nat
        /\ Cardinality(x \cup {c}) <= Cardinality(x) + 1
        /\ y \subseteq x => Cardinality(y) <= Cardinality(x)
        /\ y \subseteq x \cup {c} => Cardinality(y) <= Cardinality(x \cup {c})
    BY <2>1, Counted
  <2> QED
    BY <2>2
<1>8. Sessions(o2, t2, n2)
  <2>1. Cardinality(t) \in Nat /\ Cardinality(t2) \in Nat /\ Cardinality(t2) <= Cardinality(t) + 1
    BY <1>5, <1>7
  <2>2. Cardinality(t2) + n <= Cardinality(t) + n2
    BY <2>1
  <2> QED
    BY <1>5, <2>2, SessionsStep
<1>9. Rows(r, v2, a2, n2)
  <2>1. Cardinality(v) \in Nat /\ Cardinality(v2) \in Nat
    BY <1>7
  <2>2. \/ Cardinality(v2) <= Cardinality(v) /\ Len(a2) <= Len(a) + 1
        \/ Cardinality(v2) <= Cardinality(v) + 1 /\ Len(a2) <= Len(a)
    BY <1>5, <1>7
  <2>3. Cardinality(v2) + Len(a2) + n <= Cardinality(v) + Len(a) + n2
    BY <1>6, <2>1, <2>2
  <2>4. Kin(r, r)
    BY DEF Kin
  <2> QED
    BY <1>5, <2>3, <2>4, RowsStep
<1> QED
  BY <1>2, <1>4, <1>5, <1>8, <1>9 DEF Queued

(* It is asked for, which leaves the rest as it is.                        *)
LEMMA Arrives ==
  ASSUME NEW q, NEW a, NEW o, NEW b, NEW w, NEW m, NEW up, NEW cl, NEW bd, NEW ph, NEW lt,
         NEW dir, NEW r, NEW n, NEW a2, NEW b2, NEW ph2, NEW lt2, NEW n2, NEW c, NEW p,
         Good(q, a, o, b, w, m, up, cl, bd, ph, lt, dir, r, n),
         Stands(q, a2, o, b2, w, m, up, cl, bd, dir), Grows(b, b2), Comes(ph, ph2, c, p),
         Coming(Lines(q, a, b), Lines(q, a2, b2), a, a2, c),
         lt2 \in SUBSET Conn, lt \subseteq lt2,
         p = "open" => c \in lt2 \/ c \in Waiting(Lines(q, a2, b2)),
         n2 = n + 1, n < MaxEvents
  PROVE  Good(q, a2, o, b2, w, m, up, cl, bd, ph2, lt2, dir, r, n2)
<1>1. /\ Types(q, a, o, b, w, m, up, cl, bd, ph, lt, dir, r, n)
      /\ Queued(Lines(q, a, b), a, o, bd, ph, r, n)
      /\ Tied(o, bd, ph, b) /\ Attended(q, o, up, cl, bd, ph, lt, Waiting(Lines(q, a, b)))
  BY DEF Good
<1>2. PICK l : l = Lines(q, a, b)
  OBVIOUS
<1>3. PICK l2 : l2 = Lines(q, a2, b2)
  OBVIOUS
<1>4. c \in Conn /\ ph[c] = "away" /\ p \in {"open", "leaving"} /\ ph2 = [ph EXCEPT ![c] = p]
  BY DEF Comes
<1>5. /\ bd[c] = None /\ c \notin Waiting(l)
      /\ \A s \in Sess : o[s].setting # c /\ o[s].conn # c
  <2>1. Queued(l, a, o, bd, ph, r, n) /\ Tied(o, bd, ph, b) /\ c \in Conn /\ ph[c] = "away"
    BY <1>1, <1>2, <1>4
  <2>2. Unbound(Waiting(l), o, bd, ph)
    BY <2>1 DEF Queued
  <2>3. bd[c] = None /\ c \notin Waiting(l) /\ \A s \in Sess : o[s].setting # c
    BY <2>1, <2>2 DEF Unbound
  <2>4. None \notin Sess
    BY DEF None, Sess
  <2> QED
    BY <2>1, <2>3, <2>4 DEF Tied
<1>6. /\ ph2 \in [Conn -> {"away", "open", "leaving", "bye", "closed"}] /\ ph2[c] = p
      /\ \A d \in Conn \ {c} : ph2[d] = ph[d]
  BY <1>1, <1>4 DEF Types
<1>7. MaxEvents \in Nat /\ n \in Nat /\ n2 \in Nat /\ n2 \in 0 .. MaxEvents
  BY <1>1, BoundsAssumption DEF Types
<1>8. a \in Seq(Ask) /\ a2 \in Seq(Ask)
  BY <1>1 DEF Types, Stands
<1>9. Coming(l, l2, a, a2, c)
  BY <1>2, <1>3
<1>10. Unbound(Waiting(l2), o, bd, ph2)
  <2>1. Unbound(Waiting(l), o, bd, ph)
    BY <1>1, <1>2 DEF Queued
  <2> SUFFICES ASSUME NEW d \in Conn, d \in Waiting(l2) \/ ph2[d] = "away"
               PROVE  bd[d] = None /\ (\A s \in Sess : o[s].setting # d)
                                   /\ ~(d \in Waiting(l2) /\ ph2[d] = "away")
    BY DEF Unbound
  <2>2. CASE d = c
    BY <1>4, <1>5, <1>6, <2>2
  <2>3. CASE d # c
    BY <1>6, <1>9, <2>1, <2>3 DEF Unbound, Coming
  <2> QED
    BY <2>2, <2>3
<1>11. Queued(l2, a2, o, bd, ph2, r, n2)
  BY <1>1, <1>2, <1>4, <1>7, <1>8, <1>9, <1>10, QueuedComes, Unmoved
<1>12. Tied(o, bd, ph2, b2)
  <2>1. Tied(o, bd, ph, b2)
    BY <1>1, TiedBox DEF Grows
  <2>2. None \notin Sess
    BY DEF None, Sess
  <2> QED
    BY <1>5, <1>6, <2>1, <2>2 DEF Tied
<1>13. Attended(q, o, up, cl, bd, ph2, lt2, Waiting(l2))
  <2> SUFFICES ASSUME NEW d \in Conn, d \notin lt2, ph2[d] = "open"
               PROVE  /\ d \in Waiting(l2) \/ bd[d] # None
                      /\ \A s \in Sess : bd[d] = s =>
                          \/ Mixed(q, o, up, s)
                          \/ /\ s \notin cl /\ o[s].state = "live"
                             /\ o[s].conn = d \/ o[s].setting = d
    BY DEF Attended
  <2>1. None \notin Sess
    BY DEF None, Sess
  <2>2. CASE d = c
    BY <1>3, <1>5, <1>6, <2>1, <2>2
  <2>3. CASE d # c
    BY <1>1, <1>2, <1>6, <1>9, <2>3 DEF Attended, Coming
  <2> QED
    BY <2>2, <2>3
<1>14. Types(q, a2, o, b2, w, m, up, cl, bd, ph2, lt2, dir, r, n2)
  BY <1>1, <1>6, <1>7 DEF Types, Stands
<1> QED
  BY <1>3, <1>11, <1>12, <1>13, <1>14 DEF Good, Stands

(* The database is asked for a user for it.                                *)
LEMMA Asked ==
  ASSUME NEW q, NEW a, NEW o, NEW b, NEW w, NEW m, NEW up, NEW cl, NEW bd, NEW ph, NEW r, NEW n,
         NEW dir, NEW x, NEW c \in Conn, Stands(q, a, o, b, w, m, up, cl, bd, dir),
         Queued(Lines(q, a, b), a, o, bd, ph, r, n), c \notin Waiting(Lines(q, a, b)),
         x \in Ask, x.ask \in {"create", "validate"}, x.conn = c
  PROVE  /\ Stands(q, Append(a, x), o, b, w, m, up, cl, bd, dir)
         /\ Coming(Lines(q, a, b), Lines(q, Append(a, x), b), a, Append(a, x), c)
         /\ c \in Waiting(Lines(q, Append(a, x), b))
<1>1. /\ q \in Seq(MainCall) /\ a \in Seq(Ask) /\ b \in [Sess -> Seq(SessCall)]
      /\ Called(q, a, o, bd)
  BY DEF Stands
<1>2. PICK a2 : a2 = Append(a, x)
  OBVIOUS
<1>3. a2 \in Seq(Ask) /\ Len(a2) = Len(a) + 1 /\ Len(a) \in Nat
  BY <1>1, <1>2, Appended
<1>4. Called(q, a2, o, bd)
  BY <1>1, <1>2, CalledAsk
<1>5. Stands(q, a2, o, b, w, m, up, cl, bd, dir)
  BY <1>3, <1>4 DEF Stands
<1>6. PICK l : l = Lines(q, a, b)
  OBVIOUS
<1>7. PICK l2 : l2 = Lines(q, a2, b)
  OBVIOUS
<1>8. l \in [Queue -> Seq(Entry)] /\ -1 \in Queue /\ Single(l) /\ c \notin Waiting(l)
  BY <1>1, <1>6, LinesAre DEF Queued
<1>9. Pushed(l, l2, -1, x)
  BY <1>1, <1>2, <1>6, <1>7, LinesPush
<1>10. \A d : Pass(-1, x, d) <=> d = c
  BY DEF Pass
<1>11. x \in Entry /\ Apart(l, -1, x)
  BY <1>8, <1>10 DEF Apart, Entry
<1>12. /\ Single(l2)
       /\ Waiting(l2) = Waiting(l) \cup {d \in Conn : Pass(-1, x, d)}
       /\ Turned(l2) = Turned(l) \cup {d \in Conn : Pass(-1, x, d) /\ -1 # -1 /\ x.call # "token"}
  BY <1>8, <1>9, <1>11, PushedSingle
<1>13. Turned(l2) \subseteq Turned(l)
  BY <1>12
<1>14. Waiting(l2) = Waiting(l) \cup {c}
  BY <1>10, <1>12
<1>15. Coming(l, l2, a, a2, c) /\ c \in Waiting(l2)
  BY <1>3, <1>12, <1>13, <1>14 DEF Coming
<1> QED
  BY <1>2, <1>5, <1>6, <1>7, <1>15

(* It is sent to a session in the thread of an instance.                   *)
LEMMA Directed ==
  ASSUME NEW q, NEW a, NEW o, NEW b, NEW w, NEW m, NEW up, NEW cl, NEW bd, NEW ph, NEW r, NEW n,
         NEW dir, NEW b2, NEW s, NEW x, NEW c \in Conn, Stands(q, a, o, b, w, m, up, cl, bd, dir),
         Queued(Lines(q, a, b), a, o, bd, ph, r, n), c \notin Waiting(Lines(q, a, b)),
         Posts(o, b, b2, s, x), x.call = "set", x.conn = c
  PROVE  /\ Stands(q, a, o, b2, w, m, up, cl, bd, dir) /\ Grows(b, b2)
         /\ Coming(Lines(q, a, b), Lines(q, a, b2), a, a, c)
         /\ c \in Waiting(Lines(q, a, b2))
<1>1. q \in Seq(MainCall) /\ a \in Seq(Ask) /\ b \in [Sess -> Seq(SessCall)]
  BY DEF Stands
<1>2. s \in Sess /\ x \in SessCall /\ b2 = [b EXCEPT ![s] = Append(b[s], x)]
  BY DEF Posts
<1>3. Stands(q, a, o, b2, w, m, up, cl, bd, dir) /\ Gains(b, b2, s, x.call)
  BY Posted
<1>4. Grows(b, b2)
  BY <1>3 DEF Grows, Gains
<1>5. PICK l : l = Lines(q, a, b)
  OBVIOUS
<1>6. PICK l2 : l2 = Lines(q, a, b2)
  OBVIOUS
<1>7. /\ l \in [Queue -> Seq(Entry)] /\ s \in Queue /\ s # 0 /\ s # -1 /\ Single(l)
      /\ c \notin Waiting(l)
  BY <1>1, <1>2, <1>5, LinesAre DEF Queued
<1>8. Pushed(l, l2, s, x)
  BY <1>1, <1>2, <1>5, <1>6, LinesPush
<1>9. \A d : Pass(s, x, d) <=> d = c
  BY <1>7 DEF Pass
<1>10. x \in Entry /\ Apart(l, s, x)
  BY <1>2, <1>7, <1>9 DEF Apart, Entry
<1>11. /\ Single(l2)
       /\ Waiting(l2) = Waiting(l) \cup {d \in Conn : Pass(s, x, d)}
       /\ Turned(l2) = Turned(l) \cup {d \in Conn : Pass(s, x, d) /\ s # -1 /\ x.call # "token"}
  BY <1>7, <1>8, <1>10, PushedSingle
<1>12. Turned(l2) \subseteq Turned(l) \cup {c}
  BY <1>9, <1>11
<1>13. Waiting(l2) = Waiting(l) \cup {c}
  BY <1>9, <1>11
<1>14. Len(a) \in Nat
  BY <1>1, LenProperties
<1>15. Coming(l, l2, a, a, c) /\ c \in Waiting(l2)
  BY <1>11, <1>12, <1>13, <1>14 DEF Coming
<1> QED
  BY <1>3, <1>4, <1>5, <1>6, <1>15

(* ConnectionManager::connectionEstablished.                               *)
LEMMA StepEstablish ==
  ASSUME NEW q, NEW a, NEW o, NEW b, NEW w, NEW m, NEW up, NEW cl, NEW bd, NEW ph, NEW lt,
         NEW dir, NEW r, NEW n, Now(q, a, o, b, w, m, up, cl, bd, ph, lt, dir, r, n),
         Good(q, a, o, b, w, m, up, cl, bd, ph, lt, dir, r, n), Sound,
         Event, NEW c \in Conn,
         NEW u \in User \cup {None}, NEW valid \in BOOLEAN, Establish(c, u, valid)
  PROVE  Inv'
<1>1. /\ Types(q, a, o, b, w, m, up, cl, bd, ph, lt, dir, r, n)
      /\ Fits(o, b, w, cl) /\ Called(q, a, o, bd)
      /\ Queued(Lines(q, a, b), a, o, bd, ph, r, n)
      /\ Kept(q, o, m, up, cl, b) /\ Told(q, w, m, up, dir, b)
      /\ Tied(o, bd, ph, b) /\ Attended(q, o, up, cl, bd, ph, lt, Waiting(Lines(q, a, b)))
  BY DEF Good
<1>2. /\ q \in Seq(MainCall) /\ a \in Seq(Ask) /\ o \in [Sess -> Object]
      /\ b \in [Sess -> Seq(SessCall)] /\ w \in [Sess -> Seq(MainCall)]
      /\ m \in [User -> Sess \cup {None, Null}]
      /\ up \in SUBSET User /\ cl \in SUBSET Sess /\ lt \in SUBSET Conn
      /\ bd \in [Conn -> Sess \cup {None}] /\ n \in Nat /\ n <= MaxEvents
  BY <1>1, BoundsAssumption DEF Types
<1>3. n < MaxEvents /\ n + 1 \in Nat /\ MaxEvents \in Nat /\ Len(a) \in Nat
  BY <1>2, BoundsAssumption, LenProperties DEF Event, Now
<1>4. PICK l : l = Lines(q, a, b)
  OBVIOUS
<1>5. PICK n2 : n2 = n + 1
  OBVIOUS
<1>6. ph[c] = "away"
  BY DEF Establish, Now
<1>7. /\ Unbound(Waiting(l), o, bd, ph) /\ Single(l) /\ Queued(l, a, o, bd, ph, r, n)
      /\ None \notin Sess /\ None \notin Conn
  BY <1>1, <1>4 DEF Queued, None, Sess, Conn
<1>8. bd[c] = None /\ c \notin Waiting(l) /\ \A s \in Sess : o[s].setting # c /\ o[s].conn # c
  <2>1. bd[c] = None /\ c \notin Waiting(l) /\ \A s \in Sess : o[s].setting # c
    BY <1>6, <1>7 DEF Unbound
  <2> QED
    BY <1>1, <1>7, <2>1 DEF Tied
<1>9. Stands(q, a, o, b, w, m, up, cl, bd, dir) /\ Grows(b, b)
  BY <1>1 DEF Stands, Types, Grows
<1>10. Coming(l, l, a, a, c)
  BY <1>3, <1>7 DEF Coming
<1>11. PICK lt1 : lt1 = lt \cup {c}
  OBVIOUS
<1>12. lt1 \in SUBSET Conn /\ lt \subseteq lt1 /\ c \in lt1
  BY <1>2, <1>11
<1>13. PICK ph1 : ph1 = [ph EXCEPT ![c] = "open"]
  OBVIOUS
<1>14. Comes(ph, ph1, c, "open")
  BY <1>6, <1>13 DEF Comes
<1>15. main' = q /\ owes' = w /\ record' = r /\ sessions' = m /\ directory' = dir
       /\ abroad' = abroad /\ closed' = cl /\ upset' = up /\ events' = n2
  BY <1>5 DEF Establish, Event, Now
<1>16. ASSUME NEW a2, NEW b2, NEW ph2, NEW lt2,
              Good(q, a2, o, b2, w, m, up, cl, bd, ph2, lt2, dir, r, n2),
              asked' = a2, inbox' = b2, phase' = ph2, late' = lt2, session' = o, bound' = bd,
              crashed' = FALSE
       PROVE  Inv'
  <2>1. Then(q, a2, o, b2, w, m, up, cl, bd, ph2, lt2, dir, r, n2)
    BY <1>15, <1>16 DEF Then
  <2> QED
    BY <1>15, <1>16, <2>1, InvAgain DEF Sound
<1>17. CASE Listing(u) = "here" /\ sessions[u] \notin Sess
  <2>1. phase' = ph1 /\ late' = lt1 /\ session' = o /\ inbox' = b /\ asked' = a /\ bound' = bd
        /\ crashed' = FALSE
    BY <1>11, <1>13, <1>17 DEF Establish, Now, Sound, Live
  <2>2. Good(q, a, o, b, w, m, up, cl, bd, ph1, lt1, dir, r, n2)
    BY <1>3, <1>4, <1>5, <1>9, <1>10, <1>12, <1>14, Arrives
  <2> QED
    BY <1>16, <2>1, <2>2
<1>18. CASE Listing(u) = "elsewhere"
  <2>1. PICK ph2 : ph2 = [ph EXCEPT ![c] = "leaving"]
    OBVIOUS
  <2>2. Comes(ph, ph2, c, "leaving")
    BY <1>6, <2>1 DEF Comes
  <2>3. phase' = ph2 /\ late' = lt /\ session' = o /\ inbox' = b /\ asked' = a /\ bound' = bd
        /\ crashed' = FALSE
    BY <1>18, <2>1 DEF Establish, Now, Sound
  <2>4. Good(q, a, o, b, w, m, up, cl, bd, ph2, lt, dir, r, n2)
    BY <1>2, <1>3, <1>4, <1>5, <1>9, <1>10, <2>2, Arrives
  <2> QED
    BY <1>16, <2>3, <2>4
<1>19. CASE Listing(u) = "none"
  <2>1. PICK v \in User \cup {None} : v = IF valid THEN u ELSE None
    OBVIOUS
  <2>2. PICK x : x = [ask |-> "validate", conn |-> c, user |-> v]
    OBVIOUS
  <2>3. x \in Ask /\ x.ask = "validate" /\ x.conn = c
    BY <2>2 DEF Ask
  <2>4. PICK a2 : a2 = Append(a, x)
    OBVIOUS
  <2>5. /\ Stands(q, a2, o, b, w, m, up, cl, bd, dir) /\ Coming(l, Lines(q, a2, b), a, a2, c)
        /\ c \in Waiting(Lines(q, a2, b))
    BY <1>4, <1>7, <1>8, <1>9, <2>3, <2>4, Asked
  <2>6. phase' = ph1 /\ late' = lt /\ session' = o /\ inbox' = b /\ asked' = a2 /\ bound' = bd
        /\ crashed' = FALSE
    BY <1>13, <1>19, <2>1, <2>2, <2>4 DEF Establish, Now, Sound
  <2>7. Good(q, a2, o, b, w, m, up, cl, bd, ph1, lt, dir, r, n2)
    BY <1>2, <1>3, <1>4, <1>5, <1>9, <1>14, <2>5, Arrives
  <2> QED
    BY <1>16, <2>6, <2>7
<1>20. CASE Listing(u) = "here" /\ sessions[u] \in Sess
  <2>1. u \in User
    BY <1>20 DEF Listing
  <2>2. PICK s \in Sess : s = m[u]
    BY <1>20 DEF Now
  <2>3. o[s].state = "live"
    BY <1>1, <2>1, <2>2 DEF Kept, KeptBut, Entries
  <2>4. sessions[u] = s /\ s \in Live /\ sessions[u] \notin Sess \ Live
    BY <2>2, <2>3 DEF Now, Live
  <2>5. InMain(s) <=> o[s].home = "main"
    BY DEF InMain, Now
  <2>6. CASE InMain(s) /\ ~Takes(s, u, valid)
    <3>1. PICK x : x = [ask |-> "create", conn |-> c]
      OBVIOUS
    <3>2. x \in Ask /\ x.ask = "create" /\ x.conn = c
      BY <3>1 DEF Ask
    <3>3. PICK a2 : a2 = Append(a, x)
      OBVIOUS
    <3>4. /\ Stands(q, a2, o, b, w, m, up, cl, bd, dir) /\ Coming(l, Lines(q, a2, b), a, a2, c)
          /\ c \in Waiting(Lines(q, a2, b))
      BY <1>4, <1>7, <1>8, <1>9, <3>2, <3>3, Asked
    <3>5. phase' = ph1 /\ late' = lt /\ session' = o /\ inbox' = b /\ asked' = a2 /\ bound' = bd
          /\ crashed' = FALSE
      BY <1>13, <1>20, <2>4, <2>6, <3>1, <3>3 DEF Establish, Now, Sound
    <3>6. Good(q, a2, o, b, w, m, up, cl, bd, ph1, lt, dir, r, n2)
      BY <1>2, <1>3, <1>4, <1>5, <1>9, <1>14, <3>4, Arrives
    <3> QED
      BY <1>16, <3>5, <3>6
  <2>7. CASE ~InMain(s)
    <3>1. PICK x : x = [call |-> "set", conn |-> c, user |-> u, valid |-> valid]
      OBVIOUS
    <3>2. x \in SessCall /\ x.call = "set" /\ x.conn = c
      BY <2>1, <3>1 DEF SessCall
    <3>3. PICK b2 : b2 = [b EXCEPT ![s] = Append(b[s], x)]
      OBVIOUS
    <3>4. Posts(o, b, b2, s, x)
      BY <2>3, <2>5, <2>7, <3>2, <3>3 DEF Posts
    <3>5. /\ Stands(q, a, o, b2, w, m, up, cl, bd, dir) /\ Grows(b, b2)
          /\ Coming(l, Lines(q, a, b2), a, a, c) /\ c \in Waiting(Lines(q, a, b2))
      BY <1>4, <1>7, <1>8, <1>9, <3>2, <3>4, Directed
    <3>6. phase' = ph1 /\ late' = lt /\ session' = o /\ inbox' = b2 /\ asked' = a /\ bound' = bd
          /\ crashed' = FALSE
      BY <1>13, <1>20, <2>4, <2>7, <3>1, <3>3 DEF Establish, Now, Sound
    <3>7. Good(q, a, o, b2, w, m, up, cl, bd, ph1, lt, dir, r, n2)
      BY <1>2, <1>3, <1>4, <1>5, <1>14, <3>5, Arrives
    <3> QED
      BY <1>16, <3>6, <3>7
  <2>8. CASE InMain(s) /\ Takes(s, u, valid)
    <3>1. PICK o2 : o2 = [o EXCEPT ![s] = [o[s] EXCEPT !.conn = c, !.timer = FALSE]]
      OBVIOUS
    <3>2. PICK bd2 : bd2 = [bd EXCEPT ![c] = s]
      OBVIOUS
    <3>3. PICK lt2 : lt2 = IF s \in cl THEN lt \cup {c} ELSE lt
      OBVIOUS
    <3>4. /\ phase' = ph1 /\ late' = lt2 /\ session' = o2 /\ inbox' = b /\ asked' = a
          /\ bound' = bd2 /\ crashed' = FALSE
      BY <1>13, <1>20, <2>4, <2>8, <3>1, <3>2, <3>3 DEF Establish, Now, Sound, Connected
    <3>5. Then(q, a, o2, b, w, m, up, cl, bd2, ph1, lt2, dir, r, n2)
      BY <1>15, <3>4 DEF Then
    <3>6. /\ o2 \in [Sess -> Object] /\ \A t \in Sess \ {s} : o2[t] = o[t]
          /\ o2[s].state = "live" /\ o2[s].home = "main" /\ o2[s].user = o[s].user
          /\ o2[s].setting = o[s].setting /\ o2[s].conn = c /\ ~o2[s].timer
      BY <1>2, <2>3, <2>5, <2>8, <3>1 DEF Object
    <3>7. o[s].conn = None /\ o[s].setting = None
      <4>1. o[s].conn = None
        BY <2>8 DEF Takes, Now
      <4>2. o[s].setting = None
        BY <1>1, <2>5, <2>8 DEF Fits, Fit
      <4> QED
        BY <4>1, <4>2
    <3>8. /\ bd2 \in [Conn -> Sess \cup {None}] /\ bd2[c] = s
          /\ \A d \in Conn \ {c} : bd2[d] = bd[d]
      BY <1>2, <3>2
    <3>9. /\ ph1 \in [Conn -> {"away", "open", "leaving", "bye", "closed"}] /\ ph1[c] = "open"
          /\ \A d \in Conn \ {c} : ph1[d] = ph[d]
      BY <1>1, <1>13 DEF Types
    <3>10. Rests(o, b, o2, b, w, cl)
      <4>1. Fits(o2, b, w, cl)
        <5> SUFFICES ASSUME NEW t \in Sess  PROVE Fit(o2[t], b[t], w[t], t \in cl)
          BY DEF Fits
        <5>1. Fit(o[t], b[t], w[t], t \in cl)
          BY <1>1 DEF Fits
        <5>2. CASE t = s
          BY <1>7, <2>3, <2>5, <2>8, <3>6, <3>7, <5>1, <5>2 DEF Fit
        <5> QED
          BY <3>6, <5>1, <5>2
      <4>2. Alike(o, b, o2, b) /\ Older(o, o2)
        BY <2>3, <2>5, <2>8, <3>6 DEF Alike, Older
      <4>3. Stays(b, b)
        BY DEF Stays
      <4> QED
        BY <1>2, <3>6, <4>1, <4>2, <4>3 DEF Rests
    <3>11. /\ Stands(q, a, o2, b, w, m, up, cl, bd, dir) /\ MixedStill(q, o, up, q, o2, up)
           /\ Born(o, o2)
      BY <1>9, <3>10, Rested
    <3>12. Called(q, a, o2, bd2)
      BY <3>6, <3>8, <3>11 DEF Called, Stands
    <3>13. Queued(l, a, o2, bd2, ph1, r, n2)
      <4>1. Unbound(Waiting(l), o2, bd2, ph1)
        BY <1>7, <1>8, <3>6, <3>7, <3>8, <3>9 DEF Unbound
      <4>2. n \in Nat /\ n2 \in Nat
        BY <1>2, <1>3, <1>5
      <4> QED
        BY <1>2, <1>5, <1>7, <1>10, <3>11, <4>1, <4>2, QueuedComes
    <3>14. Tied(o2, bd2, ph1, b)
      <4>1. ASSUME NEW t \in Sess, NEW d \in Conn
            PROVE  /\ o2[t].conn = d => bd2[d] = t /\ (Open(ph1[d]) \/ Has(b[t], "clear"))
                   /\ o2[t].setting = d /\ Open(ph1[d]) => bd2[d] = t
        <5>1. CASE t = s
          BY <1>7, <3>6, <3>7, <3>8, <3>9, <5>1 DEF Open
        <5>2. CASE t # s
          BY <1>1, <1>8, <3>6, <3>8, <3>9, <5>2 DEF Tied
        <5> QED
          BY <5>1, <5>2
      <4>2. ASSUME NEW d \in Conn, NEW t \in Sess, bd2[d] = t, o2[t].state = "live",
                   o2[t].home = "main", Open(ph1[d])
            PROVE  o2[t].conn = d
        <5>1. CASE d = c
          BY <3>6, <3>8, <4>2, <5>1
        <5>2. CASE d # c
          <6>1. bd[d] = t /\ Open(ph[d]) /\ o[t].state = "live" /\ o[t].home = "main"
            BY <2>3, <2>5, <2>8, <3>6, <3>8, <3>9, <4>2, <5>2
          <6>2. o[t].conn = d
            BY <1>1, <6>1 DEF Tied
          <6> QED
            BY <1>7, <3>6, <3>7, <6>2
        <5> QED
          BY <5>1, <5>2
      <4> QED
        BY <4>1, <4>2 DEF Tied
    <3>15. Attended(q, o2, up, cl, bd2, ph1, lt2, Waiting(l))
      <4>1. Attends(o, cl, bd, ph, lt, Waiting(l), q, o2, up, cl, bd2, ph1, lt2, Waiting(l))
        <5> SUFFICES ASSUME NEW d \in Conn, d \notin lt2, ph1[d] = "open"
                     PROVE  \/ Met(o2, cl, bd2, Waiting(l), d)
                            \/ /\ d \notin lt /\ ph[d] = "open" /\ bd2[d] = bd[d]
                               /\ \A t \in Sess : o[t].conn = d \/ o[t].setting = d => o2[t] = o[t]
          BY DEF Attends
        <5>1. CASE d = c
          <6>1. s \notin cl
            BY <3>3, <5>1
          <6> QED
            BY <3>6, <3>8, <5>1, <6>1 DEF Met
        <5>2. CASE d # c
          BY <1>7, <3>3, <3>6, <3>7, <3>8, <3>9, <5>2
        <5> QED
          BY <5>1, <5>2
      <4> QED
        BY <1>1, <1>4, <3>11, <4>1, AttendedStep
    <3>16. lt2 \in SUBSET Conn
      BY <1>2, <3>3
    <3>17. n2 \in 0 .. MaxEvents
      BY <1>2, <1>3, <1>5
    <3>18. Types(q, a, o2, b, w, m, up, cl, bd2, ph1, lt2, dir, r, n2)
      BY <1>1, <3>6, <3>8, <3>9, <3>16, <3>17 DEF Types
    <3>19. Good(q, a, o2, b, w, m, up, cl, bd2, ph1, lt2, dir, r, n2)
      BY <1>4, <3>11, <3>12, <3>13, <3>14, <3>15, <3>18 DEF Good, Stands
    <3> QED
      BY <1>15, <3>4, <3>5, <3>19, InvAgain DEF Sound
  <2> QED
    BY <2>6, <2>7, <2>8
<1> QED
  <2>1. Listing(u) \in {"none", "here", "elsewhere"}
    BY <1>1 DEF Listing, Types, Now
  <2> QED
    BY <1>17, <1>18, <1>19, <1>20, <2>1

-----------------------------------------------------------------------------
(* The theorems.                                                           *)

(* At the start there are no sessions, and nobody is connected.            *)
LEMMA InitHolds ==
  Init => Inv
<1> SUFFICES ASSUME Init  PROVE Inv
  OBVIOUS
<1>1. /\ main = <<>> /\ asked = <<>> /\ session = [s \in Sess |-> Unborn]
      /\ inbox = [s \in Sess |-> <<>>] /\ owes = [s \in Sess |-> <<>>]
      /\ sessions = [u \in User |-> None] /\ bound = [c \in Conn |-> None]
      /\ phase = [c \in Conn |-> "away"] /\ events = 0 /\ crashed = FALSE
      /\ closed = {} /\ upset = {} /\ late = {} /\ abroad \subseteq User
      /\ directory = [u \in User |-> IF u \in abroad THEN "elsewhere" ELSE "none"]
      /\ record = [u \in User |-> CASE u <= Guests -> "guest"
                                    [] u > Guests /\ u <= Guests + Accounts -> "account"
                                    [] OTHER -> "none"]
  BY DEF Init
<1>2. /\ Guests \in Nat /\ Accounts \in Nat /\ MaxEvents \in Nat /\ None \notin Sess
      /\ None \notin Conn /\ Null # None /\ \A u \in User : u \in Nat
      /\ \A s \in Sess : s \in Nat /\ s > 0
  BY BoundsAssumption DEF None, Null, Sess, Conn, User
<1>3. Unborn \in Object /\ Unborn.state = "unborn" /\ Unborn.home = "main" /\ Unborn.conn = None
      /\ Unborn.setting = None /\ Unborn.timer = FALSE
  BY DEF Unborn, Object
<1>4. Len(main) = 0 /\ Len(asked) = 0 /\ 1 .. 0 = {} /\ \A i : i \in 1 .. Len(main) => FALSE
  BY <1>1
<1>5. \A s \in Sess : /\ session[s] = Unborn /\ inbox[s] = <<>> /\ owes[s] = <<>>
                      /\ Len(inbox[s]) = 0 /\ Len(owes[s]) = 0
  BY <1>1
<1>6. \A u \in User : sessions[u] = None /\ directory[u] # "here" /\ sessions[u] \notin Sess
  BY <1>1, <1>2
<1>7. \A c \in Conn : bound[c] = None /\ phase[c] = "away"
  BY <1>1
<1>8. \A u \in User : record[u] = "none" <=> u > Guests + Accounts
  BY <1>1, <1>2
<1>9. TypeOK
  <2>1. session \in [Sess -> Object]
    BY <1>1, <1>3
  <2>2. /\ inbox \in [Sess -> Seq(SessCall)] /\ owes \in [Sess -> Seq(MainCall)]
        /\ main \in Seq(MainCall) /\ asked \in Seq(Ask)
    BY <1>1
  <2>3. \A u \in User : record[u] \in {"none", "guest", "account", "deleted"}
    BY <1>1, <1>2
  <2>4. record \in [User -> {"none", "guest", "account", "deleted"}]
    BY <1>1, <2>3
  <2>5. events \in 0 .. MaxEvents
    BY <1>1, <1>2
  <2> QED
    BY <1>1, <2>1, <2>2, <2>4, <2>5 DEF TypeOK, Object
<1>10. Fits(session, inbox, owes, closed)
  BY <1>1, <1>3, <1>5 DEF Fits, Fit
<1>11. Called(main, asked, session, bound)
  BY <1>4, <1>7 DEF Called
<1>12. PICK l : l = Lines(main, asked, inbox)
  OBVIOUS
<1>13. \A x \in Queue : Len(l[x]) = 0
  BY <1>4, <1>5, <1>12 DEF Queue, Lines
<1>14. \A x \in Queue : \A i, c : ~Waits(l, x, i, c)
  BY <1>13 DEF Waits
<1>15. Waiting(l) = {} /\ Turned(l) = {} /\ Single(l)
  BY <1>14 DEF Waiting, Turned, Single
<1>16. Queued(l, asked, session, bound, phase, record, events)
  <2>1. Cardinality({}) = 0
    BY FS_EmptySet
  <2>2. Sessions(session, {}, 0)
    <3>1. 0 \in Nat /\ 0 + Cardinality({}) <= 0
      BY <2>1
    <3>2. \A s \in Sess : session[s].state = "unborn" <=> s > 0
      BY <1>2, <1>3, <1>5
    <3> QED
      BY <3>1, <3>2 DEF Sessions
  <2>3. Rows(record, {}, asked, 0)
    <3>1. 0 \in Nat /\ 0 + Cardinality({}) + Len(asked) <= 0
      BY <1>4, <2>1
    <3>2. \A u \in User : record[u] = "none" <=> u > Guests + Accounts + 0
      BY <1>2, <1>8
    <3> QED
      BY <3>1, <3>2 DEF Rows
  <2>4. Unbound({}, session, bound, phase)
    BY <1>2, <1>3, <1>5, <1>7 DEF Unbound
  <2>5. events = 0
    BY <1>1
  <2> QED
    BY <1>15, <2>2, <2>3, <2>4, <2>5 DEF Queued
<1>17. Kept(main, session, sessions, upset, closed, inbox)
  BY <1>1, <1>2, <1>3, <1>4, <1>5, <1>6
     DEF Kept, KeptBut, Entries, Agreed, Found, Changes, Closes
<1>18. Told(main, owes, sessions, upset, directory, inbox)
  BY <1>4, <1>5, <1>6 DEF Told, Announced, Owing, Added, Here, Away
<1>19. Tied(session, bound, phase, inbox)
  BY <1>2, <1>3, <1>5, <1>7 DEF Tied
<1>20. Attended(main, session, upset, closed, bound, phase, late, Waiting(l))
  BY <1>7 DEF Attended
<1>21. Survives
  BY <1>1 DEF Survives
<1> QED
  BY <1>9, <1>10, <1>11, <1>12, <1>16, <1>17, <1>18, <1>19, <1>20, <1>21 DEF Inv

(* Every step keeps the invariant.                                         *)
LEMMA StepKeeps ==
  Inv /\ [Next]_vars => Inv'
<1> SUFFICES ASSUME Inv, [Next]_vars  PROVE Inv'
  OBVIOUS
<1>1. CASE UNCHANGED vars
  <2>1. /\ main' = main /\ asked' = asked /\ session' = session /\ inbox' = inbox
        /\ owes' = owes /\ sessions' = sessions /\ upset' = upset /\ closed' = closed
        /\ bound' = bound /\ phase' = phase /\ late' = late /\ directory' = directory
        /\ record' = record /\ events' = events /\ abroad' = abroad /\ crashed' = crashed
    BY <1>1 DEF vars, connections
  <2>2. PICK q, a, o, b, w, m, up, cl, bd, ph, lt, dir, r, n :
            /\ Now(q, a, o, b, w, m, up, cl, bd, ph, lt, dir, r, n)
            /\ Good(q, a, o, b, w, m, up, cl, bd, ph, lt, dir, r, n)
    BY InvIs
  <2>3. Then(q, a, o, b, w, m, up, cl, bd, ph, lt, dir, r, n)
    BY <2>1, <2>2 DEF Now, Then
  <2>4. abroad' \subseteq User /\ crashed' \in BOOLEAN /\ (crashed' => up # {})
    BY <2>1, <2>2 DEF Inv, TypeOK, Survives, Now
  <2> QED
    BY <2>2, <2>3, <2>4, InvAgain
<1>2. CASE Next
  <2>1. PICK q, a, o, b, w, m, up, cl, bd, ph, lt, dir, r, n :
            /\ Now(q, a, o, b, w, m, up, cl, bd, ph, lt, dir, r, n)
            /\ Good(q, a, o, b, w, m, up, cl, bd, ph, lt, dir, r, n)
    BY InvIs
  <2>2. Now(q, a, o, b, w, m, up, cl, bd, ph, lt, dir, r, n)
    BY <2>1
  <2>3. Good(q, a, o, b, w, m, up, cl, bd, ph, lt, dir, r, n)
    BY <2>1
  <2>4. Sound
    BY <1>2 DEF Next, Sound, Inv, TypeOK
  <2>5. CASE Outside
    <3>1. upset = {} /\ Event
      BY <2>5 DEF Outside, Event
    <3>2. up = {}
      BY <2>2, <3>1 DEF Now
    <3>3. ASSUME NEW c \in Conn, NEW u \in OnRecord \cup {None}, NEW valid \in BOOLEAN,
                 Establish(c, u, valid)
          PROVE  Inv'
      <4>1. u \in User \cup {None}
        BY DEF OnRecord
      <4> QED
        BY <2>2, <2>3, <2>4, <3>1, <3>3, <4>1, StepEstablish
    <3>4. ASSUME NEW s \in Sess, Log(s)  PROVE Inv'
      BY <2>2, <2>3, <2>4, <3>1, <3>4, StepLog
    <3>5. ASSUME NEW u \in User, AddedElsewhere(u)  PROVE Inv'
      BY <2>2, <2>3, <2>4, <3>1, <3>2, <3>5, StepElsewhere
    <3>6. ASSUME NEW u \in User, TransferSession(u)  PROVE Inv'
      BY <2>2, <2>3, <2>4, <3>1, <3>6, StepTransfer
    <3> QED
      BY <2>5, <3>3, <3>4, <3>5, <3>6 DEF Outside
  <2>6. ASSUME NEW c \in Conn, Disconnect(c)  PROVE Inv'
    BY <2>2, <2>3, <2>4, <2>6, StepDisconnect
  <2>7. ASSUME upset = {}, NEW c \in Conn, NEW socket \in BOOLEAN, WindowClosed(c, socket)
        PROVE  Inv'
    <3>1. up = {}
      BY <2>2, <2>7 DEF Now
    <3> QED
      BY <2>2, <2>3, <2>4, <2>7, <3>1, StepWindowClosed
  <2>8. ASSUME NEW s \in Sess, Run(s)  PROVE Inv'
    <3>1. Taken(s)
      BY <2>8 DEF Run, Taken
    <3>2. PICK x : x = Head(inbox[s])
      OBVIOUS
    <3>3. RunSet(s, x) \/ RunClear(s, x) \/ RunClose(s, x) \/ RunUser(s, x) \/ RunDelete(s, x)
      BY <2>8, <3>2 DEF Run
    <3>4. CASE RunSet(s, Head(inbox[s]))
      BY <2>2, <2>3, <2>4, <3>1, <3>4, StepSet
    <3>5. CASE RunClear(s, Head(inbox[s]))
      BY <2>2, <2>3, <2>4, <3>1, <3>5, StepClear
    <3>6. CASE RunClose(s, Head(inbox[s]))
      BY <2>2, <2>3, <2>4, <3>1, <3>6, StepClose
    <3>7. CASE RunUser(s, Head(inbox[s]))
      BY <2>2, <2>3, <2>4, <3>1, <3>7, StepUser
    <3>8. CASE RunDelete(s, Head(inbox[s]))
      BY <2>2, <2>3, <2>4, <3>1, <3>8, StepDelete
    <3> QED
      BY <3>2, <3>3, <3>4, <3>5, <3>6, <3>7, <3>8
  <2>9. ASSUME NEW s \in Sess, FinishSetting(s)  PROVE Inv'
    BY <2>2, <2>3, <2>4, <2>9, StepSetting
  <2>10. ASSUME NEW s \in Sess, Tell(s)  PROVE Inv'
    BY <2>2, <2>3, <2>4, <2>10, StepTell
  <2>11. ASSUME NEW s \in Sess, TimeOut(s)  PROVE Inv'
    BY <2>2, <2>3, <2>4, <2>11, StepTimeOut
  <2>12. ASSUME NEW s \in Sess, Enter(s)  PROVE Inv'
    BY <2>2, <2>3, <2>4, <2>12, StepEnter
  <2>13. ASSUME NEW u \in User, RemovedElsewhere(u)  PROVE Inv'
    BY <2>2, <2>3, <2>4, <2>13, StepElsewhereEnds
  <2>14. CASE MainStep
    <3>1. main # <<>>
      BY <2>14 DEF MainStep
    <3>2. PICK x : x = Head(main)
      OBVIOUS
    <3>3. \/ HandleUnset(x) \/ HandleToken(x) \/ HandleClosed(x)
          \/ HandleChanged(x) \/ HandleRemoved(x) \/ HandleAdded(x)
      BY <2>14, <3>2 DEF MainStep
    <3>4. CASE HandleUnset(Head(main))
      BY <2>2, <2>3, <2>4, <3>1, <3>4, StepUnset
    <3>5. CASE HandleToken(Head(main))
      BY <2>2, <2>3, <2>4, <3>1, <3>5, StepToken
    <3>6. CASE HandleClosed(Head(main))
      BY <2>2, <2>3, <2>4, <3>1, <3>6, StepClosed
    <3>7. CASE HandleChanged(Head(main))
      BY <2>2, <2>3, <2>4, <3>1, <3>7, StepChanged
    <3>8. CASE HandleRemoved(Head(main))
      BY <2>2, <2>3, <2>4, <3>1, <3>8, StepRemoved
    <3>9. CASE HandleAdded(Head(main))
      BY <2>2, <2>3, <2>4, <3>1, <3>9, StepAdded
    <3> QED
      BY <3>2, <3>3, <3>4, <3>5, <3>6, <3>7, <3>8, <3>9
  <2>15. CASE Answer
    <3>1. Answering
      BY <2>15 DEF Answer, Answering
    <3>2. CASE AnswerConnection(Head(asked))
      BY <2>2, <2>3, <2>4, <3>1, <3>2, StepConnectionAnswer
    <3>3. CASE AnswerSession(Head(asked))
      BY <2>2, <2>3, <2>4, <3>1, <3>3, StepSessionAnswer
    <3> QED
      BY <2>15, <3>2, <3>3 DEF Answer
  <2>16. CASE Broadcast
    BY <2>2, <2>3, <2>4, <2>16, StepBroadcast
  <2> QED
    BY <1>2, <2>5, <2>6, <2>7, <2>8, <2>9, <2>10, <2>11, <2>12, <2>13, <2>14, <2>15, <2>16
       DEF Next
<1> QED
  BY <1>1, <1>2

(* The parts of the invariant.                                             *)
LEMMA InvParts ==
  ASSUME Inv
  PROVE  /\ TypeOK /\ Survives /\ Fits(session, inbox, owes, closed)
         /\ Called(main, asked, session, bound)
         /\ Kept(main, session, sessions, upset, closed, inbox)
         /\ Told(main, owes, sessions, upset, directory, inbox)
         /\ Tied(session, bound, phase, inbox)
         /\ Attended(main, session, upset, closed, bound, phase, late,
                     Waiting(Lines(main, asked, inbox)))
  BY DEF Inv

(* When no call waits, a session is whom the map has it for.               *)
LEMMA WasNow ==
  ASSUME main = <<>>, NEW s
  PROVE  /\ \A y, u : Was(main, y, s, 1, u) <=> y = u
         /\ ~Closing(main, s)
<1>1. \A j : j \in 1 .. Len(main) => FALSE
  <2>1. Len(main) = 0
    OBVIOUS
  <2> QED
    BY <2>1
<1> QED
  BY <1>1 DEF Was, Closing

(* Whoever is mixed up then is so under the name it has.                   *)
LEMMA MixedNow ==
  ASSUME Inv, main = <<>>, NEW s \in Sess, session[s].state # "unborn"
  PROVE  /\ session[s].user \in User
         /\ Mixed(main, session, upset, s) => session[s].user \in upset
<1>1. session[s].user \in User
  BY InvParts DEF Fits, Fit
<1>2. Was(main, session[s].user, s, 1, session[s].user)
  BY WasNow
<1> QED
  BY <1>1, <1>2 DEF Mixed

LEMMA InvRegistered ==
  Inv => Registered
<1> SUFFICES ASSUME Inv, main = <<>>
             PROVE  /\ \A s \in Live \ closed :
                        session[s].user \in upset \/ sessions[session[s].user] = s
                    /\ \A u \in User \ upset :
                        sessions[u] # None =>
                            sessions[u] \in Live /\ session[sessions[u]].user = u
  BY DEF Registered
<1>1. /\ Found(main, session, sessions, upset, closed)
      /\ Entries(session, sessions, upset, inbox) /\ Agreed(main, session, sessions, upset)
  BY InvParts DEF Kept, KeptBut
<1>2. ASSUME NEW s \in Live \ closed
      PROVE  session[s].user \in upset \/ sessions[session[s].user] = s
  <2>1. s \in Sess /\ session[s].state # "unborn"
    BY DEF Live
  <2>2. Held(main, session, sessions, upset, s)
    BY <1>1, <2>1 DEF Found
  <2>3. session[s].user \in User
    BY <2>1, MixedNow
  <2>4. Was(main, session[s].user, s, 1, session[s].user)
    BY WasNow
  <2> QED
    BY <2>2, <2>3, <2>4 DEF Held
<1>3. ASSUME NEW u \in User \ upset, sessions[u] # None
      PROVE  sessions[u] \in Live /\ session[sessions[u]].user = u
  <2>1. sessions[u] \in Sess \cup {None, Null}
    BY InvParts DEF TypeOK
  <2>2. sessions[u] \in Sess
    BY <1>1, <1>3, <2>1 DEF Entries
  <2>3. sessions[u] \in Live
    BY <1>1, <2>2 DEF Entries, Live
  <2>4. Was(main, session[sessions[u]].user, sessions[u], 1, u)
    BY <1>1, <2>2 DEF Agreed
  <2>5. session[sessions[u]].user = u
    BY <2>4, WasNow
  <2> QED
    BY <2>3, <2>5
<1> QED
  BY <1>2, <1>3

LEMMA InvListed ==
  Inv => Listed
<1> SUFFICES ASSUME Inv, main = <<>>, \A s \in Sess : owes[s] = <<>>, NEW u \in User \ upset
             PROVE  /\ directory[u] = "here" => sessions[u] \in Live
                    /\ sessions[u] \in Live /\ directory[u] # "here" =>
                        \E i \in DOMAIN inbox[sessions[u]] :
                            inbox[sessions[u]][i].call = "reconnect"
  BY DEF Listed
<1>1. /\ Entries(session, sessions, upset, inbox)
      /\ Here(main, owes, sessions, upset, directory)
      /\ Away(main, owes, sessions, upset, directory, inbox)
  BY InvParts DEF Kept, KeptBut, Told
<1>2. \A s \in Sess : \A c, v : ~Telling(main, owes, c, s, 1, v)
  <2>1. Len(main) = 0 /\ \A s \in Sess : Len(owes[s]) = 0
    OBVIOUS
  <2>2. \A j : j \in 1 .. 0 => FALSE
    OBVIOUS
  <2> QED
    BY <2>1, <2>2 DEF Telling
<1>3. ASSUME directory[u] = "here"  PROVE sessions[u] \in Live
  <2>1. sessions[u] \in Sess
    BY <1>1, <1>2, <1>3 DEF Here
  <2> QED
    BY <1>1, <2>1 DEF Entries, Live
<1>4. ASSUME sessions[u] \in Live, directory[u] # "here"
      PROVE  \E i \in DOMAIN inbox[sessions[u]] : inbox[sessions[u]][i].call = "reconnect"
  <2>1. sessions[u] \in Sess
    BY <1>4 DEF Live
  <2>2. Has(inbox[sessions[u]], "reconnect")
    BY <1>1, <1>2, <1>4, <2>1, WasNow DEF Away
  <2> QED
    BY <2>2 DEF Has
<1> QED
  BY <1>3, <1>4

(* Nothing waits when all is quiet.                                        *)
LEMMA QuietIs ==
  ASSUME Inv, Quiet
  PROVE  /\ main = <<>> /\ Waiting(Lines(main, asked, inbox)) = {}
         /\ \A s \in Live : session[s].setting = None /\ inbox[s] = <<>>
<1>1. main = <<>> /\ asked = <<>> /\ \A s \in Live : session[s].setting = None /\ inbox[s] = <<>>
  BY DEF Quiet, Idle
<1>2. ASSUME NEW s \in Sess  PROVE inbox[s] = <<>>
  <2>1. session[s].state \in {"unborn", "live", "gone"}
    BY InvParts DEF TypeOK
  <2> QED
    BY <1>1, <2>1, InvParts DEF Fits, Fit, Live
<1>3. PICK l : l = Lines(main, asked, inbox)
  OBVIOUS
<1>4. \A x \in Queue : l[x] = <<>>
  BY <1>1, <1>2, <1>3 DEF Queue, Lines
<1>5. ASSUME NEW x \in Queue, NEW i, NEW c  PROVE ~Waits(l, x, i, c)
  <2>1. Len(l[x]) = 0
    BY <1>4
  <2> QED
    BY <2>1 DEF Waits
<1>6. Waiting(l) = {}
  BY <1>5 DEF Waiting
<1> QED
  BY <1>1, <1>3, <1>6

LEMMA InvServed ==
  Inv => Served
<1> SUFFICES ASSUME Inv, Quiet, NEW c \in Conn \ late, phase[c] = "open"
             PROVE  /\ bound[c] # None
                    /\ \/ session[bound[c]].user \in upset
                       \/ bound[c] \in Live \ closed /\ session[bound[c]].conn = c
  BY DEF Served
<1>1. /\ main = <<>> /\ Waiting(Lines(main, asked, inbox)) = {}
      /\ \A s \in Live : session[s].setting = None /\ inbox[s] = <<>>
  BY QuietIs
<1>2. Attended(main, session, upset, closed, bound, phase, late,
               Waiting(Lines(main, asked, inbox)))
  BY InvParts
<1>3. bound[c] # None
  BY <1>1, <1>2 DEF Attended
<1>4. bound[c] \in Sess
  <2>1. bound[c] \in Sess \cup {None}
    BY InvParts DEF TypeOK
  <2> QED
    BY <1>3, <2>1
<1>5. session[bound[c]].state # "unborn"
  BY <1>3, InvParts DEF Called
<1>6. CASE Mixed(main, session, upset, bound[c])
  BY <1>1, <1>3, <1>4, <1>5, <1>6, MixedNow
<1>7. CASE ~Mixed(main, session, upset, bound[c])
  <2>1. /\ bound[c] \notin closed /\ session[bound[c]].state = "live"
        /\ session[bound[c]].conn = c \/ session[bound[c]].setting = c
    BY <1>2, <1>4, <1>7 DEF Attended
  <2>2. bound[c] \in Live /\ session[bound[c]].setting = None
    BY <1>1, <1>4, <2>1 DEF Live
  <2>3. c # None
    BY DEF None, Conn
  <2> QED
    BY <1>3, <2>1, <2>2, <2>3
<1> QED
  BY <1>6, <1>7

LEMMA InvNoStrays ==
  Inv => NoStrays
<1> SUFFICES ASSUME Inv, Quiet, NEW s \in Live, session[s].user \notin upset
             PROVE  /\ s \notin closed
                    /\ \/ session[s].timer
                       \/ session[s].conn # None /\ IsOpen(session[s].conn)
  BY DEF NoStrays
<1>1. main = <<>> /\ inbox[s] = <<>>
  BY QuietIs
<1>2. s \in Sess /\ session[s].state = "live"
  BY DEF Live
<1>3. \A c : ~Has(inbox[s], c)
  BY <1>1, HasNone
<1>4. ~Mixed(main, session, upset, s)
  BY <1>1, <1>2, MixedNow
<1>5. ~Goes(main, session, upset, inbox, s)
  BY <1>1, <1>3, <1>4, WasNow DEF Goes
<1>6. s \notin closed
  BY <1>2, <1>5, InvParts DEF Kept, KeptBut
<1>7. session[s].timer <=> session[s].conn = None
  BY <1>2, InvParts DEF Fits, Fit
<1>8. session[s].conn \in Conn \cup {None}
  BY <1>2, InvParts DEF TypeOK
<1>9. session[s].conn # None => Open(phase[session[s].conn])
  BY <1>2, <1>3, <1>8, InvParts DEF Tied
<1> QED
  BY <1>6, <1>7, <1>9 DEF Open, IsOpen

(* The inductive invariant: the calls that wait say for whom the map has   *)
(* each session, what the directory is still to be told, and where each    *)
(* connection waits.                                                       *)
THEOREM InvHolds ==
  Spec => []Inv
<1> QED
  BY InitHolds, StepKeeps, PTL DEF Spec

(* Every call is made with the arguments its handler takes, and every      *)
(* record of a session or a connection is of its type.                     *)
THEOREM TypeHolds ==
  Spec => []TypeOK
<1>1. Inv => TypeOK
  BY DEF Inv
<1> QED
  BY <1>1, InvHolds, PTL

(* The map of the ConnectionManager finds every session that has not       *)
(* closed, and under the user it is.                                       *)
THEOREM RegisteredHolds ==
  Spec => []Registered
<1> QED
  BY InvRegistered, InvHolds, PTL

(* The directory of the PeerManager agrees with that map, though the two   *)
(* are told by different calls.                                            *)
THEOREM ListedHolds ==
  Spec => []Listed
<1> QED
  BY InvListed, InvHolds, PTL

(* No call finds a null pointer, or a session that has been deleted.       *)
THEOREM SurvivesHolds ==
  Spec => []Survives
<1>1. Inv => Survives
  BY DEF Inv
<1> QED
  BY <1>1, InvHolds, PTL

(* Every connection that is not lost ends up with a session that is open.  *)
THEOREM ServedHolds ==
  Spec => []Served
<1> QED
  BY InvServed, InvHolds, PTL

(* No session is left that has closed, or that nobody will ever close.     *)
THEOREM NoStraysHolds ==
  Spec => []NoStrays
<1> QED
  BY InvNoStrays, InvHolds, PTL

=============================================================================
