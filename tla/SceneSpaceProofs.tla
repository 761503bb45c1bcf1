-------------------------- MODULE SceneSpaceProofs --------------------------
(* That what a scene derives from its actors, its record and its views is  *)
(* right after every step, for any row, any blocks and any sessions.       *)
EXTENDS SceneSpace, FiniteSetTheorems, SequenceTheorems, TLAPS

(***************************************************************************)
(* The inductive invariant.                                                *)
(***************************************************************************)

Block == {BlockOf(p) : p \in Place}

\* The grids whose counts are right.
Grids(S, empty) == {FilledAs(value, empty) : value \in [Place -> S]}

World ==
    [record : [Place -> Char], list : [Place -> Seq(Actor)],
     at : [Actor -> Place], face : [Actor -> Glyph],
     drawn : Grids(Glyph, Blank), labels : Grids(Actor \cup {None}, None),
     flags : Grids(SUBSET {1, 2}, {}),
     views : [Session -> [ViewBlock -> Int]],
     left : [Session -> Int], width : [Session -> Widths],
     legend : [Session -> [Actor -> Int]]]

\* The actors that are there in w.
There(w) == UNION {ToSet(w.list[p]) : p \in Place}

\* Every actor is listed where it is, once.
Stacked(w) ==
    \A p \in Place : /\ IsInjective(w.list[p])
                     /\ \A a \in ToSet(w.list[p]) : w.at[a] = p

\* What is to be seen at a place is what its list, or else the record, says.
Topped(w, p) ==
    IF w.list[p] = <<>>
    THEN w.drawn.value[p] = w.record[p] /\ w.labels.value[p] = None
    ELSE /\ w.drawn.value[p] = w.face[Head(w.list[p])]
         /\ w.labels.value[p] = Head(w.list[p])

\* The flags of some actors together.
FlagsOfAll(A) == UNION {Flags(a) : a \in A}

Barred(w, p) == w.flags.value[p] = FlagsOfAll(ToSet(w.list[p]))

Shown(w) == \A p \in Place : Topped(w, p) /\ Barred(w, p)

\* The blocks that the view of s meets.
Met(w, s) == ViewBlockOf(w.left[s]) .. ViewBlockOf(w.left[s] + w.width[s] - 1)

\* A view that is in just the lists it should be in; in those at least; in none.
Looks(w, s) == \A b \in ViewBlock : w.views[s][b] = IF b \in Met(w, s) THEN 1 ELSE 0
Lingers(w, s) == \A b \in ViewBlock : w.views[s][b] >= IF b \in Met(w, s) THEN 1 ELSE 0
Off(w, s) == \A b \in ViewBlock : w.views[s][b] = 0

Counts(w, s) == w.legend[s] = Counted(w, Bounds(w, s))
Countless(w, s) == w.legend[s] = [a \in Actor |-> 0]

\* What is so of the view and the legend of s at a stage, when those of twice have entered
\* while they were in.
Right(w, s, at, twice) ==
    IF at = "in"
    THEN IF s \in twice THEN Lingers(w, s) /\ Countless(w, s)
         ELSE Looks(w, s) /\ Counts(w, s)
    ELSE /\ Countless(w, s)
         /\ IF s \in twice THEN \A b \in ViewBlock : w.views[s][b] >= 0 ELSE Off(w, s)

\* A pawn is in the scene as long as its session is, and each has its own.
Owned(w) ==
    /\ \A s \in Session : IF In(s) THEN pawn[s] \in There(w) \cap Pawn ELSE pawn[s] = None
    /\ \A s, t \in Session : In(s) /\ In(t) /\ pawn[s] = pawn[t] => s = t

\* What an actor looks like.
Dressed(w) ==
    \A a \in There(w) :
        /\ a \notin cursor => w.face[a] = Figure
        /\ a \in cursor \ beneath => w.face[a] = Reversed(w.record[w.at[a]])

Inv ==
    /\ space \in World
    /\ pawn \in [Session -> Pawn \cup {None}]
    /\ stage \in [Session -> {"out", "in", "gone"}]
    /\ again \subseteq Session /\ \A s \in again : stage[s] # "out"
    /\ cursor \subseteq There(space) \cap Pawn /\ beneath \subseteq cursor
    /\ Column \in There(space)
    /\ Stacked(space) /\ Shown(space)
    /\ Owned(space) /\ Dressed(space)
    /\ \A s \in Session : Right(space, s, stage[s], again)

(***************************************************************************)
(* Blocks.                                                                 *)
(***************************************************************************)

Filled(value, b, empty) == {p \in Place : BlockOf(p) = b /\ value[p] # empty}

(* A row has finitely many places, and so has what is filled of a block.   *)
LEMMA FilledFinite ==
  ASSUME NEW f, NEW b, NEW empty
  PROVE  IsFiniteSet(Filled(f, b, empty)) /\ Cardinality(Filled(f, b, empty)) \in Nat
<1>1. IsFiniteSet(Place)
  BY FS_Interval, SizeAssumption DEF Place
<1>2. Filled(f, b, empty) \in SUBSET Place
  BY DEF Filled
<1>3. IsFiniteSet(Filled(f, b, empty))
  BY <1>1, <1>2, FS_Subset
<1> QED
  BY <1>3, FS_CardinalityType

(* Places and blocks are numbers.                                          *)
LEMMA Numbers ==
  /\ Place \subseteq Nat
  /\ \A p \in Place : BlockOf(p) \in Block
  BY SizeAssumption DEF Place, Block

(* One place changed: the count of its block changes with it.              *)
LEMMA FilledPut ==
  ASSUME NEW f, NEW g, NEW empty, NEW p \in Place,
         \A q \in Place : q # p => g[q] = f[q]
  PROVE  /\ \A b : b # BlockOf(p) => Filled(g, b, empty) = Filled(f, b, empty)
         /\ Cardinality(Filled(g, BlockOf(p), empty))
              = Cardinality(Filled(f, BlockOf(p), empty))
                + (IF f[p] = empty THEN 1 ELSE 0) - (IF g[p] = empty THEN 1 ELSE 0)
<1> DEFINE b == BlockOf(p)
           Fb == Filled(f, b, empty)
           Gb == Filled(g, b, empty)
<1>1. \A c : c # b => Filled(g, c, empty) = Filled(f, c, empty)
  BY DEF Filled
<1>2. IsFiniteSet(Fb) /\ IsFiniteSet(Gb) /\ Cardinality(Fb) \in Nat /\ Cardinality(Gb) \in Nat
  BY FilledFinite
<1>a. PICK m : m = Cardinality(Fb)
  OBVIOUS
<1>b. PICK n : n = Cardinality(Gb)
  OBVIOUS
<1>c. m \in Nat /\ n \in Nat
  BY <1>2, <1>a, <1>b
<1>3. ASSUME f[p] = empty, g[p] = empty
      PROVE  n = m + (IF f[p] = empty THEN 1 ELSE 0) - (IF g[p] = empty THEN 1 ELSE 0)
  <2>1. Gb = Fb
    BY <1>3 DEF Filled
  <2>2. n = m
    BY <2>1, <1>a, <1>b
  <2> HIDE DEF Fb, Gb
  <2> QED
    BY <1>c, <1>3, <2>2
<1>4. ASSUME f[p] = empty, g[p] # empty
      PROVE  n = m + (IF f[p] = empty THEN 1 ELSE 0) - (IF g[p] = empty THEN 1 ELSE 0)
  <2>1. Gb = Fb \cup {p} /\ p \notin Fb
    BY <1>4 DEF Filled
  <2>2. n = m + 1
    BY <2>1, <1>2, <1>a, <1>b, FS_AddElement
  <2> HIDE DEF Fb, Gb
  <2> QED
    BY <1>c, <1>4, <2>2
<1>5. ASSUME f[p] # empty, g[p] = empty
      PROVE  n = m + (IF f[p] = empty THEN 1 ELSE 0) - (IF g[p] = empty THEN 1 ELSE 0)
  <2>1. Gb = Fb \ {p} /\ p \in Fb
    BY <1>5 DEF Filled
  <2>2. Cardinality(Fb \ {p}) = Cardinality(Fb) - 1
    BY <2>1, <1>2, FS_RemoveElement
  <2>3. n = m - 1
    BY <2>1, <2>2, <1>a, <1>b
  <2> HIDE DEF Fb, Gb
  <2> QED
    BY <1>c, <1>5, <2>3
<1>6. ASSUME f[p] # empty, g[p] # empty
      PROVE  n = m + (IF f[p] = empty THEN 1 ELSE 0) - (IF g[p] = empty THEN 1 ELSE 0)
  <2>1. Gb = Fb
    BY <1>6 DEF Filled
  <2>2. n = m
    BY <2>1, <1>a, <1>b
  <2> HIDE DEF Fb, Gb
  <2> QED
    BY <1>c, <1>6, <2>2
<1>7. n = m + (IF f[p] = empty THEN 1 ELSE 0) - (IF g[p] = empty THEN 1 ELSE 0)
  BY <1>3, <1>4, <1>5, <1>6
<1> QED
  BY <1>1, <1>7, <1>a, <1>b

(* A grid is its values and what is filled of each block.                  *)
LEMMA GridParts ==
  ASSUME NEW S, NEW empty \in S, NEW g \in Grids(S, empty)
  PROVE  /\ g.value \in [Place -> S]
         /\ g.filled = [b \in Block |-> Cardinality(Filled(g.value, b, empty))]
         /\ g = FilledAs(g.value, empty)
<1>1. PICK f \in [Place -> S] : g = FilledAs(f, empty)
  BY DEF Grids
<1>2. g.value = f
  BY <1>1 DEF FilledAs
<1> QED
  BY <1>1, <1>2 DEF FilledAs, Filled, Block

(* A grid made from what its places hold is a grid of the record.          *)
LEMMA GridMade ==
  ASSUME NEW S, NEW empty \in S, NEW f \in [Place -> S]
  PROVE  /\ FilledAs(f, empty) \in Grids(S, empty)
         /\ FilledAs(f, empty).value = f
         /\ FilledAs(f, empty)
              = [value |-> f, filled |-> [b \in Block |-> Cardinality(Filled(f, b, empty))]]
  BY DEF Grids, FilledAs, Filled, Block

(* GenericBlock::set, with the removal of an empty block, leaves a grid    *)
(* that differs in the one place.                                          *)
LEMMA PutMakes ==
  ASSUME NEW S, NEW empty \in S, NEW g \in Grids(S, empty), NEW p \in Place, NEW v \in S
  PROVE  /\ Put(g, p, v, empty) \in Grids(S, empty)
         /\ Put(g, p, v, empty).value = [g.value EXCEPT ![p] = v]
<1> DEFINE f == g.value
           h == [f EXCEPT ![p] = v]
           n == g.filled[BlockOf(p)] + (IF f[p] = empty THEN 1 ELSE 0)
                  - (IF v = empty THEN 1 ELSE 0)
<1>1. /\ f \in [Place -> S]
      /\ g.filled = [b \in Block |-> Cardinality(Filled(f, b, empty))]
  BY GridParts
<1>2. h \in [Place -> S] /\ BlockOf(p) \in Block
  BY <1>1, Numbers
<1>3. PICK k : k = h
  OBVIOUS
<1>a. k[p] = v /\ \A q \in Place : q # p => k[q] = f[q]
  BY <1>1, <1>3
<1>4. /\ \A b : b # BlockOf(p) => Filled(k, b, empty) = Filled(f, b, empty)
      /\ Cardinality(Filled(k, BlockOf(p), empty)) = n
  BY <1>1, <1>2, <1>a, FilledPut
<1>5. IsFiniteSet(Filled(k, BlockOf(p), empty))
  BY FilledFinite
<1>6. ASSUME n = 0, NEW q \in Place, BlockOf(q) = BlockOf(p)
      PROVE  k[q] = empty
  <2>1. Filled(k, BlockOf(p), empty) = {}
    BY <1>4, <1>5, <1>6, FS_EmptySet
  <2> QED
    BY <2>1, <1>6 DEF Filled
<1>7. k = [q \in Place |-> IF BlockOf(q) = BlockOf(p) /\ n = 0 THEN empty
                           ELSE IF q = p THEN v ELSE f[q]]
  BY <1>1, <1>2, <1>3, <1>6
<1>8. [g.filled EXCEPT ![BlockOf(p)] = n] = [b \in Block |-> Cardinality(Filled(k, b, empty))]
  BY <1>1, <1>2, <1>4
<1>9. Put(g, p, v, empty) = [value |-> k, filled |-> [g.filled EXCEPT ![BlockOf(p)] = n]]
  BY <1>7 DEF Put
<1>10. k \in [Place -> S]
  BY <1>2, <1>3
<1>11. Put(g, p, v, empty) = FilledAs(k, empty)
  BY <1>8, <1>9, <1>10, GridMade
<1> QED
  BY <1>3, <1>10, <1>11, GridMade

\* One place changed.
Changed(g, f, p, x) == g[p] = x /\ \A q \in Place : q # p => g[q] = f[q]

(* GenericBlock::setFlags, for flags that are not none.                    *)
LEMMA PutFlagsMakes ==
  ASSUME NEW S, NEW g \in Grids(SUBSET S, {}), NEW p \in Place, NEW v \in SUBSET S, v # {}
  PROVE  /\ PutFlags(g, p, v) \in Grids(SUBSET S, {})
         /\ Changed(PutFlags(g, p, v).value, g.value, p, g.value[p] \cup v)
<1> DEFINE f == g.value
           h == [f EXCEPT ![p] = f[p] \cup v]
<1>1. /\ f \in [Place -> SUBSET S] /\ {} \in SUBSET S
      /\ g.filled = [b \in Block |-> Cardinality(Filled(f, b, {}))]
  BY GridParts
<1>2. h \in [Place -> SUBSET S] /\ BlockOf(p) \in Block /\ f[p] \cup v \in SUBSET S
  BY <1>1, Numbers
<1>3. PICK k : k = h
  OBVIOUS
<1>4. PICK u : u = f[p] \cup v
  OBVIOUS
<1>5. u \in SUBSET S /\ u # {} /\ k = [f EXCEPT ![p] = u]
  BY <1>2, <1>3, <1>4
<1>6. /\ \A b : b # BlockOf(p) => Filled(k, b, {}) = Filled(f, b, {})
      /\ Cardinality(Filled(k, BlockOf(p), {}))
           = Cardinality(Filled(f, BlockOf(p), {})) + (IF f[p] = {} THEN 1 ELSE 0)
               - (IF u = {} THEN 1 ELSE 0)
  <2>1. k[p] = u /\ \A q \in Place : q # p => k[q] = f[q]
    BY <1>1, <1>5
  <2>2. PICK e : e = {}
    OBVIOUS
  <2>3. PICK F : F = f
    OBVIOUS
  <2>4. \A q \in Place : q # p => k[q] = F[q]
    BY <2>1, <2>3
  <2>5. ASSUME NEW b, b # BlockOf(p)
        PROVE  Filled(k, b, e) = Filled(F, b, e)
    BY <2>4, <2>5 DEF Filled
  <2>6. Cardinality(Filled(k, BlockOf(p), e))
           = Cardinality(Filled(F, BlockOf(p), e)) + (IF F[p] = e THEN 1 ELSE 0)
               - (IF k[p] = e THEN 1 ELSE 0)
    BY <2>4, FilledPut
  <2> QED
    BY <2>1, <2>2, <2>3, <2>5, <2>6
<1>7. Cardinality(Filled(f, BlockOf(p), {})) \in Nat
  BY FilledFinite
<1>8. Cardinality(Filled(k, BlockOf(p), {}))
        = g.filled[BlockOf(p)] + (IF f[p] = {} /\ v # {} THEN 1 ELSE 0)
  BY <1>1, <1>2, <1>5, <1>6, <1>7
<1>9. [g.filled EXCEPT ![BlockOf(p)] = @ + (IF f[p] = {} /\ v # {} THEN 1 ELSE 0)]
        = [b \in Block |-> Cardinality(Filled(k, b, {}))]
  BY <1>1, <1>2, <1>6, <1>8
<1>10. PutFlags(g, p, v) = [value |-> k, filled |-> [b \in Block |-> Cardinality(Filled(k, b, {}))]]
  BY <1>3, <1>9 DEF PutFlags
<1>11. k \in [Place -> SUBSET S]
  BY <1>2, <1>3
<1>12. PutFlags(g, p, v) = FilledAs(k, {})
  BY <1>1, <1>10, <1>11, GridMade
<1>13. Changed(k, f, p, f[p] \cup v)
  BY <1>1, <1>2, <1>3 DEF Changed
<1> QED
  BY <1>1, <1>11, <1>12, <1>13, GridMade

(***************************************************************************)
(* Worlds.                                                                 *)
(***************************************************************************)

(* The fields of a world.                                                  *)
LEMMA Fields ==
  ASSUME NEW w \in World
  PROVE  /\ w.record \in [Place -> Char] /\ w.list \in [Place -> Seq(Actor)]
         /\ w.at \in [Actor -> Place] /\ w.face \in [Actor -> Glyph]
         /\ w.drawn \in Grids(Glyph, Blank) /\ w.labels \in Grids(Actor \cup {None}, None)
         /\ w.flags \in Grids(SUBSET {1, 2}, {})
         /\ w.views \in [Session -> [ViewBlock -> Int]]
         /\ w.left \in [Session -> Int] /\ w.width \in [Session -> Widths]
         /\ w.legend \in [Session -> [Actor -> Int]]
  BY DEF World

(* What the grids of a world hold.                                         *)
LEMMA Values ==
  ASSUME NEW w \in World
  PROVE  /\ w.drawn.value \in [Place -> Glyph]
         /\ w.labels.value \in [Place -> Actor \cup {None}]
         /\ w.flags.value \in [Place -> SUBSET {1, 2}]
<1>1. /\ w.drawn \in Grids(Glyph, Blank) /\ w.labels \in Grids(Actor \cup {None}, None)
      /\ w.flags \in Grids(SUBSET {1, 2}, {})
  BY Fields
<1>2. Blank \in Glyph /\ None \in Actor \cup {None} /\ {} \in SUBSET {1, 2}
  BY DEF Glyph, Char
<1> QED
  BY <1>1, <1>2, GridParts

\* The legend of s when p is labelled anew.
Adjusted(w, s, p, label) ==
    IF s \notin again /\ w.views[s][ViewBlockOf(p)] > 0 /\ p \in Bounds(w, s)
    THEN Relabelled(w.legend[s], w.labels.value[p], label)
    ELSE w.legend[s]

\* Two worlds that differ in what is drawn, labelled and counted at most.
Alike(v, w) ==
    /\ v.record = w.record /\ v.list = w.list /\ v.at = w.at /\ v.face = w.face
    /\ v.flags = w.flags /\ v.views = w.views /\ v.left = w.left /\ v.width = w.width

(* Scene::setInBlocks draws and labels one place and changes legends.      *)
LEMMA SetMakes ==
  ASSUME NEW w \in World, NEW p \in Place, NEW glyph \in Glyph,
         NEW label \in Actor \cup {None},
         NEW v, v = SetInBlocks(w, p, glyph, label)
  PROVE  /\ v \in World /\ Alike(v, w)
         /\ Changed(v.drawn.value, w.drawn.value, p, glyph)
         /\ Changed(v.labels.value, w.labels.value, p, label)
         /\ \A s \in Session : v.legend[s] = Adjusted(w, s, p, label)
<1> DEFINE legend == [s \in Session |-> Adjusted(w, s, p, label)]
<1>1. PICK d : d = Put(w.drawn, p, glyph, Blank)
  OBVIOUS
<1>2. PICK l : l = Put(w.labels, p, label, None)
  OBVIOUS
<1>3. Blank \in Glyph /\ None \in Actor \cup {None}
  BY DEF Glyph, Char
<1>4. w.drawn \in Grids(Glyph, Blank) /\ w.labels \in Grids(Actor \cup {None}, None)
  BY Fields
<1>5. d \in Grids(Glyph, Blank) /\ d.value = [w.drawn.value EXCEPT ![p] = glyph]
  BY <1>1, <1>3, <1>4, PutMakes
<1>6. l \in Grids(Actor \cup {None}, None) /\ l.value = [w.labels.value EXCEPT ![p] = label]
  <2>1. PICK S : S = Actor \cup {None}
    OBVIOUS
  <2>2. PICK g : g = w.labels
    OBVIOUS
  <2>3. None \in S /\ g \in Grids(S, None) /\ label \in S
    BY <1>3, <1>4, <2>1, <2>2
  <2>4. Put(g, p, label, None) \in Grids(S, None)
    BY <2>3, PutMakes
  <2>5. Put(g, p, label, None).value = [g.value EXCEPT ![p] = label]
    BY <2>3, PutMakes
  <2> QED
    BY <1>2, <2>1, <2>2, <2>4, <2>5
<1>7. legend \in [Session -> [Actor -> Int]]
  <2>1. w.legend \in [Session -> [Actor -> Int]]
    BY Fields
  <2>2. ASSUME NEW c \in [Actor -> Int], NEW o, NEW n
        PROVE  Relabelled(c, o, n) \in [Actor -> Int]
    BY DEF Relabelled
  <2> QED
    BY <2>1, <2>2 DEF Adjusted
<1>8. v = [w EXCEPT !.drawn = d, !.labels = l, !.legend = legend]
  BY <1>1, <1>2 DEF SetInBlocks, Adjusted
<1>9. PICK g : g = legend
  OBVIOUS
<1>10. v = [w EXCEPT !.drawn = d, !.labels = l, !.legend = g]
  BY <1>8, <1>9
<1>11. v \in World /\ v.drawn = d /\ v.labels = l /\ v.legend = g /\ Alike(v, w)
  <2>1. g \in [Session -> [Actor -> Int]]
    BY <1>7, <1>9
  <2> HIDE DEF legend
  <2> QED
    BY <2>1, <1>5, <1>6, <1>10 DEF World, Alike
<1>12. Changed(d.value, w.drawn.value, p, glyph) /\ Changed(l.value, w.labels.value, p, label)
  BY <1>5, <1>6, Values DEF Changed
<1>13. \A s \in Session : v.legend[s] = Adjusted(w, s, p, label)
  BY <1>9, <1>11
<1> QED
  BY <1>11, <1>12, <1>13

(***************************************************************************)
(* Lists of actors.                                                        *)
(***************************************************************************)

\* A list that each actor is in once at most, and a not at all.
Fresh(l, a) == a \notin ToSet(l) /\ IsInjective(l)

(* An actor put on top of a list.                                          *)
LEMMA Pushed ==
  ASSUME NEW l \in Seq(Actor), NEW a \in Actor, NEW m, m = <<a>> \o l
  PROVE  /\ m \in Seq(Actor) /\ m # <<>> /\ Head(m) = a
         /\ ToSet(m) = {a} \cup ToSet(l)
         /\ Fresh(l, a) => IsInjective(m)
<1>1. <<a>> \in Seq(Actor) /\ Len(<<a>>) = 1 /\ <<a>>[1] = a
  OBVIOUS
<1>2. /\ m \in Seq(Actor) /\ Len(m) = 1 + Len(l)
      /\ \A i \in 1 .. 1 + Len(l) : m[i] = IF i <= 1 THEN a ELSE l[i - 1]
  <2>1. /\ m \in Seq(Actor) /\ Len(m) = Len(<<a>>) + Len(l)
        /\ \A i \in 1 .. Len(<<a>>) + Len(l) :
             m[i] = IF i <= Len(<<a>>) THEN <<a>>[i] ELSE l[i - Len(<<a>>)]
    BY <1>1, ConcatProperties
  <2> QED
    BY <1>1, <2>1
<1>3. /\ Len(l) \in Nat /\ DOMAIN l = 1 .. Len(l)
      /\ DOMAIN m = 1 .. 1 + Len(l)
  BY <1>2, LenProperties
<1>4. m # <<>> /\ Head(m) = a
  BY <1>2, <1>3
<1>5. ToSet(m) = {a} \cup ToSet(l)
  <2>1. ASSUME NEW i \in DOMAIN m  PROVE m[i] \in {a} \cup ToSet(l)
    <3>1. CASE i = 1
      BY <3>1, <1>2, <1>3
    <3>2. CASE i # 1
      <4>1. i - 1 \in DOMAIN l /\ m[i] = l[i - 1]
        BY <3>2, <1>2, <1>3
      <4> QED
        BY <4>1 DEF ToSet
    <3> QED
      BY <3>1, <3>2
  <2>2. ASSUME NEW i \in DOMAIN l  PROVE l[i] \in ToSet(m)
    <3>1. i + 1 \in DOMAIN m /\ m[i + 1] = l[i]
      BY <1>2, <1>3
    <3> QED
      BY <3>1 DEF ToSet
  <2>3. a \in ToSet(m)
    <3>1. 1 \in DOMAIN m /\ m[1] = a
      BY <1>2, <1>3
    <3> QED
      BY <3>1 DEF ToSet
  <2> QED
    BY <2>1, <2>2, <2>3 DEF ToSet
<1>6. ASSUME Fresh(l, a)  PROVE IsInjective(m)
  <2>1. ASSUME NEW i \in DOMAIN m, NEW j \in DOMAIN m, m[i] = m[j]  PROVE i = j
    <3>1. \A k \in DOMAIN l : l[k] # a
      BY <1>6 DEF Fresh, ToSet
    <3>2. \A k \in DOMAIN m : k = 1 \/ (k - 1 \in DOMAIN l /\ m[k] = l[k - 1])
      BY <1>2, <1>3
    <3>3. m[1] = a
      BY <1>2, <1>3
    <3>4. \A k, n \in DOMAIN l : l[k] = l[n] => k = n
      BY <1>6 DEF Fresh, IsInjective
    <3>5. i \in Int /\ j \in Int
      BY <1>3
    <3> QED
      BY <2>1, <3>1, <3>2, <3>3, <3>4, <3>5
  <2> QED
    BY <2>1 DEF IsInjective
<1> QED
  BY <1>2, <1>4, <1>5, <1>6

(* The first node that is the actor taken out of a list.                   *)
LEMMA Pulled ==
  ASSUME NEW l \in Seq(Actor), IsInjective(l), NEW a \in ToSet(l), NEW m, m = RemoveFirst(l, a)
  PROVE  /\ m \in Seq(Actor) /\ IsInjective(m)
         /\ ToSet(m) = ToSet(l) \ {a}
         /\ l # <<>>
         /\ Head(l) # a => m # <<>> /\ Head(m) = Head(l)
<1>1. Len(l) \in Nat /\ DOMAIN l = 1 .. Len(l) /\ \A i \in 1 .. Len(l) : l[i] \in Actor
  BY LenProperties, ElementOfSeq
<1>2. PICK k \in 1 .. Len(l) : l[k] = a
  BY <1>1 DEF ToSet
<1>3. \A i \in 1 .. Len(l) : l[i] = a <=> i = k
  BY <1>1, <1>2 DEF IsInjective
<1>4. m = RemoveAt(l, k)
  <2>1. {i \in 1 .. Len(l) : l[i] = a} = {k}
    BY <1>2, <1>3
  <2>2. Min({k}) = k
    BY <1>1, <1>2 DEF Min
  <2>3. SelectInSeq(l, LAMBDA v : v = a) = k
    BY <2>1, <2>2 DEF SelectInSeq
  <2> QED
    BY <1>2, <2>3 DEF RemoveFirst
<1>5. m = SubSeq(l, 1, k - 1) \o SubSeq(l, k + 1, Len(l))
  BY <1>4 DEF RemoveAt
<1>6. PICK x : x = SubSeq(l, 1, k - 1)
  OBVIOUS
<1>7. PICK y : y = SubSeq(l, k + 1, Len(l))
  OBVIOUS
<1>8. x \in Seq(Actor) /\ Len(x) = k - 1 /\ \A i \in 1 .. k - 1 : x[i] = l[i]
  BY <1>1, <1>2, <1>6
<1>9. y \in Seq(Actor) /\ Len(y) = Len(l) - k /\ \A i \in 1 .. Len(l) - k : y[i] = l[k + i]
  <2>1. /\ y \in Seq(Actor) /\ Len(y) = IF k + 1 <= Len(l) THEN Len(l) - (k + 1) + 1 ELSE 0
        /\ \A i \in 1 .. Len(l) - (k + 1) + 1 : y[i] = l[(k + 1) + i - 1]
    <3>1. \A i \in (k + 1) .. Len(l) : l[i] \in Actor
      BY <1>1, <1>2
    <3>2. PICK n : n = k + 1
      OBVIOUS
    <3>3. n \in Int /\ Len(l) \in Int /\ y = SubSeq(l, n, Len(l))
      BY <1>1, <1>2, <1>7, <3>2
    <3> QED
      BY <3>1, <3>2, <3>3, SubSeqProperties
  <2>a. PICK n : n = Len(l)
    OBVIOUS
  <2>b. Len(y) = IF k + 1 <= n THEN n - (k + 1) + 1 ELSE 0
    BY <2>1, <2>a
  <2>c. n \in Nat /\ k \in 1 .. n
    BY <1>1, <1>2, <2>a
  <2>d. Len(y) = n - k
    BY <2>b, <2>c
  <2>2. Len(y) = Len(l) - k
    BY <2>a, <2>d
  <2>3. ASSUME NEW i \in 1 .. Len(l) - k  PROVE y[i] = l[k + i]
    <3>1. i \in 1 .. Len(l) - (k + 1) + 1 /\ (k + 1) + i - 1 = k + i
      BY <1>1, <1>2
    <3> QED
      BY <2>1, <3>1
  <2> QED
    BY <2>1, <2>2, <2>3
<1>10. /\ m \in Seq(Actor) /\ Len(m) = Len(l) - 1
       /\ \A i \in 1 .. Len(l) - 1 : m[i] = IF i < k THEN l[i] ELSE l[i + 1]
  <2>1. m = x \o y
    BY <1>5, <1>6, <1>7
  <2>2. /\ m \in Seq(Actor) /\ Len(m) = Len(x) + Len(y)
        /\ \A i \in 1 .. Len(x) + Len(y) : m[i] = IF i <= Len(x) THEN x[i] ELSE y[i - Len(x)]
    <3>1. x \in Seq(Actor) /\ y \in Seq(Actor)
      BY <1>8, <1>9
    <3>2. PICK S : S = Actor
      OBVIOUS
    <3>3. x \in Seq(S) /\ y \in Seq(S)
      BY <3>1, <3>2
    <3>4. x \o y \in Seq(S) /\ Len(x \o y) = Len(x) + Len(y)
      BY <3>3, ConcatProperties
    <3>5. \A i \in 1 .. Len(x) + Len(y) : (x \o y)[i] = IF i <= Len(x) THEN x[i] ELSE y[i - Len(x)]
      BY <3>3, ConcatProperties
    <3> QED
      BY <2>1, <3>2, <3>4, <3>5
  <2>3. Len(x) + Len(y) = Len(l) - 1
    BY <1>1, <1>2, <1>8, <1>9
  <2>4. ASSUME NEW i \in 1 .. Len(l) - 1  PROVE m[i] = IF i < k THEN l[i] ELSE l[i + 1]
    <3>1. CASE i < k
      BY <3>1, <1>1, <1>2, <1>8, <2>2, <2>3
    <3>2. CASE i >= k
      <4>1. m[i] = y[i - (k - 1)]
        BY <3>2, <1>1, <1>2, <1>8, <2>2, <2>3
      <4>2. i - (k - 1) \in 1 .. Len(l) - k /\ k + (i - (k - 1)) = i + 1
        BY <3>2, <1>1, <1>2
      <4> QED
        BY <3>2, <4>1, <4>2, <1>9, <1>2
    <3> QED
      BY <3>1, <3>2, <1>2
  <2> QED
    BY <2>2, <2>3, <2>4
<1>11. DOMAIN m = 1 .. Len(l) - 1
  BY <1>10, LenProperties
<1>12. IsInjective(m)
  <2>1. \A i, j \in 1 .. Len(l) : l[i] = l[j] => i = j
    BY <1>1 DEF IsInjective
  <2>2. ASSUME NEW i \in DOMAIN m, NEW j \in DOMAIN m, m[i] = m[j]  PROVE i = j
    BY <1>1, <1>2, <1>10, <1>11, <2>1, <2>2
  <2> QED
    BY <2>2 DEF IsInjective
<1>13. ToSet(m) = ToSet(l) \ {a}
  <2>1. ASSUME NEW i \in DOMAIN m  PROVE m[i] \in ToSet(l) \ {a}
    <3>1. PICK j \in 1 .. Len(l) : j # k /\ m[i] = l[j]
      BY <1>1, <1>2, <1>10, <1>11
    <3> QED
      BY <3>1, <1>1, <1>3 DEF ToSet
  <2>2. ASSUME NEW i \in DOMAIN l, l[i] # a  PROVE l[i] \in ToSet(m)
    <3>1. i # k
      BY <1>2, <2>2
    <3>2. \E j \in DOMAIN m : m[j] = l[i]
      <4>1. CASE i < k
        BY <4>1, <1>1, <1>2, <1>10, <1>11
      <4>2. CASE i > k
        <5>1. i - 1 \in 1 .. Len(l) - 1 /\ m[i - 1] = l[i]
          BY <4>2, <1>1, <1>2, <1>10
        <5> QED
          BY <5>1, <1>11
      <4> QED
        BY <3>1, <4>1, <4>2, <1>1, <1>2
    <3> QED
      BY <3>2 DEF ToSet
  <2>3. ToSet(m) \subseteq ToSet(l) \ {a}
    BY <2>1 DEF ToSet
  <2>4. ToSet(l) \ {a} \subseteq ToSet(m)
    BY <2>2 DEF ToSet
  <2> QED
    BY <2>3, <2>4
<1>14. l # <<>>
  BY <1>1, <1>2
<1>15. ASSUME Head(l) # a  PROVE m # <<>> /\ Head(m) = Head(l)
  <2>1. Head(l) = l[1]
    BY <1>14
  <2>2. k > 1 /\ Len(l) > 1
    BY <1>1, <1>2, <1>15, <2>1
  <2>3. m[1] = l[1] /\ Len(m) > 0
    BY <1>1, <1>2, <1>10, <2>2
  <2> QED
    BY <1>10, <2>1, <2>3
<1> QED
  BY <1>10, <1>12, <1>13, <1>14, <1>15

(***************************************************************************)
(* Legends.                                                                *)
(***************************************************************************)

\* What a place counts for, when those in B with the label a are counted.
One(f, B, p, a) == IF p \in B /\ f[p] = a THEN 1 ELSE 0

\* The places in B with the label a.
Where(labels, B, a) == {p \in B \cap Place : labels[p] = a}

(* The places that show an actor are finite in number: a legend can count them. *)
LEMMA WhereFinite ==
  ASSUME NEW f, NEW B, NEW a
  PROVE  IsFiniteSet(Where(f, B, a)) /\ Cardinality(Where(f, B, a)) \in Nat
<1>1. IsFiniteSet(Place)
  BY FS_Interval, SizeAssumption DEF Place
<1>2. Where(f, B, a) \in SUBSET Place
  BY DEF Where
<1>3. IsFiniteSet(Where(f, B, a))
  BY <1>1, <1>2, FS_Subset
<1> QED
  BY <1>3, FS_CardinalityType

(* What Counted gives an actor is how many places of the view show it.     *)
LEMMA CountedIs ==
  ASSUME NEW w, NEW B, NEW a \in Actor
  PROVE  /\ Counted(w, B)[a] = Cardinality(Where(w.labels.value, B, a))
         /\ Counted(w, B)[a] \in Nat
         /\ Counted(w, B) = [x \in Actor |-> Counted(w, B)[x]]
<1>1. Counted(w, B) = [x \in Actor |-> Cardinality(Where(w.labels.value, B, x))]
  BY DEF Counted, Where
<1>2. Cardinality(Where(w.labels.value, B, a)) \in Nat
  BY WhereFinite
<1> QED
  BY <1>1, <1>2

(* One label changed.                                                      *)
LEMMA WherePut ==
  ASSUME NEW f, NEW g, NEW p \in Place, NEW x, Changed(g, f, p, x),
         NEW B, NEW a
  PROVE  Cardinality(Where(g, B, a))
           = Cardinality(Where(f, B, a)) - One(f, B, p, a) + One(g, B, p, a)
<1> DEFINE F == Where(f, B, a)
           G == Where(g, B, a)
<1>1. PICK m : m = Cardinality(F)
  OBVIOUS
<1>2. PICK n : n = Cardinality(G)
  OBVIOUS
<1>3. IsFiniteSet(F) /\ IsFiniteSet(G) /\ m \in Nat /\ n \in Nat
  BY <1>1, <1>2, WhereFinite
<1>4. p \in F <=> p \in B /\ f[p] = a
  BY DEF Where
<1>5. p \in G <=> p \in B /\ g[p] = a
  BY DEF Where
<1>6. F \ {p} = G \ {p}
  BY DEF Where, Changed
<1>7. ASSUME NEW X, IsFiniteSet(X), Cardinality(X) \in Nat
      PROVE  Cardinality(X) = Cardinality(X \ {p}) + (IF p \in X THEN 1 ELSE 0)
  <2>1. Cardinality(X \ {p}) = IF p \in X THEN Cardinality(X) - 1 ELSE Cardinality(X)
    BY <1>7, FS_RemoveElement
  <2>2. PICK c : c = Cardinality(X)
    OBVIOUS
  <2> QED
    BY <1>7, <2>1, <2>2
<1>8. PICK k : k = Cardinality(F \ {p})
  OBVIOUS
<1>9. m = k + (IF p \in F THEN 1 ELSE 0)
  BY <1>1, <1>3, <1>7, <1>8
<1>10. n = k + (IF p \in G THEN 1 ELSE 0)
  BY <1>2, <1>3, <1>6, <1>7, <1>8
<1>11. k \in Nat
  BY <1>3, <1>8, FS_RemoveElement, FS_CardinalityType
<1> HIDE DEF F, G
<1>12. n = m - (IF p \in F THEN 1 ELSE 0) + (IF p \in G THEN 1 ELSE 0)
  BY <1>3, <1>9, <1>10, <1>11
<1>13. n = m - (IF p \in B /\ f[p] = a THEN 1 ELSE 0) + (IF p \in B /\ g[p] = a THEN 1 ELSE 0)
  BY <1>4, <1>5, <1>12
<1> QED
  BY <1>1, <1>2, <1>13 DEF F, G, One

(* Places and the blocks of the hash of views.                             *)
LEMMA Widest == Wide \in Nat \ {0} /\ Wide \in Widths
<1>1. PICK w \in Widths : \A v \in Widths : w >= v
  BY SizeAssumption
<1>2. Wide \in Widths
  BY <1>1 DEF Wide, Max
<1> QED
  BY <1>2, SizeAssumption

(* The block of a place of the hash of views never goes down along the row. *)
LEMMA Monotone ==
  ASSUME NEW p \in Int, NEW q \in Int, p <= q
  PROVE  /\ ViewBlockOf(p) \in Int /\ ViewBlockOf(q) \in Int
         /\ ViewBlockOf(p) <= ViewBlockOf(q)
<1>1. ViewSize \in Nat \ {0}
  BY SizeAssumption
<1>2. p \div ViewSize \in Int /\ q \div ViewSize \in Int /\ p \div ViewSize <= q \div ViewSize
  BY <1>1
<1> QED
  BY <1>2 DEF ViewBlockOf

(* Every place is in one of the blocks of the hash of views.               *)
LEMMA InViewBlock ==
  ASSUME NEW p \in Place
  PROVE  ViewBlockOf(p) \in ViewBlock
<1>1. p \in Int /\ p <= Row + 2 * Wide /\ -2 * Wide <= p
  BY Widest, SizeAssumption DEF Place
<1>2. Row + 2 * Wide \in Int /\ -2 * Wide \in Int
  BY Widest, SizeAssumption
<1>3. ViewBlockOf(-2 * Wide) \in Int /\ ViewBlockOf(p) \in Int /\ ViewBlockOf(-2 * Wide) <= ViewBlockOf(p)
  BY <1>1, <1>2, Monotone
<1>4. ViewBlockOf(Row + 2 * Wide) \in Int /\ ViewBlockOf(p) <= ViewBlockOf(Row + 2 * Wide)
  BY <1>1, <1>2, Monotone
<1> QED
  BY <1>3, <1>4 DEF ViewBlock

(* A place in the bounds of a view is in a block that the view meets.      *)
LEMMA InMet ==
  ASSUME NEW w \in World, NEW s \in Session, NEW p \in Bounds(w, s)
  PROVE  ViewBlockOf(p) \in Met(w, s)
<1>1. w.left[s] \in Int /\ w.width[s] \in Nat \ {0}
  BY Fields, SizeAssumption
<1>2. PICK l : l = w.left[s]
  OBVIOUS
<1>3. PICK r : r = w.left[s] + w.width[s] - 1
  OBVIOUS
<1>4. l \in Int /\ r \in Int /\ p \in Int /\ l <= p /\ p <= r
  BY <1>1, <1>2, <1>3 DEF Bounds
<1>5. ViewBlockOf(l) \in Int /\ ViewBlockOf(p) \in Int /\ ViewBlockOf(l) <= ViewBlockOf(p)
  BY <1>4, Monotone
<1>6. ViewBlockOf(r) \in Int /\ ViewBlockOf(p) <= ViewBlockOf(r)
  BY <1>4, Monotone
<1> QED
  BY <1>2, <1>3, <1>5, <1>6 DEF Met

(* A block that the view meets has a place in its bounds.                  *)
LEMMA MetHas ==
  ASSUME NEW w \in World, NEW s \in Session, NEW b \in Met(w, s)
  PROVE  \E p \in Bounds(w, s) : ViewBlockOf(p) = b
<1>1. w.left[s] \in Int /\ w.width[s] \in Nat \ {0} /\ ViewSize \in Nat \ {0}
  BY Fields, SizeAssumption
<1>2. PICK l : l = w.left[s]
  OBVIOUS
<1>3. PICK r : r = w.left[s] + w.width[s] - 1
  OBVIOUS
<1>4. l \in Int /\ r \in Int /\ l <= r /\ Bounds(w, s) = l .. r
  BY <1>1, <1>2, <1>3 DEF Bounds
<1>5. b \in (l \div ViewSize) .. (r \div ViewSize)
  BY <1>2, <1>3 DEF Met, ViewBlockOf
<1>6. CASE b = l \div ViewSize
  BY <1>4, <1>6 DEF ViewBlockOf
<1>7. CASE b # l \div ViewSize
  <2>1. l \div ViewSize \in Int /\ r \div ViewSize \in Int
    BY <1>1, <1>4
  <2>2. b \in Int
    BY <1>5, <2>1
  <2>3. l <= ViewSize * b /\ ViewSize * b <= r /\ ViewSize * b \in Int
    BY <1>1, <1>4, <1>5, <1>7, <2>2
  <2>4. (ViewSize * b) \div ViewSize = b
    BY <1>1, <2>2
  <2>5. ViewSize * b \in Bounds(w, s)
    BY <1>4, <2>3
  <2> QED
    BY <2>4, <2>5 DEF ViewBlockOf
<1> QED
  BY <1>6, <1>7

(* Scene::setInBlocks and Legend::labelChanged keep every legend as it     *)
(* should be.                                                              *)
LEMMA SetRight ==
  ASSUME NEW w \in World, NEW p \in Place, NEW glyph \in Glyph,
         NEW label \in Actor \cup {None},
         NEW v, v = SetInBlocks(w, p, glyph, label),
         NEW s \in Session, NEW at, Right(w, s, at, again)
  PROVE  Right(v, s, at, again)
<1>a. v \in World /\ Alike(v, w)
  BY SetMakes
<1>b. Changed(v.labels.value, w.labels.value, p, label)
  BY SetMakes
<1>c. v.legend[s] = Adjusted(w, s, p, label)
  BY SetMakes
<1>1. /\ v \in World /\ Alike(v, w)
      /\ v.legend[s] = IF s \notin again /\ w.views[s][ViewBlockOf(p)] > 0 /\ p \in Bounds(w, s)
                       THEN Relabelled(w.legend[s], w.labels.value[p], label)
                       ELSE w.legend[s]
  BY <1>a, <1>c DEF Adjusted
<1>2. /\ v.views = w.views /\ v.left = w.left /\ v.width = w.width
      /\ Met(v, s) = Met(w, s) /\ Bounds(v, s) = Bounds(w, s)
  BY <1>1 DEF Alike, Met, Bounds
<1>3. CASE at = "in" /\ s \in again
  <2>1. v.legend[s] = w.legend[s]
    BY <1>1, <1>3
  <2> QED
    BY <1>2, <1>3, <2>1 DEF Right, Lingers, Countless
<1>4. CASE at # "in"
  <2>1. v.legend[s] = w.legend[s]
    <3>1. CASE s \in again
      BY <1>1, <3>1
    <3>2. CASE s \notin again
      <4>1. w.views[s][ViewBlockOf(p)] = 0
        BY <1>4, <3>2, InViewBlock DEF Right, Off
      <4> QED
        BY <1>1, <4>1
    <3> QED
      BY <3>1, <3>2
  <2> QED
    BY <1>2, <1>4, <2>1 DEF Right, Off, Countless
<1>5. CASE at = "in" /\ s \notin again
  <2>1. Looks(w, s) /\ Counts(w, s)
    BY <1>5 DEF Right
  <2>2. Looks(v, s)
    BY <1>2, <2>1 DEF Looks
  <2>3. PICK B : B = Bounds(w, s)
    OBVIOUS
  <2>4. PICK f : f = w.labels.value
    OBVIOUS
  <2>5. PICK g : g = v.labels.value
    OBVIOUS
  <2>6. Changed(g, f, p, label) /\ g[p] = label
    BY <1>b, <2>4, <2>5 DEF Changed
  <2>7. \A a \in Actor : /\ w.legend[s][a] = Cardinality(Where(f, B, a))
                         /\ Cardinality(Where(f, B, a)) \in Int
    <3>1. w.legend[s] = Counted(w, B)
      BY <2>1, <2>3 DEF Counts
    <3>2. ASSUME NEW a \in Actor
          PROVE  Counted(w, B)[a] = Cardinality(Where(f, B, a)) /\ Cardinality(Where(f, B, a)) \in Int
      BY <2>4, CountedIs, WhereFinite
    <3> QED
      BY <3>1, <3>2
  <2>8. \A a \in Actor : Cardinality(Where(g, B, a))
                            = Cardinality(Where(f, B, a)) - One(f, B, p, a) + One(g, B, p, a)
    BY <2>6, WherePut
  <2>9. v.legend[s] \in [Actor -> Int] /\ w.legend[s] \in [Actor -> Int]
    BY <1>1, Fields
  <2>10. \A a \in Actor : v.legend[s][a] = Cardinality(Where(g, B, a))
    <3>1. CASE p \in B
      <4>1. w.views[s][ViewBlockOf(p)] = 1
        BY <2>1, <2>3, <3>1, InMet, InViewBlock DEF Looks
      <4>2. v.legend[s] = Relabelled(w.legend[s], f[p], g[p])
        BY <1>1, <1>5, <2>3, <2>4, <2>6, <3>1, <4>1
      <4>3. \A a \in Actor : v.legend[s][a] = w.legend[s][a] - (IF a = f[p] THEN 1 ELSE 0)
                                                + (IF a = g[p] THEN 1 ELSE 0)
        BY <4>2 DEF Relabelled
      <4> QED
        BY <2>7, <2>8, <3>1, <4>3 DEF One
    <3>2. CASE p \notin B
      <4>1. v.legend[s] = w.legend[s]
        BY <1>1, <2>3, <3>2
      <4> QED
        BY <2>7, <2>8, <3>2, <4>1 DEF One
    <3> QED
      BY <3>1, <3>2
  <2>11. Counts(v, s)
    <3>1. v.legend[s] = [a \in Actor |-> v.legend[s][a]]
      BY <2>9
    <3>2. \A a \in Actor : Counted(v, B)[a] = Cardinality(Where(g, B, a))
      BY <2>5, CountedIs
    <3>3. Counted(v, B) = [a \in Actor |-> Cardinality(Where(g, B, a))]
      BY <2>5 DEF Counted, Where
    <3>4. v.legend[s] = Counted(v, B)
      BY <2>10, <3>1, <3>3
    <3> QED
      BY <1>2, <2>3, <3>4 DEF Counts
  <2> QED
    BY <1>5, <2>2, <2>11 DEF Right
<1> QED
  BY <1>3, <1>4, <1>5

(* Nothing changes for a session when neither its view and legend nor any  *)
(* label does.                                                             *)
LEMMA RightSame ==
  ASSUME NEW w, NEW v, NEW s \in Session, NEW at, NEW twice, Right(w, s, at, twice),
         v.views[s] = w.views[s], v.left[s] = w.left[s], v.width[s] = w.width[s],
         v.legend[s] = w.legend[s], v.labels = w.labels
  PROVE  Right(v, s, at, twice)
<1>1. Met(v, s) = Met(w, s) /\ Bounds(v, s) = Bounds(w, s)
  BY DEF Met, Bounds
<1>2. Counts(w, s) => Counts(v, s)
  BY <1>1 DEF Counts, Counted
<1>3. Countless(w, s) => Countless(v, s)
  BY DEF Countless
<1>4. /\ Looks(w, s) => Looks(v, s) 
      /\ Lingers(w, s) => Lingers(v, s) 
      /\ Off(w, s) => Off(v, s)
  BY <1>1 DEF Looks, Lingers, Off
<1> QED
  BY <1>2, <1>3, <1>4 DEF Right

(***************************************************************************)
(* Actors come, go and change.                                             *)
(***************************************************************************)

\* What no coming, going or change of an actor's looks touches.
Kept(v, w) ==
    /\ v.record = w.record /\ v.at = w.at
    /\ v.views = w.views /\ v.left = w.left /\ v.width = w.width

(* Flags are those of a column or of a pawn.                               *)
LEMMA FlagsOf ==
  ASSUME NEW a \in Actor
  PROVE  Flags(a) \in SUBSET {1, 2} /\ Flags(a) # {}
  BY DEF Flags

(* The flags of some actors are those of each, taken together.             *)
LEMMA FlagsAll ==
  /\ \A A, y : y \in FlagsOfAll(A) <=> \E x \in A : y \in Flags(x)
  /\ \A A, a : FlagsOfAll({a} \cup A) = FlagsOfAll(A) \cup Flags(a)
  /\ \A A \in SUBSET Actor : FlagsOfAll(A) \in SUBSET {1, 2}
<1>1. \A A, y : y \in FlagsOfAll(A) <=> \E x \in A : y \in Flags(x)
  BY DEF FlagsOfAll
<1>2. ASSUME NEW A, NEW a  PROVE FlagsOfAll({a} \cup A) = FlagsOfAll(A) \cup Flags(a)
  BY <1>1
<1>3. ASSUME NEW A \in SUBSET Actor  PROVE FlagsOfAll(A) \in SUBSET {1, 2}
  BY <1>1, FlagsOf
<1> QED
  BY <1>1, <1>2, <1>3

(* Who is there is listed at a place.                                      *)
LEMMA ThereAt ==
  ASSUME NEW w \in World, Stacked(w), NEW a \in Actor
  PROVE  /\ a \in There(w) <=> a \in ToSet(w.list[w.at[a]])
         /\ \A p \in Place : a \in ToSet(w.list[p]) => p = w.at[a]
<1>1. w.at[a] \in Place
  BY Fields
<1> QED
  BY <1>1 DEF There, Stacked

(* Whatever is on a list of the scene is an actor.                         *)
LEMMA ThereActor ==
  ASSUME NEW w \in World
  PROVE  There(w) \subseteq Actor
<1>1. ASSUME NEW p \in Place  PROVE ToSet(w.list[p]) \subseteq Actor
  <2>1. w.list[p] \in Seq(Actor)
    BY Fields
  <2> QED
    BY <2>1, LenProperties, ElementOfSeq DEF ToSet
<1> QED
  BY <1>1 DEF There

\* A world with other lists and flags.
Reflagged(w, f, l) == [w EXCEPT !.flags = f, !.list = l]

(* The world in which a list has been changed, with the flags of its       *)
(* place.                                                                  *)
LEMMA Relisted ==
  ASSUME NEW w \in World, NEW p \in Place, NEW m \in Seq(Actor),
         NEW f \in Grids(SUBSET {1, 2}, {}),
         NEW l, l = [w.list EXCEPT ![p] = m],
         NEW u, u = Reflagged(w, f, l)
  PROVE  /\ u \in World /\ Kept(u, w) /\ u.face = w.face
         /\ u.drawn = w.drawn /\ u.labels = w.labels /\ u.legend = w.legend
         /\ u.flags = f /\ Changed(u.list, w.list, p, m)
<1>2. l \in [Place -> Seq(Actor)] /\ Changed(l, w.list, p, m)
  BY Fields DEF Changed
<1> QED
  BY <1>2 DEF World, Kept, Reflagged

(* Scene::addSpatial puts an actor on top of its place: the list, the      *)
(* flags, what is drawn and the label agree.                               *)
LEMMA AddedMakes ==
  ASSUME NEW w \in World, Stacked(w), Shown(w), NEW a \in Actor, a \notin There(w),
         NEW v, v = Added(w, a)
  PROVE  /\ v \in World /\ Stacked(v) /\ Shown(v)
         /\ There(v) = There(w) \cup {a}
         /\ Kept(v, w) /\ v.face = w.face
         /\ \A s \in Session : \A at \in {"out", "in", "gone"} :
              Right(w, s, at, again) => Right(v, s, at, again)
<1>1. PICK p \in Place : p = w.at[a]
  BY Fields
<1>2. PICK m : m = <<a>> \o w.list[p]
  OBVIOUS
<1>3. w.list[p] \in Seq(Actor)
  BY Fields
<1>4. /\ m \in Seq(Actor) /\ m # <<>> /\ Head(m) = a
      /\ ToSet(m) = {a} \cup ToSet(w.list[p])
  BY <1>2, <1>3, Pushed
<1>5. IsInjective(m)
  <2>1. Fresh(w.list[p], a)
    BY DEF There, Stacked, Fresh
  <2> QED
    BY <1>2, <1>3, <2>1, Pushed
<1>6. PICK f : f = PutFlags(w.flags, p, Flags(a))
  OBVIOUS
<1>7. /\ f \in Grids(SUBSET {1, 2}, {})
      /\ Changed(f.value, w.flags.value, p, w.flags.value[p] \cup Flags(a))
  <2>1. PICK g : g = w.flags
    OBVIOUS
  <2>2. PICK x : x = Flags(a)
    OBVIOUS
  <2>3. PICK S : S = {1, 2}
    OBVIOUS
  <2>4. g \in Grids(SUBSET S, {}) /\ x \in SUBSET S /\ x # {} /\ f = PutFlags(g, p, x)
    BY <1>6, <2>1, <2>2, <2>3, FlagsOf, Fields
  <2>5. f \in Grids(SUBSET S, {})
    BY <2>4, PutFlagsMakes
  <2>6. Changed(f.value, g.value, p, g.value[p] \cup x)
    BY <2>4, PutFlagsMakes
  <2> QED
    BY <2>1, <2>2, <2>3, <2>5, <2>6
<1>a. PICK l : l = [w.list EXCEPT ![p] = m]
  OBVIOUS
<1>8. PICK u : u = Reflagged(w, f, l)
  OBVIOUS
<1>9. /\ u \in World /\ Kept(u, w) /\ u.face = w.face
      /\ u.drawn = w.drawn /\ u.labels = w.labels /\ u.legend = w.legend
      /\ u.flags = f /\ Changed(u.list, w.list, p, m)
  BY <1>4, <1>7, <1>8, <1>a, Relisted
<1>10. PICK glyph \in Glyph : glyph = w.face[a]
  BY Fields
<1>11. v = SetInBlocks(u, p, glyph, a)
  <2>1. [w EXCEPT !.flags = PutFlags(@, p, Flags(a)), !.list[p] = <<a>> \o @] = u
    BY <1>2, <1>6, <1>8, <1>a DEF Reflagged
  <2> QED
    BY <1>1, <1>10, <2>1 DEF Added
<1>12. /\ v \in World /\ Alike(v, u)
       /\ Changed(v.drawn.value, u.drawn.value, p, glyph)
       /\ Changed(v.labels.value, u.labels.value, p, a)
  BY <1>9, <1>11, SetMakes
<1>13. /\ v.record = w.record /\ v.at = w.at /\ v.face = w.face /\ v.flags = f
       /\ v.list[p] = m /\ \A q \in Place : q # p => v.list[q] = w.list[q]
  BY <1>9, <1>12 DEF Kept, Alike, Changed
<1>14. Stacked(v)
  <2>1. ASSUME NEW q \in Place
        PROVE  IsInjective(v.list[q]) /\ \A x \in ToSet(v.list[q]) : v.at[x] = q
    <3>1. CASE q = p
      BY <3>1, <1>1, <1>4, <1>5, <1>13 DEF Stacked
    <3>2. CASE q # p
      BY <3>2, <1>13 DEF Stacked
    <3> QED
      BY <3>1, <3>2
  <2> QED
    BY <2>1 DEF Stacked
<1>15. Shown(v)
  <2>1. ASSUME NEW q \in Place
        PROVE  Topped(v, q) /\ Barred(v, q)
    <3>1. CASE q = p
      <4>1. v.drawn.value[p] = v.face[a] /\ v.labels.value[p] = a
        BY <1>10, <1>12, <1>13 DEF Changed
      <4>2. Topped(v, p)
        BY <4>1, <1>4, <1>13 DEF Topped
      <4>3. v.flags.value[p] = FlagsOfAll(ToSet(w.list[p])) \cup Flags(a)
        BY <1>7, <1>13 DEF Changed, Shown, Barred
      <4>4. v.flags.value[p] = FlagsOfAll(ToSet(v.list[p]))
        BY <4>3, <1>4, <1>13, FlagsAll
      <4>5. Barred(v, p)
        BY <4>4 DEF Barred
      <4> QED
        BY <3>1, <4>2, <4>5
    <3>2. CASE q # p
      <4>1. Topped(w, q) /\ Barred(w, q)
        BY DEF Shown
      <4>2. /\ v.drawn.value[q] = w.drawn.value[q] /\ v.labels.value[q] = w.labels.value[q]
            /\ v.flags.value[q] = w.flags.value[q]
        BY <3>2, <1>7, <1>9, <1>12, <1>13 DEF Changed
      <4> QED
        BY <3>2, <4>1, <4>2, <1>13 DEF Topped, Barred
    <3> QED
      BY <3>1, <3>2
  <2> QED
    BY <2>1 DEF Shown
<1>16. There(v) = There(w) \cup {a}
  BY <1>4, <1>13 DEF There
<1>17. Kept(v, w)
  BY <1>9, <1>12 DEF Kept, Alike
<1>18. ASSUME NEW s \in Session, NEW at \in {"out", "in", "gone"}, Right(w, s, at, again)
       PROVE  Right(v, s, at, again)
  <2>1. PICK twice : twice = again
    OBVIOUS
  <2>2. Right(w, s, at, twice)
    BY <1>18, <2>1
  <2>3. u.views[s] = w.views[s] /\ u.left[s] = w.left[s] /\ u.width[s] = w.width[s]
        /\ u.legend[s] = w.legend[s] /\ u.labels = w.labels
    BY <1>9 DEF Kept
  <2>4. Right(u, s, at, twice)
    BY <2>2, <2>3, RightSame
  <2>5. Right(u, s, at, again)
    BY <2>1, <2>4
  <2> QED
    BY <2>5, <1>9, <1>11, SetRight
<1> QED
  BY <1>12, <1>13, <1>14, <1>15, <1>16, <1>17, <1>18

(* What is right of every session stays so when only lists and flags       *)
(* change.                                                                 *)
LEMMA ReflaggedRight ==
  ASSUME NEW w, NEW u, Kept(u, w), u.labels = w.labels, u.legend = w.legend,
         NEW s \in Session, NEW at, Right(w, s, at, again)
  PROVE  Right(u, s, at, again)
<1>1. PICK twice : twice = again
  OBVIOUS
<1>2. Right(w, s, at, twice)
  BY <1>1
<1>3. u.views[s] = w.views[s] /\ u.left[s] = w.left[s] /\ u.width[s] = w.width[s]
      /\ u.legend[s] = w.legend[s] /\ u.labels = w.labels
  BY DEF Kept
<1>4. Right(u, s, at, twice)
  BY <1>2, <1>3, RightSame
<1> QED
  BY <1>1, <1>4

(* The branches of Scene::removeSpatial.                                   *)
LEMMA TakenCases ==
  ASSUME NEW w \in World, NEW a, NEW p, p = w.at[a],
         NEW rest, rest = RemoveFirst(w.list[p], a),
         NEW f, f = Put(w.flags, p, FlagsOfAll(ToSet(rest)), {}),
         NEW l, l = [w.list EXCEPT ![p] = rest],
         NEW u, u = Reflagged(w, f, l)
  PROVE  Taken(w, a) = IF Head(w.list[p]) # a THEN u
                       ELSE IF rest = <<>> THEN SetInBlocks(u, p, w.record[p], None)
                       ELSE SetInBlocks(u, p, w.face[Head(rest)], Head(rest))
<1>1. u = [w EXCEPT !.list[p] = rest,
                    !.flags = Put(@, p, UNION {Flags(x) : x \in ToSet(rest)}, {})]
  BY DEF Reflagged, FlagsOfAll
<1> QED
  BY <1>1 DEF Taken

(* Scene::removeSpatial takes an actor out of its place: the list, the     *)
(* flags, what is drawn and the label agree.                               *)
LEMMA TakenMakes ==
  ASSUME NEW w \in World, Stacked(w), Shown(w), NEW a \in There(w),
         NEW v, v = Taken(w, a)
  PROVE  /\ v \in World /\ Stacked(v) /\ Shown(v)
         /\ There(v) = There(w) \ {a}
         /\ Kept(v, w) /\ v.face = w.face
         /\ \A s \in Session : \A at \in {"out", "in", "gone"} :
              Right(w, s, at, again) => Right(v, s, at, again)
<1>0. a \in Actor
  BY ThereActor
<1>1. PICK p \in Place : p = w.at[a]
  BY <1>0, Fields
<1>2. a \in ToSet(w.list[p]) /\ \A q \in Place : a \in ToSet(w.list[q]) => q = p
  BY <1>0, <1>1, ThereAt
<1>3. w.list[p] \in Seq(Actor) /\ IsInjective(w.list[p])
  BY Fields DEF Stacked
<1>4. PICK rest : rest = RemoveFirst(w.list[p], a)
  OBVIOUS
<1>a. PICK o : o = w.list[p]
  OBVIOUS
<1>5. /\ rest \in Seq(Actor) /\ IsInjective(rest)
      /\ ToSet(rest) = ToSet(o) \ {a} /\ o # <<>>
  <2>1. o \in Seq(Actor) /\ IsInjective(o) /\ a \in ToSet(o) /\ rest = RemoveFirst(o, a)
    BY <1>2, <1>3, <1>4, <1>a
  <2> QED
    BY <2>1, Pulled
<1>6. ASSUME Head(o) # a  PROVE rest # <<>> /\ Head(rest) = Head(o)
  <2>1. o \in Seq(Actor) /\ IsInjective(o) /\ a \in ToSet(o) /\ rest = RemoveFirst(o, a)
    BY <1>2, <1>3, <1>4, <1>a
  <2> QED
    BY <1>6, <2>1, Pulled
<1>7. PICK x : x = FlagsOfAll(ToSet(rest))
  OBVIOUS
<1>8. x \in SUBSET {1, 2}
  <2>1. ToSet(rest) \in SUBSET Actor
    BY <1>5, LenProperties, ElementOfSeq DEF ToSet
  <2> QED
    BY <1>7, <2>1, FlagsAll
<1>9. PICK f : f = Put(w.flags, p, x, {})
  OBVIOUS
<1>10. f \in Grids(SUBSET {1, 2}, {}) /\ Changed(f.value, w.flags.value, p, x)
  <2>1. PICK g : g = w.flags
    OBVIOUS
  <2>2. PICK S : S = SUBSET {1, 2}
    OBVIOUS
  <2>3. PICK e : e = {}
    OBVIOUS
  <2>4. g \in Grids(S, e) /\ x \in S /\ e \in S /\ f = Put(g, p, x, e)
    BY <1>8, <1>9, <2>1, <2>2, <2>3, Fields
  <2>5. f \in Grids(S, e)
    BY <2>4, PutMakes
  <2>6. f.value = [g.value EXCEPT ![p] = x]
    BY <2>4, PutMakes
  <2>7. g.value \in [Place -> S]
    BY <2>1, <2>2, Values
  <2> QED
    BY <2>1, <2>2, <2>3, <2>5, <2>6, <2>7 DEF Changed
<1>11. PICK l : l = [w.list EXCEPT ![p] = rest]
  OBVIOUS
<1>12. PICK u : u = Reflagged(w, f, l)
  OBVIOUS
<1>13. /\ u \in World /\ Kept(u, w) /\ u.face = w.face
       /\ u.drawn = w.drawn /\ u.labels = w.labels /\ u.legend = w.legend
       /\ u.flags = f /\ Changed(u.list, w.list, p, rest)
  BY <1>5, <1>10, <1>11, <1>12, Relisted
<1>14. v = IF Head(o) # a THEN u
           ELSE IF rest = <<>> THEN SetInBlocks(u, p, w.record[p], None)
           ELSE SetInBlocks(u, p, w.face[Head(rest)], Head(rest))
  BY <1>1, <1>4, <1>7, <1>9, <1>11, <1>12, <1>a, TakenCases
<1>15. \A q \in Place : q # p => Topped(w, q) /\ Barred(w, q)
  BY DEF Shown
<1>16. ASSUME NEW z \in World, z.record = w.record, z.face = w.face, z.flags = f,
              z.at = w.at, z.list = u.list,
              \A q \in Place \ {p} : z.drawn.value[q] = w.drawn.value[q]
                                     /\ z.labels.value[q] = w.labels.value[q],
              Topped(z, p)
       PROVE  Stacked(z) /\ Shown(z) /\ There(z) = There(w) \ {a}
  <2>1. z.list[p] = rest /\ \A q \in Place : q # p => z.list[q] = w.list[q]
    BY <1>13, <1>16 DEF Changed
  <2>2. Stacked(z)
    <3>1. ASSUME NEW q \in Place
          PROVE  IsInjective(z.list[q]) /\ \A y \in ToSet(z.list[q]) : z.at[y] = q
      <4>1. CASE q = p
        BY <4>1, <1>5, <1>16, <1>a, <2>1 DEF Stacked
      <4>2. CASE q # p
        BY <4>2, <1>16, <2>1 DEF Stacked
      <4> QED
        BY <4>1, <4>2
    <3> QED
      BY <3>1 DEF Stacked
  <2>3. Shown(z)
    <3>1. ASSUME NEW q \in Place  PROVE Topped(z, q) /\ Barred(z, q)
      <4>1. CASE q = p
        <5>1. z.flags.value[p] = x
          BY <1>10, <1>16 DEF Changed
        <5>2. Barred(z, p)
          BY <5>1, <1>7, <2>1 DEF Barred
        <5> QED
          BY <4>1, <5>2, <1>16
      <4>2. CASE q # p
        <5>1. z.flags.value[q] = w.flags.value[q]
          BY <4>2, <1>10, <1>16 DEF Changed
        <5>2. Topped(w, q) /\ Barred(w, q)
          BY <4>2, <1>15
        <5>3. z.drawn.value[q] = w.drawn.value[q] /\ z.labels.value[q] = w.labels.value[q]
          BY <4>2, <1>16
        <5> QED
          BY <4>2, <5>1, <5>2, <5>3, <1>16, <2>1 DEF Topped, Barred
      <4> QED
        BY <4>1, <4>2
    <3> QED
      BY <3>1 DEF Shown
  <2>4. There(z) = There(w) \ {a}
    <3>1. \A y : y \in There(z) <=> \E q \in Place : y \in ToSet(z.list[q])
      BY DEF There
    <3>2. \A y : y \in There(w) <=> \E q \in Place : y \in ToSet(w.list[q])
      BY DEF There
    <3>3. \A q \in Place : ToSet(z.list[q]) = ToSet(w.list[q]) \ {a}
      BY <1>2, <1>5, <1>a, <2>1
    <3> QED
      BY <3>1, <3>2, <3>3
  <2> QED
    BY <2>2, <2>3, <2>4
<1>17. ASSUME NEW s \in Session, NEW at \in {"out", "in", "gone"}, Right(w, s, at, again)
       PROVE  Right(u, s, at, again)
  BY <1>13, <1>17, ReflaggedRight
<1>18. ASSUME NEW glyph \in Glyph, NEW label \in Actor \cup {None},
              v = SetInBlocks(u, p, glyph, label),
              IF rest = <<>> THEN glyph = w.record[p] /\ label = None
              ELSE glyph = w.face[Head(rest)] /\ label = Head(rest)
       PROVE  /\ v \in World /\ Stacked(v) /\ Shown(v)
              /\ There(v) = There(w) \ {a}
              /\ Kept(v, w) /\ v.face = w.face
              /\ \A s \in Session : \A at \in {"out", "in", "gone"} :
                   Right(w, s, at, again) => Right(v, s, at, again)
  <2>1. /\ v \in World /\ Alike(v, u)
        /\ Changed(v.drawn.value, u.drawn.value, p, glyph)
        /\ Changed(v.labels.value, u.labels.value, p, label)
    BY <1>13, <1>18, SetMakes
  <2>2. /\ v.record = w.record /\ v.face = w.face /\ v.flags = f /\ v.at = w.at
        /\ v.list = u.list /\ Kept(v, w)
    BY <1>13, <2>1 DEF Kept, Alike
  <2>3. Topped(v, p)
    <3>1. v.list[p] = rest /\ v.drawn.value[p] = glyph /\ v.labels.value[p] = label
      BY <1>13, <2>1, <2>2 DEF Changed
    <3> QED
      BY <3>1, <2>2, <1>18 DEF Topped
  <2>4. \A q \in Place \ {p} : v.drawn.value[q] = w.drawn.value[q]
                               /\ v.labels.value[q] = w.labels.value[q]
    BY <1>13, <2>1 DEF Changed
  <2>5. Stacked(v) /\ Shown(v) /\ There(v) = There(w) \ {a}
    BY <1>16, <2>1, <2>2, <2>3, <2>4
  <2>6. ASSUME NEW s \in Session, NEW at \in {"out", "in", "gone"}, Right(w, s, at, again)
        PROVE  Right(v, s, at, again)
    <3>1. Right(u, s, at, again)
      BY <1>17, <2>6
    <3> QED
      BY <3>1, <1>13, <1>18, SetRight
  <2> QED
    BY <2>1, <2>2, <2>5, <2>6
<1>19. CASE Head(o) # a
  <2>1. v = u
    BY <1>14, <1>19
  <2>2. Topped(u, p)
    <3>1. Topped(w, p) /\ w.list[p] = o
      BY <1>a DEF Shown
    <3>2. u.list[p] = rest
      BY <1>13 DEF Changed
    <3> QED
      BY <3>1, <3>2, <1>5, <1>6, <1>13, <1>19 DEF Topped
  <2>3. /\ u.record = w.record /\ u.at = w.at
        /\ \A q \in Place \ {p} : u.drawn.value[q] = w.drawn.value[q]
                                  /\ u.labels.value[q] = w.labels.value[q]
    BY <1>13 DEF Kept
  <2>4. Stacked(u) /\ Shown(u) /\ There(u) = There(w) \ {a}
    BY <1>13, <1>16, <2>2, <2>3
  <2> QED
    BY <1>13, <1>17, <2>1, <2>4
<1>20. CASE Head(o) = a /\ rest = <<>>
  <2>1. PICK glyph \in Glyph : glyph = w.record[p]
    BY Fields DEF Glyph
  <2>2. PICK label \in Actor \cup {None} : label = None
    OBVIOUS
  <2> QED
    BY <1>14, <1>18, <1>20, <2>1, <2>2
<1>21. CASE Head(o) = a /\ rest # <<>>
  <2>1. Head(rest) \in Actor
    BY <1>5, <1>21, HeadTailProperties
  <2>2. PICK glyph \in Glyph : glyph = w.face[Head(rest)]
    BY <2>1, Fields
  <2>3. PICK label \in Actor \cup {None} : label = Head(rest)
    BY <2>1
  <2> QED
    BY <1>14, <1>18, <1>21, <2>2, <2>3
<1> QED
  BY <1>19, <1>20, <1>21

\* A world with other looks of the actors.
Refaced(w, face) == [w EXCEPT !.face = face]

(* Actor::setCharacter draws an actor that is on top as it now is, and     *)
(* nobody else.                                                            *)
LEMMA FacedMakes ==
  ASSUME NEW w \in World, Stacked(w), Shown(w), NEW a \in There(w), NEW glyph \in Glyph,
         NEW v, v = Faced(w, a, glyph)
  PROVE  /\ v \in World /\ Stacked(v) /\ Shown(v)
         /\ There(v) = There(w)
         /\ Kept(v, w) /\ v.list = w.list
         /\ v.face[a] = glyph /\ \A b \in Actor : b # a => v.face[b] = w.face[b]
         /\ \A s \in Session : \A at \in {"out", "in", "gone"} :
              Right(w, s, at, again) => Right(v, s, at, again)
<1>0. a \in Actor
  BY ThereActor
<1>1. PICK p \in Place : p = w.at[a]
  BY <1>0, Fields
<1>2. a \in ToSet(w.list[p]) /\ \A q \in Place : a \in ToSet(w.list[q]) => q = p
  BY <1>0, <1>1, ThereAt
<1>3. \A q \in Place : w.list[q] # <<>> => Head(w.list[q]) \in ToSet(w.list[q])
                                           /\ Head(w.list[q]) \in Actor
  <2>1. ASSUME NEW q \in Place, w.list[q] # <<>>
        PROVE  Head(w.list[q]) \in ToSet(w.list[q]) /\ Head(w.list[q]) \in Actor
    <3>1. PICK l \in Seq(Actor) : l = w.list[q]
      BY Fields
    <3>2. Len(l) > 0 /\ DOMAIN l = 1 .. Len(l) /\ Len(l) \in Nat /\ Head(l) = l[1]
      BY <2>1, <3>1, EmptySeq, LenProperties
    <3>3. 1 \in DOMAIN l
      BY <3>2
    <3>4. Head(l) \in ToSet(l)
      BY <3>2, <3>3 DEF ToSet
    <3> QED
      BY <2>1, <3>1, <3>4, HeadTailProperties
  <2> QED
    BY <2>1
<1>4. PICK face : face = [w.face EXCEPT ![a] = glyph]
  OBVIOUS
<1>5. face \in [Actor -> Glyph] /\ face[a] = glyph /\ \A b \in Actor : b # a => face[b] = w.face[b]
  BY <1>0, <1>4, Fields
<1>6. PICK u : u = Refaced(w, face)
  OBVIOUS
<1>7. /\ u \in World /\ Kept(u, w) /\ u.list = w.list /\ u.face = face
      /\ u.drawn = w.drawn /\ u.labels = w.labels /\ u.legend = w.legend /\ u.flags = w.flags
  BY <1>5, <1>6 DEF World, Kept, Refaced
<1>8. v = IF Head(w.list[p]) = a THEN SetInBlocks(u, p, glyph, a) ELSE u
  BY <1>1, <1>4, <1>6 DEF Faced, Refaced
<1>9. \A q \in Place : Topped(w, q) /\ Barred(w, q)
  BY DEF Shown
<1>10. ASSUME NEW z \in World, z.record = w.record, z.face = face, z.flags = w.flags,
              z.at = w.at, z.list = w.list,
              \A q \in Place \ {p} : z.drawn.value[q] = w.drawn.value[q]
                                     /\ z.labels.value[q] = w.labels.value[q],
              Topped(z, p)
       PROVE  Stacked(z) /\ Shown(z) /\ There(z) = There(w)
  <2>1. Stacked(z)
    BY <1>10 DEF Stacked
  <2>2. Shown(z)
    <3>1. ASSUME NEW q \in Place  PROVE Topped(z, q) /\ Barred(z, q)
      <4>1. Barred(z, q)
        BY <1>9, <1>10 DEF Barred
      <4>2. CASE q = p
        BY <4>1, <4>2, <1>10
      <4>3. CASE q # p
        <5>1. z.drawn.value[q] = w.drawn.value[q] /\ z.labels.value[q] = w.labels.value[q]
          BY <4>3, <1>10
        <5>2. w.list[q] # <<>> => face[Head(w.list[q])] = w.face[Head(w.list[q])]
          BY <4>3, <1>2, <1>3, <1>5
        <5>3. Topped(w, q)
          BY <1>9
        <5> QED
          BY <4>1, <5>1, <5>2, <5>3, <1>10 DEF Topped
      <4> QED
        BY <4>2, <4>3
    <3> QED
      BY <3>1 DEF Shown
  <2> QED
    BY <1>10, <2>1, <2>2 DEF There
<1>11. ASSUME NEW s \in Session, NEW at \in {"out", "in", "gone"}, Right(w, s, at, again)
       PROVE  Right(u, s, at, again)
  BY <1>7, <1>11, ReflaggedRight
<1>12. w.list[p] # <<>>
  <2>1. PICK l \in Seq(Actor) : l = w.list[p]
    BY Fields
  <2>2. l # <<>>
    BY <1>2, <2>1, EmptySeq, LenProperties DEF ToSet
  <2> QED
    BY <2>1, <2>2
<1>13. CASE Head(w.list[p]) = a
  <2>1. v = SetInBlocks(u, p, glyph, a)
    BY <1>8, <1>13
  <2>2. /\ v \in World /\ Alike(v, u)
        /\ Changed(v.drawn.value, u.drawn.value, p, glyph)
        /\ Changed(v.labels.value, u.labels.value, p, a)
    BY <1>0, <1>7, <2>1, SetMakes
  <2>3. /\ v.record = w.record /\ v.face = face /\ v.flags = w.flags /\ v.at = w.at
        /\ v.list = w.list /\ Kept(v, w)
    BY <1>7, <2>2 DEF Kept, Alike
  <2>4. Topped(v, p)
    <3>1. v.drawn.value[p] = glyph /\ v.labels.value[p] = a
      BY <2>2 DEF Changed
    <3> QED
      BY <3>1, <2>3, <1>5, <1>12, <1>13 DEF Topped
  <2>5. \A q \in Place \ {p} : v.drawn.value[q] = w.drawn.value[q]
                               /\ v.labels.value[q] = w.labels.value[q]
    BY <1>7, <2>2 DEF Changed
  <2>6. Stacked(v) /\ Shown(v) /\ There(v) = There(w)
    BY <1>10, <2>2, <2>3, <2>4, <2>5
  <2>7. ASSUME NEW s \in Session, NEW at \in {"out", "in", "gone"}, Right(w, s, at, again)
        PROVE  Right(v, s, at, again)
    <3>1. Right(u, s, at, again)
      BY <1>11, <2>7
    <3> QED
      BY <3>1, <1>0, <1>7, <2>1, SetRight
  <2> QED
    BY <1>5, <2>2, <2>3, <2>6, <2>7
<1>14. CASE Head(w.list[p]) # a
  <2>1. v = u
    BY <1>8, <1>14
  <2>2. face[Head(w.list[p])] = w.face[Head(w.list[p])]
    BY <1>3, <1>5, <1>12, <1>14
  <2>3. Topped(u, p)
    BY <1>7, <1>9, <1>12, <2>2 DEF Topped, Kept
  <2>4. u.record = w.record /\ u.at = w.at
    BY <1>7 DEF Kept
  <2>5. Stacked(u) /\ Shown(u) /\ There(u) = There(w)
    BY <1>7, <1>10, <2>3, <2>4
  <2> QED
    BY <1>5, <1>7, <1>11, <2>1, <2>5
<1> QED
  BY <1>13, <1>14

(***************************************************************************)
(* Views.                                                                  *)
(***************************************************************************)

\* Two worlds that differ in the view and legend of s at most.
Seen(v, w, s) ==
    /\ v.record = w.record /\ v.list = w.list /\ v.at = w.at /\ v.face = w.face
    /\ v.drawn = w.drawn /\ v.labels = w.labels /\ v.flags = w.flags
    /\ \A t \in Session : t # s => /\ v.views[t] = w.views[t]
                                   /\ v.left[t] = w.left[t] /\ v.width[t] = w.width[t]
                                   /\ v.legend[t] = w.legend[t]

(* Scene::addSpatial and removeSpatial, of a view.                         *)
LEMMA ListedMakes ==
  ASSUME NEW w \in World, NEW s \in Session, NEW n \in Int, NEW v, v = Listed(w, s, n)
  PROVE  /\ v \in World /\ Seen(v, w, s)
         /\ v.left = w.left /\ v.width = w.width /\ v.legend = w.legend
         /\ \A b \in ViewBlock :
              v.views[s][b] = w.views[s][b] + (IF b \in Met(w, s) THEN n ELSE 0)
<1>1. PICK row : row = [b \in ViewBlock |->
                          w.views[s][b] + (IF b \in Met(w, s) THEN n ELSE 0)]
  OBVIOUS
<1>2. w.views \in [Session -> [ViewBlock -> Int]]
  BY Fields
<1>3. row \in [ViewBlock -> Int]
  BY <1>1, <1>2
<1>4. PICK views : views = [w.views EXCEPT ![s] = row]
  OBVIOUS
<1>5. /\ views \in [Session -> [ViewBlock -> Int]] /\ views[s] = row
      /\ \A t \in Session : t # s => views[t] = w.views[t]
  BY <1>2, <1>3, <1>4
<1>6. v = [w EXCEPT !.views = views]
  BY <1>1, <1>2, <1>4 DEF Listed, Met
<1>7. /\ v \in World /\ v.views = views
      /\ v.record = w.record /\ v.list = w.list /\ v.at = w.at /\ v.face = w.face
      /\ v.drawn = w.drawn /\ v.labels = w.labels /\ v.flags = w.flags
      /\ v.left = w.left /\ v.width = w.width /\ v.legend = w.legend
  BY <1>5, <1>6 DEF World
<1> QED
  BY <1>1, <1>5, <1>7 DEF Seen

\* A world with another view for s.
Reviewed(w, left, width) == [w EXCEPT !.left = left, !.width = width]

(* SceneView::setWorldBounds takes a view out of the lists of its old      *)
(* bounds and puts it into those of its new ones.                          *)
LEMMA ReboundMakes ==
  ASSUME NEW w \in World, NEW s \in Session, NEW left \in Int, NEW width \in Widths,
         NEW v, v = Rebound(w, s, left, width)
  PROVE  /\ v \in World /\ Seen(v, w, s)
         /\ v.left[s] = left /\ v.width[s] = width /\ v.legend = w.legend
         /\ Looks(w, s) => Looks(v, s)
         /\ Lingers(w, s) => Lingers(v, s)
<1>1. PICK d : d = Delisted(w, s)
  OBVIOUS
<1>2. /\ d \in World /\ Seen(d, w, s)
      /\ d.left = w.left /\ d.width = w.width /\ d.legend = w.legend
      /\ \A b \in ViewBlock :
           d.views[s][b] = w.views[s][b] + (IF b \in Met(w, s) THEN -1 ELSE 0)
  <2>1. PICK n \in Int : n = -1
    OBVIOUS
  <2>2. d = Listed(w, s, n)
    BY <1>1, <2>1 DEF Delisted
  <2>3. d \in World /\ Seen(d, w, s) /\ d.left = w.left /\ d.width = w.width /\ d.legend = w.legend
    BY <2>2, ListedMakes
  <2>4. \A b \in ViewBlock :
           d.views[s][b] = w.views[s][b] + (IF b \in Met(w, s) THEN n ELSE 0)
    BY <2>2, ListedMakes
  <2> QED
    BY <2>1, <2>3, <2>4
<1>3. PICK L : L = [d.left EXCEPT ![s] = left]
  OBVIOUS
<1>4. PICK W : W = [d.width EXCEPT ![s] = width]
  OBVIOUS
<1>5. /\ L \in [Session -> Int] /\ L[s] = left /\ \A t \in Session : t # s => L[t] = w.left[t]
      /\ W \in [Session -> Widths] /\ W[s] = width /\ \A t \in Session : t # s => W[t] = w.width[t]
  BY <1>2, <1>3, <1>4, Fields
<1>6. PICK e : e = Reviewed(d, L, W)
  OBVIOUS
<1>7. /\ e \in World /\ e.left = L /\ e.width = W /\ e.legend = w.legend /\ e.views = d.views
      /\ e.record = d.record /\ e.list = d.list /\ e.at = d.at /\ e.face = d.face
      /\ e.drawn = d.drawn /\ e.labels = d.labels /\ e.flags = d.flags
  BY <1>2, <1>5, <1>6 DEF World, Reviewed
<1>8. v = Enlisted(e, s)
  BY <1>1, <1>3, <1>4, <1>6 DEF Rebound, Reviewed
<1>9. /\ v \in World /\ Seen(v, e, s)
      /\ v.left = e.left /\ v.width = e.width /\ v.legend = e.legend
      /\ \A b \in ViewBlock :
           v.views[s][b] = e.views[s][b] + (IF b \in Met(e, s) THEN 1 ELSE 0)
  <2>1. PICK n \in Int : n = 1
    OBVIOUS
  <2>2. v = Listed(e, s, n)
    BY <1>8, <2>1 DEF Enlisted
  <2>3. v \in World /\ Seen(v, e, s) /\ v.left = e.left /\ v.width = e.width /\ v.legend = e.legend
    BY <1>7, <2>2, ListedMakes
  <2>4. \A b \in ViewBlock :
           v.views[s][b] = e.views[s][b] + (IF b \in Met(e, s) THEN n ELSE 0)
    BY <1>7, <2>2, ListedMakes
  <2> QED
    BY <2>1, <2>3, <2>4
<1>10. Seen(v, w, s)
  BY <1>2, <1>5, <1>7, <1>9 DEF Seen
<1>11. Met(v, s) = Met(e, s)
  BY <1>9 DEF Met
<1>12. w.views[s] \in [ViewBlock -> Int]
  BY Fields
<1>13. \A b \in ViewBlock :
         v.views[s][b] = w.views[s][b] + (IF b \in Met(w, s) THEN -1 ELSE 0)
                                       + (IF b \in Met(v, s) THEN 1 ELSE 0)
  BY <1>2, <1>7, <1>9, <1>11
<1>14. Looks(w, s) => Looks(v, s)
  BY <1>12, <1>13 DEF Looks
<1>15. Lingers(w, s) => Lingers(v, s)
  BY <1>12, <1>13 DEF Lingers
<1> QED
  BY <1>5, <1>7, <1>9, <1>10, <1>14, <1>15

(* Places that come into sight are counted, those that go out of it no     *)
(* longer.                                                                 *)
LEMMA WhereMoves ==
  ASSUME NEW f, NEW O, NEW N, NEW a
  PROVE  /\ Cardinality(Where(f, N, a)) = Cardinality(Where(f, O, a))
              - Cardinality(Where(f, O \ N, a)) + Cardinality(Where(f, N \ O, a))
         /\ Cardinality(Where(f, O \ N, a)) \in Int
         /\ Cardinality(Where(f, N \ O, a)) \in Int
<1> DEFINE X == Where(f, O, a)
           Y == Where(f, N, a)
<1>1. /\ IsFiniteSet(X) /\ IsFiniteSet(Y)
      /\ Cardinality(X) \in Nat /\ Cardinality(Y) \in Nat
      /\ Cardinality(Where(f, O \ N, a)) \in Nat /\ Cardinality(Where(f, N \ O, a)) \in Nat
  BY WhereFinite
<1>2. Where(f, O \ N, a) = X \ Y /\ Where(f, N \ O, a) = Y \ X
  BY DEF Where
<1>3. X \cap Y = Y \cap X
  OBVIOUS
<1>4. Cardinality(X \ Y) = Cardinality(X) - Cardinality(X \cap Y)
  BY <1>1, FS_Difference
<1>5. Cardinality(Y \ X) = Cardinality(Y) - Cardinality(Y \cap X)
  BY <1>1, FS_Difference
<1>6. Cardinality(X \cap Y) \in Nat
  BY <1>1, FS_Intersection, FS_CardinalityType
<1>a. PICK x : x = Cardinality(X)
  OBVIOUS
<1>b. PICK y : y = Cardinality(Y)
  OBVIOUS
<1>c. PICK z : z = Cardinality(X \cap Y)
  OBVIOUS
<1>d. PICK i : i = Cardinality(X \ Y)
  OBVIOUS
<1>e. PICK j : j = Cardinality(Y \ X)
  OBVIOUS
<1>7. x \in Int /\ y \in Int /\ z \in Int
  BY <1>1, <1>6, <1>a, <1>b, <1>c
<1>8. i = x - z /\ j = y - z
  BY <1>3, <1>4, <1>5, <1>a, <1>b, <1>c, <1>d, <1>e
<1>9. y = x - i + j
  BY <1>7, <1>8
<1>10. Cardinality(Where(f, O \ N, a)) = i /\ Cardinality(Where(f, N \ O, a)) = j
  BY <1>2, <1>d, <1>e
<1>11. Cardinality(Where(f, N, a)) = y /\ Cardinality(Where(f, O, a)) = x
  BY <1>a, <1>b
<1> QED
  BY <1>1, <1>9, <1>10, <1>11

(* Legend::update.                                                         *)
LEMMA UpdatedIs ==
  ASSUME NEW v \in World, NEW s \in Session, NEW old, v.legend[s] = Counted(v, old)
  PROVE  Updated(v, s, old) = Counted(v, Bounds(v, s))
<1>1. PICK N : N = Bounds(v, s)
  OBVIOUS
<1>2. PICK f : f = v.labels.value
  OBVIOUS
<1>3. CASE old \cap N = {}
  BY <1>1, <1>3 DEF Updated
<1>4. CASE old \cap N # {}
  <2>1. ASSUME NEW B, NEW a \in Actor  PROVE Counted(v, B)[a] = Cardinality(Where(f, B, a))
    BY <1>2, CountedIs
  <2>2. Updated(v, s, old)
          = [a \in Actor |-> v.legend[s][a] - Counted(v, old \ N)[a] + Counted(v, N \ old)[a]]
    BY <1>1, <1>4 DEF Updated
  <2>3. ASSUME NEW a \in Actor
        PROVE  v.legend[s][a] - Counted(v, old \ N)[a] + Counted(v, N \ old)[a]
                 = Cardinality(Where(f, N, a))
    <3>1. v.legend[s][a] = Cardinality(Where(f, old, a))
      BY <2>1
    <3>2. /\ Counted(v, old \ N)[a] = Cardinality(Where(f, old \ N, a))
          /\ Counted(v, N \ old)[a] = Cardinality(Where(f, N \ old, a))
      BY <2>1
    <3> QED
      BY <3>1, <3>2, WhereMoves
  <2>4. Counted(v, N) = [a \in Actor |-> Cardinality(Where(f, N, a))]
    BY <1>2 DEF Counted, Where
  <2> QED
    BY <1>1, <2>2, <2>3, <2>4
<1> QED
  BY <1>3, <1>4

(* What is counted depends on the labels alone.                            *)
LEMMA CountedSame ==
  ASSUME NEW v, NEW w, v.labels = w.labels, NEW B
  PROVE  Counted(v, B) = Counted(w, B)
  BY DEF Counted

\* A world with another legend for s.
Relegend(w, s, counts) == [w EXCEPT !.legend[s] = counts]

(* A legend counted anew leaves the record, the lists and the views alone. *)
LEMMA RelegendMakes ==
  ASSUME NEW w \in World, NEW s \in Session, NEW counts \in [Actor -> Int],
         NEW v, v = Relegend(w, s, counts)
  PROVE  /\ v \in World /\ Seen(v, w, s)
         /\ v.views = w.views /\ v.left = w.left /\ v.width = w.width
         /\ v.legend[s] = counts
<1>1. PICK l : l = [w.legend EXCEPT ![s] = counts]
  OBVIOUS
<1>2. /\ l \in [Session -> [Actor -> Int]] /\ l[s] = counts
      /\ \A t \in Session : t # s => l[t] = w.legend[t]
  BY <1>1, Fields
<1>3. v = [w EXCEPT !.legend = l]
  BY <1>1 DEF Relegend
<1>4. /\ v \in World /\ v.legend = l
      /\ v.record = w.record /\ v.list = w.list /\ v.at = w.at /\ v.face = w.face
      /\ v.drawn = w.drawn /\ v.labels = w.labels /\ v.flags = w.flags
      /\ v.views = w.views /\ v.left = w.left /\ v.width = w.width
  BY <1>2, <1>3 DEF World
<1> QED
  BY <1>2, <1>4 DEF Seen

(* SceneView::setWorldBounds, in a scene: the view is in just the lists of *)
(* its new bounds, and its legend counts just what is within them.         *)
LEMMA ScrolledMakes ==
  ASSUME NEW w \in World, NEW s \in Session, NEW left \in Int, NEW width \in Widths,
         Right(w, s, "in", again),
         NEW v, v = Scrolled(w, s, left, width)
  PROVE  /\ v \in World /\ Seen(v, w, s) /\ Right(v, s, "in", again)
         /\ v.left[s] = left /\ v.width[s] = width
<1>1. PICK u : u = Rebound(w, s, left, width)
  OBVIOUS
<1>2. /\ u \in World /\ Seen(u, w, s)
      /\ u.left[s] = left /\ u.width[s] = width /\ u.legend = w.legend
      /\ Looks(w, s) => Looks(u, s)
      /\ Lingers(w, s) => Lingers(u, s)
  <2>1. /\ u \in World /\ Seen(u, w, s)
        /\ u.left[s] = left /\ u.width[s] = width /\ u.legend = w.legend
    BY <1>1, ReboundMakes
  <2>2. Looks(w, s) => Looks(u, s)
    BY <1>1, ReboundMakes
  <2>3. Lingers(w, s) => Lingers(u, s)
    BY <1>1, ReboundMakes
  <2> QED
    BY <2>1, <2>2, <2>3
<1>3. v = IF left = w.left[s] /\ width = w.width[s] THEN w
          ELSE IF s \in again THEN u
          ELSE Relegend(u, s, Updated(u, s, Bounds(w, s)))
  BY <1>1 DEF Scrolled, Relegend
<1>4. CASE left = w.left[s] /\ width = w.width[s]
  BY <1>3, <1>4 DEF Seen
<1>5. CASE ~(left = w.left[s] /\ width = w.width[s]) /\ s \in again
  <2>1. v = u
    BY <1>3, <1>5
  <2>2. Lingers(w, s) /\ Countless(w, s)
    BY <1>5 DEF Right
  <2>3. Right(u, s, "in", again)
    BY <1>2, <1>5, <2>2 DEF Right, Countless
  <2> QED
    BY <1>2, <2>1, <2>3
<1>6. CASE ~(left = w.left[s] /\ width = w.width[s]) /\ s \notin again
  <2>1. Looks(w, s) /\ Counts(w, s)
    BY <1>6 DEF Right
  <2>2. PICK old : old = Bounds(w, s)
    OBVIOUS
  <2>3. u.legend[s] = Counted(u, old)
    BY <1>2, <2>1, <2>2, CountedSame DEF Counts, Seen
  <2>4. PICK counts : counts = Counted(u, Bounds(u, s))
    OBVIOUS
  <2>5. Updated(u, s, old) = counts
    BY <1>2, <2>3, <2>4, UpdatedIs
  <2>6. counts \in [Actor -> Int]
    <3>1. \A a \in Actor : Counted(u, Bounds(u, s))[a] \in Int
      BY CountedIs
    <3>2. Counted(u, Bounds(u, s)) = [a \in Actor |-> Counted(u, Bounds(u, s))[a]]
      BY DEF Counted
    <3> QED
      BY <2>4, <3>1, <3>2
  <2>7. v = Relegend(u, s, counts)
    BY <1>3, <1>6, <2>2, <2>5
  <2>8. /\ v \in World /\ Seen(v, u, s)
        /\ v.views = u.views /\ v.left = u.left /\ v.width = u.width
        /\ v.legend[s] = counts
    BY <1>2, <2>6, <2>7, RelegendMakes
  <2>9. Bounds(v, s) = Bounds(u, s) /\ Met(v, s) = Met(u, s)
    BY <2>8 DEF Bounds, Met
  <2>10. Counts(v, s)
    BY <2>4, <2>8, <2>9, CountedSame DEF Counts, Seen
  <2>11. Looks(v, s)
    BY <1>2, <2>1, <2>8, <2>9 DEF Looks
  <2>12. Right(v, s, "in", again)
    BY <1>6, <2>10, <2>11 DEF Right
  <2>13. Seen(v, w, s)
    BY <1>2, <2>8 DEF Seen
  <2> QED
    BY <1>2, <2>8, <2>12, <2>13
<1> QED
  BY <1>4, <1>5, <1>6

(* Nothing changes for other sessions.                                     *)
LEMMA SeenRight ==
  ASSUME NEW w, NEW v, NEW s \in Session, Seen(v, w, s),
         NEW t \in Session, t # s, NEW at, NEW twice, Right(w, t, at, twice)
  PROVE  Right(v, t, at, twice)
  BY RightSame DEF Seen

(* What is shown does not hang on a view.                                  *)
LEMMA SeenShown ==
  ASSUME NEW w, NEW v, NEW s, Seen(v, w, s), Stacked(w), Shown(w)
  PROVE  Stacked(v) /\ Shown(v) /\ There(v) = There(w)
<1>1. Stacked(v)
  BY DEF Seen, Stacked
<1>2. Shown(v)
  BY DEF Seen, Shown, Topped, Barred
<1> QED
  BY <1>1, <1>2 DEF Seen, There

(* The distance a view scrolls by.                                         *)
LEMMA DeltaInt ==
  ASSUME NEW p \in Int, NEW x \in Int, NEW y \in Int
  PROVE  Delta(p, x, y) \in Int
  BY DEF Delta

(* SceneView::maybeScroll.                                                 *)
LEMMA FollowedMakes ==
  ASSUME NEW w \in World, NEW s \in Session, pawn[s] \in Actor,
         Right(w, s, "in", again), NEW v, v = Followed(w, s)
  PROVE  v \in World /\ Seen(v, w, s) /\ Right(v, s, "in", again)
<1>1. w.left[s] \in Int /\ w.width[s] \in Widths /\ w.width[s] \in Nat \ {0}
  BY Fields, SizeAssumption
<1>2. w.at[pawn[s]] \in Int
  BY Fields, SizeAssumption DEF Place
<1>3. PICK first : first = w.left[s] + (w.width[s] \div 2) - (ScrollWidth \div 2)
  OBVIOUS
<1>4. w.width[s] \div 2 \in Int /\ ScrollWidth \div 2 \in Int /\ ScrollWidth \in Int
  BY <1>1, SizeAssumption
<1>5. first \in Int /\ first + ScrollWidth - 1 \in Int
  BY <1>1, <1>3, <1>4
<1>6. PICK last : last = first + ScrollWidth - 1
  OBVIOUS
<1>7. PICK left : left = w.left[s] + Delta(w.at[pawn[s]], first, last)
  OBVIOUS
<1>8. left \in Int
  BY <1>1, <1>2, <1>5, <1>6, <1>7, DeltaInt
<1>9. PICK width : width = w.width[s]
  OBVIOUS
<1>10. v = Scrolled(w, s, left, width)
  BY <1>3, <1>6, <1>7, <1>9 DEF Followed
<1> QED
  BY <1>1, <1>8, <1>9, <1>10, ScrolledMakes

(***************************************************************************)
(* Pawns.                                                                  *)
(***************************************************************************)

\* A world with other positions, or with another record.
Replaced(w, at) == [w EXCEPT !.at = at]
Rewritten(w, record) == [w EXCEPT !.record = record]

(* The position of an actor that is not there can change.                  *)
LEMMA ReplacedMakes ==
  ASSUME NEW w \in World, Stacked(w), Shown(w), NEW a \in Actor, a \notin There(w),
         NEW p \in Place, NEW at, at = [w.at EXCEPT ![a] = p], NEW v, v = Replaced(w, at)
  PROVE  /\ v \in World /\ Stacked(v) /\ Shown(v) /\ There(v) = There(w)
         /\ v.at[a] = p /\ \A b \in Actor : b # a => v.at[b] = w.at[b]
         /\ v.record = w.record /\ v.face = w.face /\ v.labels = w.labels
         /\ v.views = w.views /\ v.left = w.left /\ v.width = w.width /\ v.legend = w.legend
<1>1. at \in [Actor -> Place] /\ at[a] = p /\ \A b \in Actor : b # a => at[b] = w.at[b]
  BY Fields
<1>2. /\ v \in World /\ v.at = at
      /\ v.record = w.record /\ v.list = w.list /\ v.face = w.face
      /\ v.drawn = w.drawn /\ v.labels = w.labels /\ v.flags = w.flags
      /\ v.views = w.views /\ v.left = w.left /\ v.width = w.width /\ v.legend = w.legend
  BY <1>1 DEF World, Replaced
<1>3. Stacked(v)
  <2>1. ASSUME NEW q \in Place, NEW x \in ToSet(w.list[q])  PROVE at[x] = q
    <3>1. x # a /\ x \in Actor
      BY ThereActor DEF There
    <3> QED
      BY <3>1, <1>1 DEF Stacked
  <2>2. ASSUME NEW q \in Place
        PROVE  IsInjective(v.list[q]) /\ \A x \in ToSet(v.list[q]) : v.at[x] = q
    <3>1. IsInjective(w.list[q])
      BY DEF Stacked
    <3>2. \A x \in ToSet(w.list[q]) : at[x] = q
      BY <2>1
    <3> QED
      BY <1>2, <3>1, <3>2
  <2> QED
    BY <2>2 DEF Stacked
<1>4. Shown(v)
  BY <1>2 DEF Shown, Topped, Barred
<1> QED
  BY <1>1, <1>2, <1>3, <1>4 DEF There

(* Actor::setPosition and what hears of it: the pawn is where it went, the *)
(* view of its session follows, and a cursor shows what is beneath.        *)
LEMMA MovedMakes ==
  ASSUME NEW w \in World, Stacked(w), Shown(w), NEW s \in Session,
         NEW a \in There(w), a = pawn[s], NEW p \in Place, p # w.at[a],
         Right(w, s, "in", again), NEW v, v = Moved(w, s, p)
  PROVE  /\ v \in World /\ Stacked(v) /\ Shown(v) /\ There(v) = There(w)
         /\ v.record = w.record
         /\ v.at[a] = p /\ \A b \in Actor : b # a => v.at[b] = w.at[b]
         /\ v.face[a] = IF a \in cursor THEN Reversed(w.record[p]) ELSE w.face[a]
         /\ \A b \in Actor : b # a => v.face[b] = w.face[b]
         /\ Right(v, s, "in", again)
         /\ \A t \in Session \ {s} : \A at \in {"out", "in", "gone"} :
              Right(w, t, at, again) => Right(v, t, at, again)
<1>0. a \in Actor /\ "in" \in {"out", "in", "gone"}
  BY ThereActor
<1>1. PICK x : x = Taken(w, a)
  OBVIOUS
<1>2. /\ x \in World /\ Stacked(x) /\ Shown(x)
      /\ There(x) = There(w) \ {a} /\ Kept(x, w) /\ x.face = w.face
      /\ \A t \in Session : \A at \in {"out", "in", "gone"} :
           Right(w, t, at, again) => Right(x, t, at, again)
  <2>1. x \in World /\ Stacked(x) /\ Shown(x) /\ There(x) = There(w) \ {a} /\ Kept(x, w)
        /\ x.face = w.face
    BY <1>1, TakenMakes
  <2>2. ASSUME NEW t \in Session, NEW at \in {"out", "in", "gone"}, Right(w, t, at, again)
        PROVE  Right(x, t, at, again)
    BY <1>1, <2>2, TakenMakes
  <2> QED
    BY <2>1, <2>2
<1>3. PICK pos : pos = [x.at EXCEPT ![a] = p]
  OBVIOUS
<1>4. PICK y : y = Replaced(x, pos)
  OBVIOUS
<1>5. /\ y \in World /\ Stacked(y) /\ Shown(y) /\ There(y) = There(x)
      /\ y.at[a] = p /\ \A b \in Actor : b # a => y.at[b] = x.at[b]
      /\ y.record = x.record /\ y.face = x.face /\ y.labels = x.labels
      /\ y.views = x.views /\ y.left = x.left /\ y.width = x.width /\ y.legend = x.legend
  <2>1. a \notin There(x)
    BY <1>2
  <2> QED
    BY <1>0, <1>2, <1>3, <1>4, <2>1, ReplacedMakes
<1>6. ASSUME NEW t \in Session, NEW at \in {"out", "in", "gone"}, Right(w, t, at, again)
      PROVE  Right(y, t, at, again)
  <2>1. PICK twice : twice = again
    OBVIOUS
  <2>2. Right(x, t, at, twice)
    BY <1>2, <1>6, <2>1
  <2>3. /\ y.views[t] = x.views[t] /\ y.left[t] = x.left[t] /\ y.width[t] = x.width[t]
        /\ y.legend[t] = x.legend[t]
    BY <1>5
  <2>4. Right(y, t, at, twice)
    BY <2>2, <2>3, <1>5, RightSame
  <2> QED
    BY <2>1, <2>4
<1>7. PICK z : z = Added(y, a)
  OBVIOUS
<1>8. /\ z \in World /\ Stacked(z) /\ Shown(z)
      /\ There(z) = There(y) \cup {a} /\ Kept(z, y) /\ z.face = y.face
      /\ \A t \in Session : \A at \in {"out", "in", "gone"} :
           Right(y, t, at, again) => Right(z, t, at, again)
  <2>0. a \notin There(y)
    BY <1>2, <1>5
  <2>1. z \in World /\ Stacked(z) /\ Shown(z) /\ There(z) = There(y) \cup {a} /\ Kept(z, y)
        /\ z.face = y.face
    BY <1>0, <1>5, <1>7, <2>0, AddedMakes
  <2>2. ASSUME NEW t \in Session, NEW at \in {"out", "in", "gone"}, Right(y, t, at, again)
        PROVE  Right(z, t, at, again)
    BY <1>0, <1>5, <1>7, <2>0, <2>2, AddedMakes
  <2> QED
    BY <2>1, <2>2
<1>9. Right(z, s, "in", again)
  BY <1>0, <1>6, <1>8
<1>10. PICK f : f = Followed(z, s)
  OBVIOUS
<1>11. f \in World /\ Seen(f, z, s) /\ Right(f, s, "in", again)
  BY <1>0, <1>8, <1>9, <1>10, FollowedMakes
<1>12. Stacked(f) /\ Shown(f) /\ There(f) = There(z)
  BY <1>8, <1>11, SeenShown
<1>13. There(f) = There(w)
  BY <1>2, <1>5, <1>8, <1>12
<1>14. /\ f.record = w.record /\ f.face = w.face
       /\ f.at[a] = p /\ \A b \in Actor : b # a => f.at[b] = w.at[b]
  BY <1>2, <1>5, <1>8, <1>11 DEF Kept, Seen
<1>15. ASSUME NEW t \in Session \ {s}, NEW at \in {"out", "in", "gone"}, Right(w, t, at, again)
       PROVE  Right(f, t, at, again)
  <2>1. PICK twice : twice = again
    OBVIOUS
  <2>2. Right(z, t, at, twice)
    BY <1>6, <1>8, <1>15, <2>1
  <2>3. Right(f, t, at, twice)
    BY <2>2, <1>11, SeenRight
  <2> QED
    BY <2>1, <2>3
<1>16. v = IF a \in cursor THEN Faced(f, a, Reversed(w.record[p])) ELSE f
  <2>1. [x EXCEPT !.at[a] = p] = y
    BY <1>3, <1>4 DEF Replaced
  <2> QED
    BY <1>1, <1>7, <1>10, <2>1 DEF Moved
<1>17. CASE a \in cursor
  <2>1. PICK glyph \in Glyph : glyph = Reversed(w.record[p])
    BY Fields DEF Glyph
  <2>2. v = Faced(f, a, glyph)
    BY <1>16, <1>17, <2>1
  <2>3. /\ v \in World /\ Stacked(v) /\ Shown(v) /\ There(v) = There(f) /\ Kept(v, f)
        /\ v.face[a] = glyph
    BY <1>11, <1>12, <1>13, <2>2, FacedMakes
  <2>4. ASSUME NEW b \in Actor, b # a  PROVE v.face[b] = f.face[b]
    BY <1>11, <1>12, <1>13, <2>2, <2>4, FacedMakes
  <2>5. ASSUME NEW t \in Session, NEW at \in {"out", "in", "gone"}, Right(f, t, at, again)
        PROVE  Right(v, t, at, again)
    BY <1>11, <1>12, <1>13, <2>2, <2>5, FacedMakes
  <2>6. v.record = w.record /\ v.at[a] = p /\ \A b \in Actor : b # a => v.at[b] = w.at[b]
    BY <1>14, <2>3 DEF Kept
  <2>7. Right(v, s, "in", again)
    BY <1>0, <1>11, <2>5
  <2>8. ASSUME NEW t \in Session \ {s}, NEW at \in {"out", "in", "gone"}, Right(w, t, at, again)
        PROVE  Right(v, t, at, again)
    BY <1>15, <2>5, <2>8
  <2> QED
    BY <1>13, <1>14, <1>17, <2>1, <2>3, <2>4, <2>6, <2>7, <2>8
<1>18. CASE a \notin cursor
  <2>1. v = f
    BY <1>16, <1>18
  <2> QED
    BY <1>11, <1>12, <1>13, <1>14, <1>15, <1>18, <2>1
<1> QED
  BY <1>17, <1>18

(* The top of a list is there.                                             *)
LEMMA TopThere ==
  ASSUME NEW w \in World, NEW p \in Place, w.list[p] # <<>>
  PROVE  Head(w.list[p]) \in ToSet(w.list[p]) /\ Head(w.list[p]) \in There(w)
<1>1. PICK l \in Seq(Actor) : l = w.list[p]
  BY Fields
<1>2. Len(l) > 0 /\ DOMAIN l = 1 .. Len(l) /\ Len(l) \in Nat /\ Head(l) = l[1]
  BY <1>1, EmptySeq, LenProperties
<1>3. 1 \in DOMAIN l
  BY <1>2
<1>4. Head(l) \in ToSet(l)
  BY <1>2, <1>3 DEF ToSet
<1> QED
  BY <1>1, <1>4 DEF There

(* Scene::set where somebody is: a cursor on top shows the new character.  *)
LEMMA WrittenMakes ==
  ASSUME NEW w \in World, Stacked(w), Shown(w), NEW p \in Place, w.list[p] # <<>>,
         NEW c \in Char, NEW v, v = Written(w, p, c)
  PROVE  /\ v \in World /\ Stacked(v) /\ Shown(v) /\ There(v) = There(w)
         /\ v.at = w.at /\ v.list = w.list
         /\ v.record[p] = c /\ \A q \in Place : q # p => v.record[q] = w.record[q]
         /\ Head(w.list[p]) \in cursor => v.face[Head(w.list[p])] = Reversed(c)
         /\ \A b \in Actor : b # Head(w.list[p]) \/ b \notin cursor => v.face[b] = w.face[b]
         /\ \A t \in Session : \A at \in {"out", "in", "gone"} :
              Right(w, t, at, again) => Right(v, t, at, again)
<1>1. PICK r : r = [w.record EXCEPT ![p] = c]
  OBVIOUS
<1>2. r \in [Place -> Char] /\ r[p] = c /\ \A q \in Place : q # p => r[q] = w.record[q]
  BY <1>1, Fields
<1>3. PICK u : u = Rewritten(w, r)
  OBVIOUS
<1>4. /\ u \in World /\ u.record = r
      /\ u.list = w.list /\ u.at = w.at /\ u.face = w.face
      /\ u.drawn = w.drawn /\ u.labels = w.labels /\ u.flags = w.flags
      /\ u.views = w.views /\ u.left = w.left /\ u.width = w.width /\ u.legend = w.legend
  BY <1>2, <1>3 DEF World, Rewritten
<1>5. Stacked(u) /\ There(u) = There(w)
  BY <1>4 DEF Stacked, There
<1>6. Shown(u)
  <2>1. ASSUME NEW q \in Place  PROVE Topped(u, q) /\ Barred(u, q)
    <3>1. Topped(w, q) /\ Barred(w, q)
      BY DEF Shown
    <3>2. Barred(u, q)
      BY <1>4, <3>1 DEF Barred
    <3>3. w.list[q] = <<>> => q # p
      OBVIOUS
    <3>4. Topped(u, q)
      BY <1>2, <1>4, <3>1, <3>3 DEF Topped
    <3> QED
      BY <3>2, <3>4
  <2> QED
    BY <2>1 DEF Shown
<1>7. ASSUME NEW t \in Session, NEW at \in {"out", "in", "gone"}, Right(w, t, at, again)
      PROVE  Right(u, t, at, again)
  <2>1. PICK twice : twice = again
    OBVIOUS
  <2>2. Right(w, t, at, twice)
    BY <1>7, <2>1
  <2>3. Right(u, t, at, twice)
    BY <1>4, <2>2, RightSame
  <2> QED
    BY <2>1, <2>3
<1>8. PICK a : a = Head(w.list[p])
  OBVIOUS
<1>9. a \in There(u)
  BY <1>5, <1>8, TopThere
<1>10. v = IF a \in cursor THEN Faced(u, a, Reversed(c)) ELSE u
  BY <1>1, <1>3, <1>4, <1>8 DEF Written, Rewritten
<1>11. CASE a \in cursor
  <2>1. PICK glyph \in Glyph : glyph = Reversed(c)
    BY DEF Glyph
  <2>2. v = Faced(u, a, glyph)
    BY <1>10, <1>11, <2>1
  <2>3. /\ v \in World /\ Stacked(v) /\ Shown(v) /\ There(v) = There(u) /\ Kept(v, u)
        /\ v.face[a] = glyph /\ v.list = u.list
    BY <1>4, <1>5, <1>6, <1>9, <2>2, FacedMakes
  <2>4. ASSUME NEW b \in Actor, b # a  PROVE v.face[b] = u.face[b]
    BY <1>4, <1>5, <1>6, <1>9, <2>2, <2>4, FacedMakes
  <2>5. ASSUME NEW t \in Session, NEW at \in {"out", "in", "gone"}, Right(u, t, at, again)
        PROVE  Right(v, t, at, again)
    BY <1>4, <1>5, <1>6, <1>9, <2>2, <2>5, FacedMakes
  <2>6. v.record = r /\ v.at = w.at /\ v.list = w.list
    BY <1>4, <2>3 DEF Kept
  <2>7. ASSUME NEW b \in Actor, b # a \/ b \notin cursor  PROVE v.face[b] = w.face[b]
    BY <1>4, <1>11, <2>4, <2>7
  <2> QED
    BY <1>2, <1>5, <1>7, <1>8, <2>1, <2>3, <2>5, <2>6, <2>7
<1>12. CASE a \notin cursor
  <2>1. v = u
    BY <1>10, <1>12
  <2> QED
    BY <1>2, <1>4, <1>5, <1>6, <1>7, <1>8, <1>12, <2>1
<1> QED
  BY <1>11, <1>12

(***************************************************************************)
(* What cursors show.                                                      *)
(***************************************************************************)

\* Dressed, for the cursors that are not in B.
DressedBut(w, B) ==
    \A a \in There(w) :
        /\ a \notin cursor => w.face[a] = Figure
        /\ a \in cursor \ B => w.face[a] = Reversed(w.record[w.at[a]])

(* A cursor that moves shows the character it has come to.                 *)
LEMMA MovedDressed ==
  ASSUME NEW w \in World, Stacked(w), Shown(w), NEW s \in Session,
         NEW a \in There(w), a = pawn[s], NEW p \in Place, p # w.at[a],
         Right(w, s, "in", again), NEW B, DressedBut(w, B),
         NEW v, v = Moved(w, s, p)
  PROVE  DressedBut(v, B \ {a})
<1>1. /\ There(v) = There(w) /\ v.record = w.record /\ v.at[a] = p
      /\ v.face[a] = IF a \in cursor THEN Reversed(w.record[p]) ELSE w.face[a]
  BY MovedMakes
<1>2. ASSUME NEW b \in Actor, b # a  PROVE v.at[b] = w.at[b] /\ v.face[b] = w.face[b]
  <2>1. v.at[b] = w.at[b]
    BY <1>2, MovedMakes
  <2>2. v.face[b] = w.face[b]
    BY <1>2, MovedMakes
  <2> QED
    BY <2>1, <2>2
<1>3. ASSUME NEW b \in There(v)
      PROVE  /\ b \notin cursor => v.face[b] = Figure
             /\ b \in cursor \ (B \ {a}) => v.face[b] = Reversed(v.record[v.at[b]])
  <2>1. b \in There(w) /\ b \in Actor
    BY <1>1, ThereActor
  <2>2. /\ b \notin cursor => w.face[b] = Figure
        /\ b \in cursor \ B => w.face[b] = Reversed(w.record[w.at[b]])
    BY <2>1 DEF DressedBut
  <2>3. CASE b = a
    BY <1>1, <2>2, <2>3
  <2>4. CASE b # a
    BY <1>1, <1>2, <2>1, <2>2, <2>4
  <2> QED
    BY <2>3, <2>4
<1> QED
  BY <1>3 DEF DressedBut

(* The cursors that do not show what is written are those that lie under   *)
(* another actor.                                                          *)
LEMMA WrittenDressed ==
  ASSUME NEW w \in World, Stacked(w), Shown(w), NEW p \in Place, w.list[p] # <<>>,
         NEW c \in Char, NEW B, DressedBut(w, B), NEW v, v = Written(w, p, c)
  PROVE  DressedBut(v, B \cup Covered(w, p))
<1>1. PICK top : top = Head(w.list[p])
  OBVIOUS
<1>2. /\ There(v) = There(w) /\ v.at = w.at
      /\ v.record[p] = c
      /\ top \in cursor => v.face[top] = Reversed(c)
  <2>1. There(v) = There(w) /\ v.at = w.at /\ v.record[p] = c
    BY WrittenMakes
  <2>2. Head(w.list[p]) \in cursor => v.face[Head(w.list[p])] = Reversed(c)
    BY WrittenMakes
  <2> QED
    BY <2>1, <2>2, <1>1
<1>3. ASSUME NEW q \in Place, q # p  PROVE v.record[q] = w.record[q]
  BY <1>3, WrittenMakes
<1>4. ASSUME NEW b \in Actor, b # top \/ b \notin cursor  PROVE v.face[b] = w.face[b]
  <2>1. b # Head(w.list[p]) \/ b \notin cursor
    BY <1>1, <1>4
  <2> QED
    BY <2>1, WrittenMakes
<1>5. top \in There(w) /\ top \in ToSet(w.list[p])
  BY <1>1, TopThere
<1>6. w.at[top] = p
  BY <1>5 DEF Stacked
<1>7. ASSUME NEW b \in There(v)
      PROVE  /\ b \notin cursor => v.face[b] = Figure
             /\ b \in cursor \ (B \cup Covered(w, p))
                  => v.face[b] = Reversed(v.record[v.at[b]])
  <2>1. b \in There(w) /\ b \in Actor /\ w.at[b] \in Place
    BY <1>2, ThereActor, Fields
  <2>2. /\ b \notin cursor => w.face[b] = Figure
        /\ b \in cursor \ B => w.face[b] = Reversed(w.record[w.at[b]])
    BY <2>1 DEF DressedBut
  <2>3. b \notin cursor => v.face[b] = Figure
    BY <1>4, <2>1, <2>2
  <2>4. ASSUME b \in cursor, b \notin B, b \notin Covered(w, p)
        PROVE  v.face[b] = Reversed(v.record[v.at[b]])
    <3>1. CASE w.at[b] = p
      <4>1. b = top
        BY <1>1, <2>4, <3>1 DEF Covered
      <4> QED
        BY <1>2, <2>4, <3>1, <4>1
    <3>2. CASE w.at[b] # p
      <4>1. b # top
        BY <1>6, <3>2
      <4> QED
        BY <1>2, <1>3, <1>4, <2>1, <2>2, <2>4, <3>2, <4>1
    <3> QED
      BY <3>1, <3>2
  <2> QED
    BY <2>3, <2>4
<1> QED
  BY <1>7 DEF DressedBut

(***************************************************************************)
(* Steps.                                                                  *)
(***************************************************************************)

\* The views and legends of all sessions are as they should be at their stages.
AllRight(w) == \A s \in Session : Right(w, s, stage[s], again)

(* Actor::setPosition of a pawn: what every session sees and counts stays right. *)
LEMMA MovedAll ==
  ASSUME Inv, NEW w \in World, Stacked(w), Shown(w), NEW s \in Session, In(s),
         NEW a \in There(w), a = pawn[s], NEW p \in Place, p # w.at[a],
         AllRight(w), NEW v, v = Moved(w, s, p)
  PROVE  AllRight(v)
<1>1. Right(w, s, "in", again)
  BY DEF In, AllRight
<1>2. Right(v, s, "in", again)
  BY <1>1, MovedMakes
<1>3. ASSUME NEW t \in Session, t # s  PROVE Right(v, t, stage[t], again)
  <2>1. PICK at \in {"out", "in", "gone"} : at = stage[t]
    BY DEF Inv
  <2>2. Right(w, t, at, again)
    BY <2>1 DEF AllRight
  <2>3. t \in Session \ {s}
    BY <1>3
  <2>4. Right(v, t, at, again)
    BY <1>1, <2>2, <2>3, MovedMakes
  <2> QED
    BY <2>1, <2>4
<1> QED
  BY <1>2, <1>3 DEF In, AllRight

(* Scene::set beneath an actor: what every session sees and counts stays right. *)
LEMMA WrittenAll ==
  ASSUME Inv, NEW w \in World, Stacked(w), Shown(w), NEW p \in Place, w.list[p] # <<>>,
         NEW c \in Char, AllRight(w), NEW v, v = Written(w, p, c)
  PROVE  AllRight(v)
<1>1. ASSUME NEW t \in Session  PROVE Right(v, t, stage[t], again)
  <2>1. PICK at \in {"out", "in", "gone"} : at = stage[t]
    BY DEF Inv
  <2>2. Right(w, t, at, again)
    BY <2>1 DEF AllRight
  <2>3. Right(v, t, at, again)
    BY <2>2, WrittenMakes
  <2> QED
    BY <2>1, <2>3
<1> QED
  BY <1>1 DEF AllRight

(* The parts of the invariant, of the world before a step.                 *)
LEMMA Parts ==
  ASSUME Inv, NEW w, w = space
  PROVE  /\ w \in World /\ Stacked(w) /\ Shown(w) /\ Column \in There(w)
         /\ cursor \subseteq There(w) \cap Pawn /\ beneath \subseteq cursor
         /\ DressedBut(w, beneath)
         /\ \A s \in Session : In(s) => pawn[s] \in There(w) /\ pawn[s] \in Pawn /\ pawn[s] \in Actor
         /\ \A s \in Session : ~In(s) => pawn[s] = None
         /\ \A s, t \in Session : In(s) /\ In(t) /\ pawn[s] = pawn[t] => s = t
         /\ AllRight(w)
         /\ \A s \in Session : stage[s] \in {"out", "in", "gone"}
         /\ \A s \in Session : In(s) => Right(w, s, "in", again)
<1>1. /\ w \in World /\ Stacked(w) /\ Shown(w) /\ Column \in There(w)
      /\ cursor \subseteq There(w) \cap Pawn /\ beneath \subseteq cursor
  BY DEF Inv
<1>2. DressedBut(w, beneath)
  BY DEF Inv, Dressed, DressedBut
<1>3. Owned(w)
  BY DEF Inv, Owned
<1>4. /\ \A s \in Session : Right(w, s, stage[s], again)
      /\ \A s \in Session : stage[s] \in {"out", "in", "gone"}
  BY DEF Inv
<1>5. \A s \in Session : In(s) => Right(w, s, "in", again)
  BY <1>4 DEF In
<1>6. Pawn \subseteq Actor
  BY DEF Actor
<1> QED
  BY <1>1, <1>2, <1>3, <1>4, <1>5, <1>6 DEF Owned, AllRight

(* The invariant after a step, from its parts.                             *)
LEMMA Whole ==
  ASSUME NEW v, v = space',
         v \in World, Stacked(v), Shown(v), Column \in There(v),
         pawn' \in [Session -> Pawn \cup {None}],
         stage' \in [Session -> {"out", "in", "gone"}],
         again' \subseteq Session, \A s \in again' : stage'[s] # "out",
         cursor' \subseteq There(v) \cap Pawn, beneath' \subseteq cursor',
         \A s \in Session : IF stage'[s] = "in" THEN pawn'[s] \in There(v) \cap Pawn
                            ELSE pawn'[s] = None,
         \A s, t \in Session : stage'[s] = "in" /\ stage'[t] = "in" /\ pawn'[s] = pawn'[t]
                                 => s = t,
         \A a \in There(v) :
             /\ a \notin cursor' => v.face[a] = Figure
             /\ a \in cursor' \ beneath' => v.face[a] = Reversed(v.record[v.at[a]]),
         \A s \in Session : Right(v, s, stage'[s], again')
  PROVE  Inv'
<1>1. Owned(space)'
  BY DEF Owned, In
<1>2. Dressed(space)'
  BY DEF Dressed
<1>3. (space \in World)' /\ (Column \in There(space))' /\ Stacked(space)' /\ Shown(space)'
  OBVIOUS
<1>4. (\A s \in Session : Right(space, s, stage[s], again))'
  OBVIOUS
<1>5. (cursor \subseteq There(space) \cap Pawn)' /\ (\A s \in again : stage[s] # "out")'
  OBVIOUS
<1> QED
  BY <1>1, <1>2, <1>3, <1>4, <1>5 DEF Inv

(* The invariant after a step in which nobody comes or goes.               *)
LEMMA Stays ==
  ASSUME Inv, NEW w, w = space, NEW v, v = space', UNCHANGED <<pawn, stage, again>>,
         v \in World, Stacked(v), Shown(v), There(v) = There(w),
         cursor' \subseteq There(w) \cap Pawn, beneath' \subseteq cursor',
         \A a \in There(v) :
             /\ a \notin cursor' => v.face[a] = Figure
             /\ a \in cursor' \ beneath' => v.face[a] = Reversed(v.record[v.at[a]]),
         AllRight(v)
  PROVE  Inv'
<1>1. pawn \in [Session -> Pawn \cup {None}] /\ stage \in [Session -> {"out", "in", "gone"}]
      /\ again \subseteq Session /\ \A s \in again : stage[s] # "out"
  BY DEF Inv
<1>2. \A s \in Session : IF stage[s] = "in" THEN pawn[s] \in There(w) \cap Pawn
                            ELSE pawn[s] = None
  BY Parts DEF In
<1>3. \A s, t \in Session : stage[s] = "in" /\ stage[t] = "in" /\ pawn[s] = pawn[t]
                                 => s = t
  BY Parts DEF In
<1>4. Column \in There(w)
  BY Parts
<1> QED
  BY <1>1, <1>2, <1>3, <1>4, Whole DEF AllRight

(* Actor::move keeps the invariant.                                        *)
LEMMA WalkKeeps ==
  ASSUME Inv, NEW s \in Session, NEW p \in Place, Walk(s, p)
  PROVE  Inv'
<1>1. PICK w : w = space
  OBVIOUS
<1>2. PICK a : a = pawn[s]
  OBVIOUS
<1>3. PICK v : v = Moved(w, s, p)
  OBVIOUS
<1>4. In(s) /\ v = space' /\ beneath' = beneath \ {a} /\ UNCHANGED <<pawn, cursor, stage, again>>
  BY <1>1, <1>2, <1>3 DEF Walk
<1>5. /\ w \in World /\ Stacked(w) /\ Shown(w) /\ a \in There(w) /\ a \in Actor
      /\ Right(w, s, "in", again) /\ DressedBut(w, beneath)
  BY <1>1, <1>2, <1>4, Parts
<1>6. p # w.at[a]
  <2>1. w.at[a] \in Place
    BY <1>5, Fields
  <2> QED
    BY <1>1, <1>2, <2>1, Numbers DEF Walk, Here
<1>7. v \in World /\ Stacked(v) /\ Shown(v) /\ There(v) = There(w) /\ Right(v, s, "in", again)
  BY <1>2, <1>3, <1>5, <1>6, MovedMakes
<1>8. PICK B : B = beneath
  OBVIOUS
<1>9. DressedBut(v, B \ {a})
  BY <1>2, <1>3, <1>5, <1>6, <1>8, MovedDressed
<1>10. AllRight(v)
  BY <1>1, <1>2, <1>3, <1>4, <1>5, <1>6, Parts, MovedAll
<1>11. cursor \subseteq There(w) \cap Pawn /\ beneath \subseteq cursor
  BY <1>1, Parts
<1>12. cursor' \subseteq There(w) \cap Pawn /\ beneath' \subseteq cursor'
  BY <1>4, <1>11
<1> QED
  BY <1>1, <1>4, <1>7, <1>8, <1>9, <1>10, <1>12, Stays DEF DressedBut

(* An actor that is there stands where somebody is.                        *)
LEMMA HereListed ==
  ASSUME NEW w \in World, Stacked(w), NEW a \in There(w)
  PROVE  w.at[a] \in Place /\ w.list[w.at[a]] # <<>>
<1>1. a \in Actor
  BY ThereActor
<1>2. w.at[a] \in Place
  BY <1>1, Fields
<1>3. PICK p \in Place : p = w.at[a]
  BY <1>2
<1>4. PICK l \in Seq(Actor) : l = w.list[p]
  BY Fields
<1>5. a \in ToSet(l)
  BY <1>1, <1>3, <1>4, ThereAt
<1>6. l # <<>>
  BY <1>5, EmptySeq, LenProperties DEF ToSet
<1> QED
  BY <1>2, <1>3, <1>4, <1>6

(* Pawn::keyPressEvent of a character keeps the invariant.                 *)
LEMMA TypeKeeps ==
  ASSUME Inv, NEW s \in Session, NEW c \in Char, Type(s, c)
  PROVE  Inv'
<1>1. PICK w : w = space
  OBVIOUS
<1>2. PICK a : a = pawn[s]
  OBVIOUS
<1>3. PICK h : h = w.at[a]
  OBVIOUS
<1>4. PICK u : u = Written(w, h, c)
  OBVIOUS
<1>5. PICK p : p = h + 1
  OBVIOUS
<1>6. PICK v : v = Moved(u, s, p)
  OBVIOUS
<1>7. /\ In(s) /\ a \in cursor /\ p \in Place /\ v = space'
      /\ beneath' = (beneath \cup Covered(w, h)) \ {a} /\ UNCHANGED <<pawn, cursor, stage, again>>
  BY <1>1, <1>2, <1>3, <1>4, <1>5, <1>6 DEF Type, Here
<1>8. /\ w \in World /\ Stacked(w) /\ Shown(w) /\ a \in There(w) /\ a \in Actor
      /\ DressedBut(w, beneath) /\ AllRight(w)
  BY <1>1, <1>2, <1>7, Parts
<1>9. h \in Place /\ w.list[h] # <<>>
  BY <1>3, <1>8, HereListed
<1>10. u \in World /\ Stacked(u) /\ Shown(u) /\ There(u) = There(w) /\ u.at = w.at
  BY <1>4, <1>8, <1>9, WrittenMakes
<1>11. AllRight(u)
  BY <1>4, <1>8, <1>9, WrittenAll
<1>12. PICK B : B = beneath
  OBVIOUS
<1>13. PICK C : C = B \cup Covered(w, h)
  OBVIOUS
<1>14. DressedBut(u, C)
  BY <1>4, <1>8, <1>9, <1>12, <1>13, WrittenDressed
<1>15. a \in There(u) /\ p # u.at[a]
  BY <1>3, <1>5, <1>8, <1>9, <1>10, Numbers
<1>16. Right(u, s, "in", again)
  BY <1>7, <1>11 DEF AllRight, In
<1>17. v \in World /\ Stacked(v) /\ Shown(v) /\ There(v) = There(u)
  <2>1. /\ u \in World /\ Stacked(u) /\ Shown(u) /\ a \in There(u) /\ a = pawn[s]
        /\ p \in Place /\ p # u.at[a] /\ v = Moved(u, s, p)
    BY <1>2, <1>6, <1>7, <1>10, <1>15
  <2>2. v \in World
    BY <2>1, <1>16, MovedMakes
  <2>3. Stacked(v) /\ Shown(v) /\ There(v) = There(u)
    BY <2>1, <1>16, MovedMakes
  <2> QED
    BY <2>2, <2>3
<1>18. AllRight(v)
  BY <1>2, <1>6, <1>7, <1>10, <1>11, <1>15, MovedAll
<1>19. DressedBut(v, C \ {a})
  BY <1>2, <1>6, <1>7, <1>10, <1>14, <1>15, <1>16, MovedDressed
<1>20. cursor \subseteq There(w) \cap Pawn /\ beneath \subseteq cursor
  BY <1>1, Parts
<1>21. cursor' \subseteq There(w) \cap Pawn /\ beneath' \subseteq cursor'
  BY <1>7, <1>20 DEF Covered
<1> QED
  BY <1>1, <1>7, <1>10, <1>12, <1>13, <1>17, <1>18, <1>19, <1>21, Stays DEF DressedBut

(* Pawn::keyPressEvent of Key_Backspace keeps the invariant.               *)
LEMMA RuboutKeeps ==
  ASSUME Inv, NEW s \in Session, Rubout(s)
  PROVE  Inv'
<1>1. PICK w : w = space
  OBVIOUS
<1>2. PICK a : a = pawn[s]
  OBVIOUS
<1>3. PICK h : h = w.at[a]
  OBVIOUS
<1>4. PICK p : p = h - 1
  OBVIOUS
<1>5. PICK u : u = Moved(w, s, p)
  OBVIOUS
<1>6. PICK v : v = Written(u, p, Blank)
  OBVIOUS
<1>7. /\ In(s) /\ a \in cursor /\ p \in Place /\ v = space'
      /\ beneath' = (beneath \ {a}) \cup Covered(u, p) /\ UNCHANGED <<pawn, cursor, stage, again>>
  BY <1>1, <1>2, <1>3, <1>4, <1>5, <1>6 DEF Rubout, Here
<1>8. /\ w \in World /\ Stacked(w) /\ Shown(w) /\ a \in There(w) /\ a \in Actor
      /\ DressedBut(w, beneath) /\ AllRight(w) /\ Right(w, s, "in", again)
  BY <1>1, <1>2, <1>7, Parts
<1>9. h \in Place /\ p # w.at[a]
  BY <1>3, <1>4, <1>8, HereListed, Numbers
<1>10. /\ u \in World /\ Stacked(u) /\ Shown(u) /\ There(u) = There(w) /\ u.at[a] = p
  BY <1>2, <1>5, <1>7, <1>8, <1>9, MovedMakes
<1>11. AllRight(u)
  BY <1>2, <1>5, <1>7, <1>8, <1>9, MovedAll
<1>12. PICK B : B = beneath
  OBVIOUS
<1>13. DressedBut(u, B \ {a})
  BY <1>2, <1>5, <1>7, <1>8, <1>9, <1>12, MovedDressed
<1>14. u.list[p] # <<>>
  BY <1>8, <1>10, HereListed
<1>15. PICK c \in Char : c = Blank
  BY DEF Char
<1>16. PICK C : C = B \ {a}
  OBVIOUS
<1>17. v \in World /\ Stacked(v) /\ Shown(v) /\ There(v) = There(u)
  <2>1. /\ u \in World /\ Stacked(u) /\ Shown(u) /\ u.list[p] # <<>>
        /\ p \in Place /\ v = Written(u, p, c)
    BY <1>6, <1>7, <1>10, <1>14, <1>15
  <2>2. v \in World
    BY <2>1, WrittenMakes
  <2>3. Stacked(v) /\ Shown(v) /\ There(v) = There(u)
    BY <2>1, WrittenMakes
  <2> QED
    BY <2>2, <2>3
<1>18. AllRight(v)
  BY <1>6, <1>7, <1>10, <1>11, <1>14, <1>15, WrittenAll
<1>19. DressedBut(v, C \cup Covered(u, p))
  BY <1>6, <1>7, <1>10, <1>13, <1>14, <1>15, <1>16, WrittenDressed
<1>20. cursor \subseteq There(w) \cap Pawn /\ beneath \subseteq cursor
  BY <1>1, Parts
<1>21. cursor' \subseteq There(w) \cap Pawn /\ beneath' \subseteq cursor'
  BY <1>7, <1>20 DEF Covered
<1> QED
  BY <1>1, <1>7, <1>10, <1>12, <1>16, <1>17, <1>18, <1>19, <1>21, Stays DEF DressedBut

(* Pawn::keyPressEvent of Key_Delete keeps the invariant.                  *)
LEMMA DeleteKeeps ==
  ASSUME Inv, NEW s \in Session, Delete(s)
  PROVE  Inv'
<1>1. PICK w : w = space
  OBVIOUS
<1>2. PICK a : a = pawn[s]
  OBVIOUS
<1>3. PICK h : h = w.at[a]
  OBVIOUS
<1>4. PICK v : v = Written(w, h, Blank)
  OBVIOUS
<1>5. /\ In(s) /\ a \in cursor /\ v = space'
      /\ beneath' = beneath \cup Covered(w, h) /\ UNCHANGED <<pawn, cursor, stage, again>>
  BY <1>1, <1>2, <1>3, <1>4 DEF Delete, Here
<1>6. /\ w \in World /\ Stacked(w) /\ Shown(w) /\ a \in There(w) /\ a \in Actor
      /\ DressedBut(w, beneath) /\ AllRight(w)
  BY <1>1, <1>2, <1>5, Parts
<1>7. h \in Place /\ w.list[h] # <<>>
  BY <1>3, <1>6, HereListed
<1>8. PICK c \in Char : c = Blank
  BY DEF Char
<1>9. v \in World /\ Stacked(v) /\ Shown(v) /\ There(v) = There(w)
  BY <1>4, <1>6, <1>7, <1>8, WrittenMakes
<1>10. AllRight(v)
  BY <1>4, <1>6, <1>7, <1>8, WrittenAll
<1>11. PICK B : B = beneath
  OBVIOUS
<1>12. DressedBut(v, B \cup Covered(w, h))
  BY <1>4, <1>6, <1>7, <1>8, <1>11, WrittenDressed
<1>13. cursor \subseteq There(w) \cap Pawn /\ beneath \subseteq cursor
  BY <1>1, Parts
<1>14. cursor' \subseteq There(w) \cap Pawn /\ beneath' \subseteq cursor'
  BY <1>5, <1>13 DEF Covered
<1> QED
  BY <1>1, <1>5, <1>9, <1>10, <1>11, <1>12, <1>14, Stays DEF DressedBut

(* Pawn::setCursor keeps the invariant.                                    *)
LEMMA ToggleKeeps ==
  ASSUME Inv, NEW s \in Session, Toggle(s)
  PROVE  Inv'
<1>1. PICK w : w = space
  OBVIOUS
<1>2. PICK a : a = pawn[s]
  OBVIOUS
<1>3. In(s) /\ beneath' = beneath \ {a} /\ UNCHANGED <<pawn, stage, again>>
  BY <1>2 DEF Toggle
<1>4. /\ w \in World /\ Stacked(w) /\ Shown(w) /\ a \in There(w) /\ a \in Actor /\ a \in Pawn
      /\ DressedBut(w, beneath) /\ AllRight(w)
  BY <1>1, <1>2, <1>3, Parts
<1>5. w.at[a] \in Place
  BY <1>4, Fields
<1>6. PICK glyph \in Glyph :
        glyph = IF a \notin cursor THEN Reversed(w.record[w.at[a]]) ELSE Figure
  BY <1>4, <1>5, Fields DEF Glyph
<1>7. PICK v : v = Faced(w, a, glyph)
  OBVIOUS
<1>8. /\ v = space'
      /\ cursor' = IF a \notin cursor THEN cursor \cup {a} ELSE cursor \ {a}
  BY <1>1, <1>2, <1>6, <1>7 DEF Toggle, Here
<1>9. /\ v \in World /\ Stacked(v) /\ Shown(v) /\ There(v) = There(w) /\ Kept(v, w)
      /\ v.face[a] = glyph
  BY <1>4, <1>7, FacedMakes
<1>10. ASSUME NEW b \in Actor, b # a  PROVE v.face[b] = w.face[b]
  BY <1>4, <1>7, <1>10, FacedMakes
<1>11. AllRight(v)
  <2>1. ASSUME NEW t \in Session  PROVE Right(v, t, stage[t], again)
    <3>1. PICK at \in {"out", "in", "gone"} : at = stage[t]
      BY <1>1, Parts
    <3>2. Right(w, t, at, again)
      BY <1>4, <3>1 DEF AllRight
    <3>3. Right(v, t, at, again)
      BY <1>4, <1>7, <3>2, FacedMakes
    <3> QED
      BY <3>1, <3>3
  <2> QED
    BY <2>1 DEF AllRight
<1>12. cursor \subseteq There(w) \cap Pawn /\ beneath \subseteq cursor
  BY <1>1, Parts
<1>13. cursor' \subseteq There(w) \cap Pawn /\ beneath' \subseteq cursor'
  BY <1>3, <1>4, <1>8, <1>12
<1>14. ASSUME NEW b \in There(v)
       PROVE  /\ b \notin cursor' => v.face[b] = Figure
              /\ b \in cursor' \ beneath' => v.face[b] = Reversed(v.record[v.at[b]])
  <2>1. b \in There(w) /\ b \in Actor /\ v.record = w.record /\ v.at = w.at
    BY <1>4, <1>9, ThereActor DEF Kept
  <2>2. CASE b = a
    BY <1>6, <1>8, <1>9, <2>1, <2>2
  <2>3. CASE b # a
    <3>1. /\ b \notin cursor => w.face[b] = Figure
          /\ b \in cursor \ beneath => w.face[b] = Reversed(w.record[w.at[b]])
      BY <1>4, <2>1 DEF DressedBut
    <3>2. v.face[b] = w.face[b]
      BY <1>10, <2>1, <2>3
    <3>3. (b \in cursor' <=> b \in cursor) /\ (b \in beneath' <=> b \in beneath)
      BY <1>3, <1>8, <2>3
    <3> QED
      BY <2>1, <3>1, <3>2, <3>3
  <2> QED
    BY <2>2, <2>3
<1> QED
  BY <1>1, <1>3, <1>8, <1>9, <1>11, <1>13, <1>14, Stays

(* SceneView::invalidate, after a resize, keeps the invariant.             *)
LEMMA ResizeKeeps ==
  ASSUME Inv, NEW s \in Session, NEW width \in Widths, Resize(s, width)
  PROVE  Inv'
<1>1. PICK w : w = space
  OBVIOUS
<1>2. PICK v : v = space'
  OBVIOUS
<1>3. UNCHANGED <<pawn, cursor, stage, again, beneath>>
  BY DEF Resize
<1>4. /\ w \in World /\ Stacked(w) /\ Shown(w) /\ DressedBut(w, beneath) /\ AllRight(w)
      /\ cursor \subseteq There(w) \cap Pawn /\ beneath \subseteq cursor
  BY <1>1, Parts
<1>5. ASSUME v \in World, Seen(v, w, s), Right(v, s, stage[s], again)
      PROVE  Inv'
  <2>1. Stacked(v) /\ Shown(v) /\ There(v) = There(w)
    BY <1>4, <1>5, SeenShown
  <2>2. ASSUME NEW t \in Session  PROVE Right(v, t, stage[t], again)
    <3>1. PICK at : at = stage[t]
      OBVIOUS
    <3>2. PICK twice : twice = again
      OBVIOUS
    <3>3. Right(w, t, at, twice)
      BY <1>4, <3>1, <3>2 DEF AllRight
    <3>4. t # s => Right(v, t, at, twice)
      BY <1>5, <3>3, SeenRight
    <3> QED
      BY <1>5, <3>1, <3>2, <3>4
  <2>3. AllRight(v)
    BY <2>2 DEF AllRight
  <2>4. v.record = w.record /\ v.at = w.at /\ v.face = w.face
    BY <1>5 DEF Seen
  <2>5. \A a \in There(v) :
             /\ a \notin cursor' => v.face[a] = Figure
             /\ a \in cursor' \ beneath' => v.face[a] = Reversed(v.record[v.at[a]])
    BY <1>3, <1>4, <2>1, <2>4 DEF DressedBut
  <2>6. cursor' \subseteq There(w) \cap Pawn /\ beneath' \subseteq cursor'
    BY <1>3, <1>4
  <2> QED
    BY <1>1, <1>2, <1>3, <1>5, <2>1, <2>3, <2>5, <2>6, Stays
<1>6. CASE In(s)
  <2>1. PICK left \in Int : left = w.left[s]
    BY <1>4, Fields
  <2>2. v = Scrolled(w, s, left, width)
    BY <1>1, <1>2, <1>6, <2>1 DEF Resize
  <2>3. Right(w, s, "in", again)
    BY <1>1, <1>6, Parts
  <2>4. v \in World /\ Seen(v, w, s) /\ Right(v, s, "in", again)
    BY <1>4, <2>2, <2>3, ScrolledMakes
  <2> QED
    BY <1>5, <1>6, <2>4 DEF In
<1>7. CASE ~In(s)
  <2>1. PICK W : W = [w.width EXCEPT ![s] = width]
    OBVIOUS
  <2>2. W \in [Session -> Widths] /\ \A t \in Session : t # s => W[t] = w.width[t]
    BY <1>4, <2>1, Fields
  <2>3. v = [w EXCEPT !.width = W]
    BY <1>1, <1>2, <1>7, <2>1 DEF Resize
  <2>4. /\ v \in World /\ v.width = W
        /\ v.record = w.record /\ v.list = w.list /\ v.at = w.at /\ v.face = w.face
        /\ v.drawn = w.drawn /\ v.labels = w.labels /\ v.flags = w.flags
        /\ v.views = w.views /\ v.left = w.left /\ v.legend = w.legend
    BY <1>4, <2>2, <2>3 DEF World
  <2>5. Seen(v, w, s)
    BY <2>2, <2>4 DEF Seen
  <2>6. Right(w, s, stage[s], again) /\ stage[s] # "in"
    BY <1>4, <1>7 DEF AllRight, In
  <2>7. Right(v, s, stage[s], again)
    BY <2>4, <2>6 DEF Right, Countless, Off
  <2> QED
    BY <1>5, <2>4, <2>5, <2>7
<1> QED
  BY <1>6, <1>7

(* Session::leaveScene keeps the invariant.                                *)
LEMMA LeaveKeeps ==
  ASSUME Inv, NEW s \in Session, Leave(s)
  PROVE  Inv'
<1>1. PICK w : w = space
  OBVIOUS
<1>2. PICK a : a = pawn[s]
  OBVIOUS
<1>3. PICK d : d = Delisted(w, s)
  OBVIOUS
<1>4. PICK k : k = Taken(d, a)
  OBVIOUS
<1>5. PICK counts : counts = [x \in Actor |-> 0]
  OBVIOUS
<1>6. PICK v : v = Relegend(k, s, counts)
  OBVIOUS
<1>7. /\ In(s) /\ v = space' /\ pawn' = [pawn EXCEPT ![s] = None]
      /\ cursor' = cursor \ {a} /\ beneath' = beneath \ {a}
      /\ stage' = [stage EXCEPT ![s] = "gone"] /\ again' = again
  BY <1>1, <1>2, <1>3, <1>4, <1>5, <1>6 DEF Leave, Relegend
<1>8. /\ w \in World /\ Stacked(w) /\ Shown(w) /\ DressedBut(w, beneath) /\ AllRight(w)
      /\ a \in There(w) /\ a \in Pawn /\ a \in Actor
      /\ cursor \subseteq There(w) \cap Pawn /\ beneath \subseteq cursor /\ Column \in There(w)
  BY <1>1, <1>2, <1>7, Parts
<1>9. /\ d \in World /\ Seen(d, w, s) /\ d.left = w.left /\ d.width = w.width
      /\ \A b \in ViewBlock :
           d.views[s][b] = w.views[s][b] + (IF b \in Met(w, s) THEN -1 ELSE 0)
  <2>1. PICK n \in Int : n = -1
    OBVIOUS
  <2>2. d = Listed(w, s, n)
    BY <1>3, <2>1 DEF Delisted
  <2>3. d \in World /\ Seen(d, w, s) /\ d.left = w.left /\ d.width = w.width
    BY <1>8, <2>2, ListedMakes
  <2>4. \A b \in ViewBlock :
           d.views[s][b] = w.views[s][b] + (IF b \in Met(w, s) THEN n ELSE 0)
    BY <1>8, <2>2, ListedMakes
  <2> QED
    BY <2>1, <2>3, <2>4
<1>10. Stacked(d) /\ Shown(d) /\ There(d) = There(w)
  BY <1>8, <1>9, SeenShown
<1>11. a \in There(d)
  BY <1>8, <1>10
<1>12. /\ k \in World /\ Stacked(k) /\ Shown(k) /\ There(k) = There(d) \ {a}
       /\ Kept(k, d) /\ k.face = d.face
  BY <1>4, <1>9, <1>10, <1>11, TakenMakes
<1>13. counts \in [Actor -> Int]
  BY <1>5
<1>14. /\ v \in World /\ Seen(v, k, s) /\ v.legend[s] = counts
       /\ v.views = k.views
  BY <1>6, <1>12, <1>13, RelegendMakes
<1>15. Stacked(v) /\ Shown(v) /\ There(v) = There(k)
  BY <1>12, <1>14, SeenShown
<1>16. There(v) = There(w) \ {a}
  BY <1>10, <1>12, <1>15
<1>17. v.record = w.record /\ v.at = w.at /\ v.face = w.face
  BY <1>9, <1>12, <1>14 DEF Kept, Seen
<1>18. ASSUME NEW t \in Session, t # s  PROVE Right(v, t, stage'[t], again')
  <2>1. PICK at \in {"out", "in", "gone"} : at = stage[t]
    BY <1>1, Parts
  <2>2. PICK twice : twice = again
    OBVIOUS
  <2>3. Right(w, t, at, twice)
    BY <1>8, <2>1, <2>2 DEF AllRight
  <2>4. Right(d, t, at, twice)
    BY <1>9, <1>18, <2>3, SeenRight
  <2>5. Right(d, t, at, again)
    BY <2>2, <2>4
  <2>6. Right(k, t, at, again)
    BY <1>4, <1>9, <1>10, <1>11, <2>5, TakenMakes
  <2>7. Right(k, t, at, twice)
    BY <2>2, <2>6
  <2>8. Right(v, t, at, twice)
    BY <1>14, <1>18, <2>7, SeenRight
  <2>9. stage'[t] = at
    BY <1>7, <1>18, <2>1
  <2> QED
    BY <1>7, <2>2, <2>8, <2>9
<1>19. Right(v, s, stage'[s], again')
  <2>1. stage'[s] = "gone"
    BY <1>7 DEF Inv
  <2>2. Countless(v, s)
    BY <1>5, <1>14 DEF Countless
  <2>3. Right(w, s, "in", again)
    BY <1>1, <1>7, Parts
  <2>4. \A b \in ViewBlock : v.views[s][b] = w.views[s][b] + (IF b \in Met(w, s) THEN -1 ELSE 0)
    BY <1>9, <1>12, <1>14 DEF Kept
  <2>5. w.views[s] \in [ViewBlock -> Int]
    BY <1>8, Fields
  <2>6. CASE s \in again
    <3>1. Lingers(w, s)
      BY <2>3, <2>6 DEF Right
    <3>2. \A b \in ViewBlock : v.views[s][b] >= 0
      BY <2>4, <2>5, <3>1 DEF Lingers
    <3> QED
      BY <1>7, <2>1, <2>2, <2>6, <3>2 DEF Right
  <2>7. CASE s \notin again
    <3>1. Looks(w, s)
      BY <2>3, <2>7 DEF Right
    <3>2. Off(v, s)
      BY <2>4, <2>5, <3>1 DEF Looks, Off
    <3> QED
      BY <1>7, <2>1, <2>2, <2>7, <3>2 DEF Right
  <2> QED
    BY <2>6, <2>7
<1>20. \A t \in Session : Right(v, t, stage'[t], again')
  BY <1>18, <1>19
<1>21. /\ pawn \in [Session -> Pawn \cup {None}] /\ stage \in [Session -> {"out", "in", "gone"}]
       /\ again \subseteq Session /\ \A t \in again : stage[t] # "out"
  BY DEF Inv
<1>22. /\ pawn' \in [Session -> Pawn \cup {None}] /\ stage' \in [Session -> {"out", "in", "gone"}]
       /\ again' \subseteq Session /\ \A t \in again' : stage'[t] # "out"
  BY <1>7, <1>21
<1>23. cursor' \subseteq There(v) \cap Pawn /\ beneath' \subseteq cursor'
  BY <1>7, <1>8, <1>16
<1>24. Column \in There(v)
  BY <1>8, <1>16, PawnAssumption DEF Column
<1>25. \A t \in Session : IF stage'[t] = "in" THEN pawn'[t] \in There(v) \cap Pawn
                          ELSE pawn'[t] = None
  <2>1. ASSUME NEW t \in Session
        PROVE  IF stage'[t] = "in" THEN pawn'[t] \in There(v) \cap Pawn ELSE pawn'[t] = None
    <3>1. CASE t = s
      BY <3>1, <1>7, <1>21
    <3>2. CASE t # s
      <4>1. pawn'[t] = pawn[t] /\ stage'[t] = stage[t]
        BY <3>2, <1>7, <1>21
      <4>2. In(t) => pawn[t] \in There(w) /\ pawn[t] \in Pawn /\ pawn[t] # a
        BY <3>2, <1>1, <1>2, <1>7, Parts
      <4>3. ~In(t) => pawn[t] = None
        BY <1>1, Parts
      <4> QED
        BY <4>1, <4>2, <4>3, <1>16 DEF In
    <3> QED
      BY <3>1, <3>2
  <2> QED
    BY <2>1
<1>26. \A t, r \in Session : stage'[t] = "in" /\ stage'[r] = "in" /\ pawn'[t] = pawn'[r] => t = r
  <2>1. \A t \in Session : stage'[t] = "in" => In(t) /\ pawn'[t] = pawn[t]
    BY <1>7, <1>21 DEF In
  <2> QED
    BY <2>1, <1>1, Parts
<1>27. \A b \in There(v) :
             /\ b \notin cursor' => v.face[b] = Figure
             /\ b \in cursor' \ beneath' => v.face[b] = Reversed(v.record[v.at[b]])
  BY <1>7, <1>8, <1>16, <1>17 DEF DressedBut
<1> QED
  BY <1>7, <1>14, <1>15, <1>20, <1>22, <1>23, <1>24, <1>25, <1>26, <1>27, Whole

(* A set of numbers that is not empty has a least one.                     *)
LEMMA Least ==
  ASSUME NEW S, S \subseteq Nat, S # {}
  PROVE  Min(S) \in S
<1>1. IsWellFoundedOn(OpToRel(<, Nat), Nat)
  BY NatLessThanWellFounded
<1>2. PICK x \in S : \A y \in S : ~ (<<y, x>> \in OpToRel(<, Nat))
  BY <1>1, WFMin
<1>3. \A y \in S : x <= y
  <2>1. ASSUME NEW y \in S  PROVE x <= y
    <3>1. ~ (<<y, x>> \in OpToRel(<, Nat))
      BY <1>2
    <3>2. ~ (y < x)
      BY <3>1 DEF OpToRel
    <3> QED
      BY <3>2
  <2> QED
    BY <2>1
<1> QED
  BY <1>3 DEF Min

\* A world with another position and look of an actor.
Placed(w, at, face) == [w EXCEPT !.at = at, !.face = face]

(* A pawn that is made is at its place, and nothing of the scene has changed yet. *)
LEMMA PlacedMakes ==
  ASSUME NEW w \in World, Stacked(w), Shown(w), NEW a \in Actor, a \notin There(w),
         NEW p \in Place, NEW at, at = [w.at EXCEPT ![a] = p],
         NEW face, face = [w.face EXCEPT ![a] = Figure], NEW v, v = Placed(w, at, face)
  PROVE  /\ v \in World /\ Stacked(v) /\ Shown(v) /\ There(v) = There(w)
         /\ v.at[a] = p /\ v.face[a] = Figure
         /\ \A b \in Actor : b # a => v.at[b] = w.at[b] /\ v.face[b] = w.face[b]
         /\ v.record = w.record /\ v.labels = w.labels
         /\ v.views = w.views /\ v.left = w.left /\ v.width = w.width /\ v.legend = w.legend
<1>1. /\ at \in [Actor -> Place] /\ at[a] = p /\ \A b \in Actor : b # a => at[b] = w.at[b]
      /\ face \in [Actor -> Glyph] /\ face[a] = Figure
      /\ \A b \in Actor : b # a => face[b] = w.face[b]
  BY Fields DEF Glyph
<1>2. /\ v \in World /\ v.at = at /\ v.face = face
      /\ v.record = w.record /\ v.list = w.list
      /\ v.drawn = w.drawn /\ v.labels = w.labels /\ v.flags = w.flags
      /\ v.views = w.views /\ v.left = w.left /\ v.width = w.width /\ v.legend = w.legend
  BY <1>1 DEF World, Placed
<1>3. Stacked(v)
  <2>1. ASSUME NEW q \in Place, NEW x \in ToSet(w.list[q])  PROVE at[x] = q
    <3>1. x # a /\ x \in Actor
      BY ThereActor DEF There
    <3> QED
      BY <3>1, <1>1 DEF Stacked
  <2>2. ASSUME NEW q \in Place
        PROVE  IsInjective(v.list[q]) /\ \A x \in ToSet(v.list[q]) : v.at[x] = q
    <3>1. IsInjective(w.list[q])
      BY DEF Stacked
    <3>2. \A x \in ToSet(w.list[q]) : at[x] = q
      BY <2>1
    <3>3. v.list = w.list /\ v.at = at
      BY <1>2
    <3> QED
      BY <3>1, <3>2, <3>3
  <2> QED
    BY <2>2 DEF Stacked
<1>4. Shown(v)
  <2>1. ASSUME NEW q \in Place  PROVE Topped(v, q) /\ Barred(v, q)
    <3>1. Topped(w, q) /\ Barred(w, q)
      BY DEF Shown
    <3>2. w.list[q] # <<>> => Head(w.list[q]) # a /\ Head(w.list[q]) \in Actor
      BY TopThere, ThereActor
    <3>3. w.list[q] # <<>> => v.face[Head(w.list[q])] = w.face[Head(w.list[q])]
      BY <1>1, <1>2, <3>2
    <3> QED
      BY <1>2, <3>1, <3>3 DEF Topped, Barred
  <2> QED
    BY <2>1 DEF Shown
<1> QED
  BY <1>1, <1>2, <1>3, <1>4 DEF There

(* Session::sceneMaybeResolved keeps the invariant, for a session that enters and for one that enters again. *)
LEMMA EnterKeeps ==
  ASSUME Inv, NEW s \in Session, NEW p \in Place, Enter(s, p)
  PROVE  Inv'
<1>1. PICK w : w = space
  OBVIOUS
<1>2. PICK a : a = Min(Pawn \ Present)
  OBVIOUS
<1>3. /\ w \in World /\ Stacked(w) /\ Shown(w) /\ DressedBut(w, beneath) /\ AllRight(w)
      /\ cursor \subseteq There(w) \cap Pawn /\ beneath \subseteq cursor /\ Column \in There(w)
  BY <1>1, Parts
<1>4. a \in Pawn /\ a \in Actor /\ a \notin There(w) /\ a # Column
  <2>1. Pawn \ Present # {} /\ Pawn \ Present \subseteq Nat
    BY PawnAssumption DEF Enter
  <2>2. a \in Pawn \ Present
    BY <1>2, <2>1, Least
  <2> QED
    BY <1>1, <2>2, PawnAssumption DEF Present, There, Actor, Column
<1>5. PICK at : at = [w.at EXCEPT ![a] = p]
  OBVIOUS
<1>6. PICK face : face = [w.face EXCEPT ![a] = Figure]
  OBVIOUS
<1>7. PICK x : x = Placed(w, at, face)
  OBVIOUS
<1>8. /\ x \in World /\ Stacked(x) /\ Shown(x) /\ There(x) = There(w)
      /\ x.at[a] = p /\ x.face[a] = Figure
      /\ \A b \in Actor : b # a => x.at[b] = w.at[b] /\ x.face[b] = w.face[b]
      /\ x.record = w.record /\ x.labels = w.labels
      /\ x.views = w.views /\ x.left = w.left /\ x.width = w.width /\ x.legend = w.legend
  BY <1>3, <1>4, <1>5, <1>6, <1>7, PlacedMakes
<1>9. PICK y : y = Added(x, a)
  OBVIOUS
<1>10. a \notin There(x)
  BY <1>4, <1>8
<1>11. /\ y \in World /\ Stacked(y) /\ Shown(y)
       /\ There(y) = There(x) \cup {a} /\ Kept(y, x) /\ y.face = x.face
  BY <1>4, <1>8, <1>9, <1>10, AddedMakes
<1>12. PICK z : z = Enlisted(y, s)
  OBVIOUS
<1>13. /\ z \in World /\ Seen(z, y, s) /\ z.left = y.left /\ z.width = y.width
       /\ \A b \in ViewBlock :
            z.views[s][b] = y.views[s][b] + (IF b \in Met(y, s) THEN 1 ELSE 0)
  <2>1. PICK n \in Int : n = 1
    OBVIOUS
  <2>2. z = Listed(y, s, n)
    BY <1>12, <2>1 DEF Enlisted
  <2>3. z \in World /\ Seen(z, y, s) /\ z.left = y.left /\ z.width = y.width
    BY <1>11, <2>2, ListedMakes
  <2>4. \A b \in ViewBlock :
           z.views[s][b] = y.views[s][b] + (IF b \in Met(y, s) THEN n ELSE 0)
    BY <1>11, <2>2, ListedMakes
  <2> QED
    BY <2>1, <2>3, <2>4
<1>14. PICK width \in Widths : width = z.width[s]
  BY <1>13, Fields
<1>15. PICK left \in Int : left = p - (width \div 2)
  <2>1. width \in Nat /\ p \in Int
    BY <1>14, SizeAssumption, Numbers
  <2>2. width \div 2 \in Int
    BY <2>1
  <2> QED
    BY <2>1, <2>2
<1>16. PICK c : c = Rebound(z, s, left, width)
  OBVIOUS
<1>17. /\ c \in World /\ Seen(c, z, s)
       /\ Looks(z, s) => Looks(c, s)
       /\ Lingers(z, s) => Lingers(c, s)
  <2>1. c \in World /\ Seen(c, z, s)
    BY <1>13, <1>16, ReboundMakes
  <2>2. Looks(z, s) => Looks(c, s)
    BY <1>13, <1>16, ReboundMakes
  <2>3. Lingers(z, s) => Lingers(c, s)
    BY <1>13, <1>16, ReboundMakes
  <2> QED
    BY <2>1, <2>2, <2>3
<1>18. PICK counts : counts = IF In(s) THEN [b \in Actor |-> 0] ELSE Counted(c, Bounds(c, s))
  OBVIOUS
<1>19. counts \in [Actor -> Int]
  <2>1. \A b \in Actor : Counted(c, Bounds(c, s))[b] \in Int
    BY CountedIs
  <2>2. Counted(c, Bounds(c, s)) = [b \in Actor |-> Counted(c, Bounds(c, s))[b]]
    BY DEF Counted
  <2>3. Counted(c, Bounds(c, s)) \in [Actor -> Int]
    BY <2>1, <2>2
  <2> QED
    BY <1>18, <2>3
<1>20. PICK v : v = Relegend(c, s, counts)
  OBVIOUS
<1>21. /\ v = space' /\ pawn' = [pawn EXCEPT ![s] = a]
       /\ stage' = [stage EXCEPT ![s] = "in"]
       /\ again' = IF In(s) THEN again \cup {s} ELSE again
       /\ UNCHANGED <<cursor, beneath>>
       /\ stage[s] \in {"out", "in"}
  <2>1. [w EXCEPT !.at[a] = p, !.face[a] = Figure] = x
    BY <1>5, <1>6, <1>7 DEF Placed
  <2>2. c = Arrived(w, s, a, p)
    BY <1>9, <1>12, <1>14, <1>15, <1>16, <2>1 DEF Arrived
  <2>3. space' = [c EXCEPT !.legend[s] = IF In(s) THEN [b \in Actor |-> 0]
                                         ELSE Counted(c, Bounds(c, s))]
    BY <1>1, <1>2, <2>2 DEF Enter
  <2>4. v = space'
    BY <1>18, <1>20, <2>3 DEF Relegend
  <2>5. /\ pawn' = [pawn EXCEPT ![s] = a]
        /\ stage' = [stage EXCEPT ![s] = "in"]
        /\ again' = IF In(s) THEN again \cup {s} ELSE again
        /\ UNCHANGED <<cursor, beneath>>
        /\ stage[s] \in {"out", "in"}
    BY <1>2 DEF Enter
  <2> QED
    BY <2>4, <2>5
<1>22. /\ v \in World /\ Seen(v, c, s) /\ v.legend[s] = counts
       /\ v.views = c.views /\ v.left = c.left /\ v.width = c.width
  BY <1>17, <1>19, <1>20, RelegendMakes
<1>23. Stacked(z) /\ Shown(z) /\ There(z) = There(y)
  BY <1>11, <1>13, SeenShown
<1>24. Stacked(c) /\ Shown(c) /\ There(c) = There(z)
  BY <1>17, <1>23, SeenShown
<1>25. Stacked(v) /\ Shown(v) /\ There(v) = There(c)
  BY <1>22, <1>24, SeenShown
<1>26. There(v) = There(w) \cup {a}
  BY <1>8, <1>11, <1>23, <1>24, <1>25
<1>27. /\ v.record = w.record /\ v.face[a] = Figure
       /\ \A b \in Actor : b # a => v.at[b] = w.at[b] /\ v.face[b] = w.face[b]
  BY <1>8, <1>11, <1>13, <1>17, <1>22 DEF Kept, Seen
<1>28. ASSUME NEW t \in Session, t # s  PROVE Right(v, t, stage'[t], again')
  <2>1. PICK st \in {"out", "in", "gone"} : st = stage[t]
    BY <1>1, Parts
  <2>2. PICK twice : twice = again
    OBVIOUS
  <2>3. Right(w, t, st, twice)
    BY <1>3, <2>1, <2>2 DEF AllRight
  <2>4. Right(x, t, st, twice)
    <3>1. x.views[t] = w.views[t] /\ x.left[t] = w.left[t] /\ x.width[t] = w.width[t]
          /\ x.legend[t] = w.legend[t] /\ x.labels = w.labels
      BY <1>8
    <3> QED
      BY <2>3, <3>1, RightSame
  <2>5. Right(x, t, st, again)
    BY <2>2, <2>4
  <2>6. Right(y, t, st, again)
    BY <1>4, <1>8, <1>9, <1>10, <2>5, AddedMakes
  <2>7. Right(y, t, st, twice)
    BY <2>2, <2>6
  <2>8. Right(z, t, st, twice)
    BY <1>13, <1>28, <2>7, SeenRight
  <2>9. Right(c, t, st, twice)
    BY <1>17, <1>28, <2>8, SeenRight
  <2>10. Right(v, t, st, twice)
    BY <1>22, <1>28, <2>9, SeenRight
  <2>11. stage'[t] = st
    BY <1>21, <1>28, <2>1
  <2>12. PICK then : then = again'
    OBVIOUS
  <2>13. t \in then <=> t \in twice
    BY <1>21, <1>28, <2>2, <2>12
  <2>14. Right(v, t, st, then)
    BY <2>10, <2>13 DEF Right
  <2> QED
    BY <2>11, <2>12, <2>14
<1>29. /\ pawn \in [Session -> Pawn \cup {None}] /\ stage \in [Session -> {"out", "in", "gone"}]
       /\ again \subseteq Session /\ \A t \in again : stage[t] # "out"
  BY DEF Inv
<1>30. y.views = w.views /\ y.left = w.left /\ y.width = w.width /\ Met(y, s) = Met(w, s)
       /\ Met(z, s) = Met(w, s)
  BY <1>8, <1>11, <1>13 DEF Kept, Met
<1>31. w.views[s] \in [ViewBlock -> Int]
  BY <1>3, Fields
<1>32. /\ Bounds(v, s) = Bounds(c, s) /\ Met(v, s) = Met(c, s)
  BY <1>22 DEF Bounds, Met
<1>33. Right(v, s, stage'[s], again')
  <2>1. stage'[s] = "in"
    BY <1>21, <1>29
  <2>2. CASE In(s)
    <3>1. Right(w, s, "in", again)
      BY <1>1, <2>2, Parts
    <3>2. Lingers(w, s)
      BY <3>1 DEF Right, Looks, Lingers
    <3>3. Lingers(z, s)
      BY <1>13, <1>30, <1>31, <3>2 DEF Lingers
    <3>4. Lingers(v, s)
      BY <1>17, <1>22, <1>32, <3>3 DEF Lingers
    <3>5. Countless(v, s)
      BY <1>18, <1>22, <2>2 DEF Countless
    <3>6. s \in again'
      BY <1>21, <2>2
    <3> QED
      BY <2>1, <3>4, <3>5, <3>6 DEF Right
  <2>3. CASE ~In(s)
    <3>1. stage[s] = "out" /\ s \notin again
      BY <1>21, <1>29, <2>3 DEF In
    <3>2. Off(w, s)
      BY <1>3, <3>1 DEF AllRight, Right
    <3>3. Looks(z, s)
      BY <1>13, <1>30, <1>31, <3>2 DEF Looks, Off
    <3>4. Looks(v, s)
      BY <1>17, <1>22, <1>32, <3>3 DEF Looks
    <3>5. Counts(v, s)
      BY <1>18, <1>22, <1>32, <2>3, CountedSame DEF Counts, Seen
    <3>6. s \notin again'
      BY <1>21, <2>3, <3>1
    <3> QED
      BY <2>1, <3>4, <3>5, <3>6 DEF Right
  <2> QED
    BY <2>2, <2>3
<1>34. \A t \in Session : Right(v, t, stage'[t], again')
  BY <1>28, <1>33
<1>35. /\ pawn' \in [Session -> Pawn \cup {None}] /\ stage' \in [Session -> {"out", "in", "gone"}]
       /\ again' \subseteq Session /\ \A t \in again' : stage'[t] # "out"
  BY <1>4, <1>21, <1>29
<1>36. cursor' \subseteq There(v) \cap Pawn /\ beneath' \subseteq cursor' /\ Column \in There(v)
  BY <1>3, <1>21, <1>26
<1>37. \A t \in Session : IF stage'[t] = "in" THEN pawn'[t] \in There(v) \cap Pawn
                          ELSE pawn'[t] = None
  <2>1. ASSUME NEW t \in Session
        PROVE  IF stage'[t] = "in" THEN pawn'[t] \in There(v) \cap Pawn ELSE pawn'[t] = None
    <3>1. CASE t = s
      BY <3>1, <1>4, <1>21, <1>26, <1>29
    <3>2. CASE t # s
      <4>1. pawn'[t] = pawn[t] /\ stage'[t] = stage[t]
        BY <3>2, <1>21, <1>29
      <4>2. In(t) => pawn[t] \in There(w) /\ pawn[t] \in Pawn
        BY <1>1, Parts
      <4>3. ~In(t) => pawn[t] = None
        BY <1>1, Parts
      <4> QED
        BY <4>1, <4>2, <4>3, <1>26 DEF In
    <3> QED
      BY <3>1, <3>2
  <2> QED
    BY <2>1
<1>38. \A t, r \in Session : stage'[t] = "in" /\ stage'[r] = "in" /\ pawn'[t] = pawn'[r] => t = r
  <2>1. \A t \in Session : t # s => pawn'[t] = pawn[t] /\ (stage'[t] = "in" => In(t))
    BY <1>21, <1>29 DEF In
  <2>2. pawn'[s] = a
    BY <1>21, <1>29
  <2>3. \A t \in Session : In(t) => pawn[t] # a
    BY <1>1, <1>4, Parts
  <2>4. \A t, r \in Session : In(t) /\ In(r) /\ pawn[t] = pawn[r] => t = r
    BY <1>1, Parts
  <2> QED
    BY <2>1, <2>2, <2>3, <2>4
<1>39. \A b \in There(v) :
             /\ b \notin cursor' => v.face[b] = Figure
             /\ b \in cursor' \ beneath' => v.face[b] = Reversed(v.record[v.at[b]])
  <2>1. ASSUME NEW b \in There(v)
        PROVE  /\ b \notin cursor' => v.face[b] = Figure
               /\ b \in cursor' \ beneath' => v.face[b] = Reversed(v.record[v.at[b]])
    <3>1. CASE b = a
      BY <3>1, <1>3, <1>4, <1>21, <1>27
    <3>2. CASE b # a
      <4>1. b \in There(w) /\ b \in Actor
        BY <3>2, <1>3, <1>26, ThereActor
      <4> QED
        BY <3>2, <4>1, <1>3, <1>21, <1>27 DEF DressedBut
    <3> QED
      BY <3>1, <3>2
  <2> QED
    BY <2>1
<1> QED
  BY <1>21, <1>22, <1>25, <1>34, <1>35, <1>36, <1>37, <1>38, <1>39, Whole

(***************************************************************************)
(* The theorems.                                                           *)
(***************************************************************************)

(* Scene::Scene: nobody is there, and nobody looks.                        *)
LEMMA EmptyMakes ==
  ASSUME NEW record \in [Place -> Char], NEW w, w = Empty(record)
  PROVE  /\ w \in World /\ Stacked(w) /\ Shown(w) /\ There(w) = {}
         /\ \A a \in Actor : w.face[a] = Figure
         /\ \A s \in Session : \A twice : s \notin twice => Right(w, s, "out", twice)
<1>1. PICK none : none = [p \in Place |-> None]
  OBVIOUS
<1>2. PICK free : free = [p \in Place |-> {}]
  OBVIOUS
<1>3. PICK D : D = FilledAs(record, Blank)
  OBVIOUS
<1>4. PICK L : L = FilledAs(none, None)
  OBVIOUS
<1>5. PICK F : F = FilledAs(free, {})
  OBVIOUS
<1>6. D \in Grids(Glyph, Blank) /\ D.value = record
  <2>1. Blank \in Glyph /\ record \in [Place -> Glyph]
    BY DEF Glyph, Char
  <2> QED
    BY <1>3, <2>1, GridMade
<1>7. L \in Grids(Actor \cup {None}, None) /\ L.value = none
  <2>1. PICK S : S = Actor \cup {None}
    OBVIOUS
  <2>2. None \in S /\ none \in [Place -> S]
    BY <1>1, <2>1
  <2>3. L \in Grids(S, None) /\ L.value = none
    BY <1>4, <2>2, GridMade
  <2> QED
    BY <2>1, <2>3
<1>8. F \in Grids(SUBSET {1, 2}, {}) /\ F.value = free
  <2>1. PICK S : S = SUBSET {1, 2}
    OBVIOUS
  <2>2. PICK e : e = {}
    OBVIOUS
  <2>3. e \in S /\ free \in [Place -> S] /\ F = FilledAs(free, e)
    BY <1>2, <1>5, <2>1, <2>2
  <2>4. F \in Grids(S, e) /\ F.value = free
    BY <2>3, GridMade
  <2> QED
    BY <2>1, <2>2, <2>4
<1>9. w = [record |-> record, list |-> [p \in Place |-> <<>>],
           at |-> [a \in Actor |-> ColumnAt], face |-> [a \in Actor |-> Figure],
           drawn |-> D, labels |-> L, flags |-> F,
           views |-> [s \in Session |-> [b \in ViewBlock |-> 0]],
           left |-> [s \in Session |-> 0], width |-> [s \in Session |-> Wide],
           legend |-> [s \in Session |-> [a \in Actor |-> 0]]]
  BY <1>1, <1>2, <1>3, <1>4, <1>5 DEF Empty
<1>10. w \in World
  <2>1. [p \in Place |-> <<>>] \in [Place -> Seq(Actor)]
    OBVIOUS
  <2>2. [a \in Actor |-> ColumnAt] \in [Actor -> Place] /\ [a \in Actor |-> Figure] \in [Actor -> Glyph]
    BY SizeAssumption DEF Glyph
  <2>3. [s \in Session |-> Wide] \in [Session -> Widths]
    BY Widest
  <2> QED
    BY <1>6, <1>7, <1>8, <1>9, <2>1, <2>2, <2>3 DEF World
<1>11. \A p \in Place : w.list[p] = <<>> /\ ToSet(w.list[p]) = {} /\ IsInjective(w.list[p])
  BY <1>9 DEF ToSet, IsInjective
<1>12. Stacked(w)
  BY <1>11 DEF Stacked
<1>13. There(w) = {}
  BY <1>11 DEF There
<1>14. Shown(w)
  <2>1. ASSUME NEW p \in Place  PROVE Topped(w, p) /\ Barred(w, p)
    <3>1. w.drawn.value[p] = w.record[p] /\ w.labels.value[p] = None
      BY <1>1, <1>6, <1>7, <1>9
    <3>2. w.flags.value[p] = {}
      BY <1>2, <1>8, <1>9
    <3>3. FlagsOfAll({}) = {}
      BY FlagsAll
    <3> QED
      BY <1>11, <3>1, <3>2, <3>3 DEF Topped, Barred
  <2> QED
    BY <2>1 DEF Shown
<1>15. \A a \in Actor : w.face[a] = Figure
  BY <1>9
<1>16. ASSUME NEW s \in Session, NEW twice, s \notin twice  PROVE Right(w, s, "out", twice)
  <2>1. Countless(w, s) /\ Off(w, s)
    BY <1>9 DEF Countless, Off
  <2> QED
    BY <1>16, <2>1 DEF Right
<1> QED
  BY <1>10, <1>12, <1>13, <1>14, <1>15, <1>16

(* The scene as Scene::Scene leaves it satisfies the invariant.            *)
LEMMA InitHolds == Init => Inv
<1> SUFFICES ASSUME Init PROVE Inv
  OBVIOUS
<1>1. /\ pawn = [s \in Session |-> None]
      /\ cursor = {} /\ again = {} /\ beneath = {}
      /\ stage = [s \in Session |-> "out"]
  BY DEF Init
<1>2. PICK record \in [Place -> Char] : space = Added(Empty(record), Column)
  BY DEF Init
<1>3. PICK w : w = Empty(record)
  OBVIOUS
<1>4. /\ w \in World /\ Stacked(w) /\ Shown(w) /\ There(w) = {}
      /\ \A a \in Actor : w.face[a] = Figure
  BY <1>3, EmptyMakes
<1>5. PICK a \in Actor : a = Column
  BY DEF Actor
<1>6. PICK v : v = Added(w, a)
  OBVIOUS
<1>7. /\ v \in World /\ Stacked(v) /\ Shown(v)
      /\ There(v) = There(w) \cup {a}
      /\ Kept(v, w) /\ v.face = w.face
  BY <1>4, <1>6, AddedMakes
<1>8. v = space
  BY <1>2, <1>3, <1>5, <1>6
<1>9. ASSUME NEW s \in Session  PROVE Right(v, s, stage[s], again)
  <2>1. PICK twice : twice = again
    OBVIOUS
  <2>2. Right(w, s, "out", twice)
    BY <1>1, <1>3, <2>1, EmptyMakes
  <2>3. PICK at \in {"out", "in", "gone"} : at = "out"
    OBVIOUS
  <2>4. Right(w, s, at, again)
    BY <2>1, <2>2, <2>3
  <2>5. Right(v, s, at, again)
    BY <1>4, <1>6, <2>4, AddedMakes
  <2> QED
    BY <1>1, <2>3, <2>5
<1>10. Owned(space)
  BY <1>1 DEF Owned, In
<1>11. Dressed(space)
  BY <1>1, <1>4, <1>5, <1>7, <1>8 DEF Dressed
<1>12. Column \in There(space)
  BY <1>5, <1>7, <1>8
<1> QED
  BY <1>1, <1>7, <1>8, <1>9, <1>10, <1>11, <1>12 DEF Inv

(* Every step of the scene keeps the invariant.                            *)
LEMMA StepKeeps == Inv /\ [Next]_vars => Inv'
<1> SUFFICES ASSUME Inv, [Next]_vars PROVE Inv'
  OBVIOUS
<1>1. CASE UNCHANGED vars
  BY <1>1 DEF vars, Inv, Owned, Dressed, In
<1>2. ASSUME NEW s \in Session, NEW p \in Place, Enter(s, p)  PROVE Inv'
  BY <1>2, EnterKeeps
<1>3. ASSUME NEW s \in Session, NEW p \in Place, Walk(s, p)  PROVE Inv'
  BY <1>3, WalkKeeps
<1>4. ASSUME NEW s \in Session, Leave(s)  PROVE Inv'
  BY <1>4, LeaveKeeps
<1>5. ASSUME NEW s \in Session, Rubout(s)  PROVE Inv'
  BY <1>5, RuboutKeeps
<1>6. ASSUME NEW s \in Session, Delete(s)  PROVE Inv'
  BY <1>6, DeleteKeeps
<1>7. ASSUME NEW s \in Session, Toggle(s)  PROVE Inv'
  BY <1>7, ToggleKeeps
<1>8. ASSUME NEW s \in Session, NEW c \in Char, Type(s, c)  PROVE Inv'
  BY <1>8, TypeKeeps
<1>9. ASSUME NEW s \in Session, NEW width \in Widths, Resize(s, width)  PROVE Inv'
  BY <1>9, ResizeKeeps
<1> QED
  BY <1>1, <1>2, <1>3, <1>4, <1>5, <1>6, <1>7, <1>8, <1>9 DEF Next

(* In every state of a scene the lists, the blocks, what is drawn and      *)
(* labelled, the flags, the lists of views and the legends are what the    *)
(* actors, the record and the bounds of the views make them.               *)
THEOREM InvHolds == Spec => []Inv
<1>1. Init => Inv
  BY InitHolds
<1>2. Inv /\ [Next]_vars => Inv'
  BY StepKeeps
<1> QED
  BY <1>1, <1>2, PTL DEF Spec

(* A view is in the lists of just the blocks it meets, once, as long as    *)
(* its session is in the scene (Scene::addSpatial and removeSpatial of a   *)
(* view, SceneView::setWorldBounds).                                       *)
THEOREM ViewedHolds == Spec => []Viewed
<1>1. Inv => Viewed
  <2> SUFFICES ASSUME Inv, NEW s \in Session \ again, NEW b \in ViewBlock
               PROVE  space.views[s][b] = IF In(s) /\ \E p \in Bounds(space, s) : ViewBlockOf(p) = b
                                          THEN 1 ELSE 0
    BY DEF Viewed
  <2>1. PICK w : w = space
    OBVIOUS
  <2>2. w \in World /\ AllRight(w)
    BY <2>1, Parts
  <2>3. CASE In(s)
    <3>1. Looks(w, s)
      BY <2>2, <2>3 DEF AllRight, Right, In
    <3>2. b \in Met(w, s) <=> \E p \in Bounds(w, s) : ViewBlockOf(p) = b
      BY <2>2, InMet, MetHas
    <3> QED
      BY <2>1, <2>3, <3>1, <3>2 DEF Looks
  <2>4. CASE ~In(s)
    <3>1. Off(w, s)
      BY <2>2, <2>4 DEF AllRight, Right, In
    <3> QED
      BY <2>1, <2>4, <3>1 DEF Off
  <2> QED
    BY <2>3, <2>4
<1> QED
  BY <1>1, InvHolds, PTL

(* The legend of a session that is in the scene counts every label in its  *)
(* view (Legend::labelChanged, Legend::update).                            *)
THEOREM LegendsRight == Spec => []LegendRight
<1>1. Inv => LegendRight
  BY DEF Inv, LegendRight, Right, In, Counts
<1> QED
  BY <1>1, InvHolds, PTL

(* What is drawn, labelled and barred at a place, and the counts of the    *)
(* blocks, agree with the actors there and with the record                 *)
(* (Scene::setInBlocks, updateCollisionFlags, GenericBlock::set).          *)
THEOREM DrawnHolds == Spec => []Drawn
<1>1. Inv => Drawn
  <2> SUFFICES ASSUME Inv PROVE Drawn
    OBVIOUS
  <2>1. PICK w : w = space
    OBVIOUS
  <2>2. w \in World /\ Shown(w) /\ DressedBut(w, beneath)
    BY <2>1, Parts
  <2>3. ASSUME NEW p \in Place
        PROVE  /\ IF w.list[p] = <<>>
                  THEN w.drawn.value[p] = w.record[p] /\ w.labels.value[p] = None
                  ELSE /\ w.drawn.value[p] = w.face[Head(w.list[p])]
                       /\ w.labels.value[p] = Head(w.list[p])
               /\ w.flags.value[p] = UNION {Flags(a) : a \in ToSet(w.list[p])}
    BY <2>2 DEF Shown, Topped, Barred, FlagsOfAll
  <2>4. w.drawn \in Grids(Glyph, Blank) /\ w.labels \in Grids(Actor \cup {None}, None)
        /\ w.flags \in Grids(SUBSET {1, 2}, {})
    BY <2>2, Fields
  <2>5. w.drawn = FilledAs(w.drawn.value, Blank)
    <3>1. Blank \in Glyph
      BY DEF Glyph, Char
    <3> QED
      BY <2>4, <3>1, GridParts
  <2>6. w.labels = FilledAs(w.labels.value, None)
    <3>1. PICK S : S = Actor \cup {None}
      OBVIOUS
    <3>2. None \in S /\ w.labels \in Grids(S, None)
      BY <2>4, <3>1
    <3> QED
      BY <3>2, GridParts
  <2>7. w.flags = FilledAs(w.flags.value, {})
    <3>1. PICK S : S = SUBSET {1, 2}
      OBVIOUS
    <3>2. PICK e : e = {}
      OBVIOUS
    <3>3. e \in S /\ w.flags \in Grids(S, e)
      BY <2>4, <3>1, <3>2
    <3>4. w.flags = FilledAs(w.flags.value, e)
      BY <3>3, GridParts
    <3> QED
      BY <3>2, <3>4
  <2>8. Present = There(w)
    BY <2>1 DEF Present, There
  <2>9. \A a \in There(w) :
          /\ a \notin cursor => w.face[a] = Figure
          /\ a \in cursor \ beneath => w.face[a] = Reversed(w.record[w.at[a]])
    BY <2>2 DEF DressedBut
  <2> QED
    BY <2>1, <2>3, <2>5, <2>6, <2>7, <2>8, <2>9 DEF Drawn
<1> QED
  BY <1>1, InvHolds, PTL

(* Every actor is in one list at most, that of its position; a pawn is     *)
(* there as long as its session is; and no count of a view or a legend is  *)
(* negative.                                                               *)
THEOREM TypeHolds == Spec => []TypeOK
<1>1. Inv => TypeOK
  <2> SUFFICES ASSUME Inv PROVE TypeOK
    OBVIOUS
  <2>1. PICK w : w = space
    OBVIOUS
  <2>2. /\ w \in World /\ Stacked(w) /\ AllRight(w) /\ Column \in There(w)
        /\ cursor \subseteq There(w) /\ beneath \subseteq cursor
    BY <2>1, Parts
  <2>3. w.record \in [Place -> Char] /\ w.face \in [Actor -> Glyph] /\ w.at \in [Actor -> Place]
    BY <2>2, Fields
  <2>4. Present = There(w)
    BY <2>1 DEF Present, There
  <2>5. ASSUME NEW p \in Place
        PROVE  /\ ToSet(w.list[p]) = {a \in There(w) : w.at[a] = p}
               /\ IsInjective(w.list[p])
    <3>1. IsInjective(w.list[p]) /\ \A a \in ToSet(w.list[p]) : w.at[a] = p
      BY <2>2 DEF Stacked
    <3>2. \A a \in There(w) : w.at[a] = p => a \in ToSet(w.list[p])
      BY <2>2, ThereAt, ThereActor
    <3>3. ToSet(w.list[p]) \subseteq There(w)
      BY DEF There
    <3> QED
      BY <3>1, <3>2, <3>3
  <2>6. \A s \in Session : IF In(s) THEN pawn[s] \in There(w) ELSE pawn[s] = None
    BY <2>1, Parts
  <2>7. ASSUME NEW s \in Session
        PROVE  /\ \A b \in ViewBlock : w.views[s][b] \in Nat
               /\ \A a \in Actor : w.legend[s][a] \in Nat
    <3>1. Right(w, s, stage[s], again)
      BY <2>2 DEF AllRight
    <3>2. w.views[s] \in [ViewBlock -> Int]
      BY <2>2, Fields
    <3>3. \A b \in ViewBlock : w.views[s][b] >= 0
      BY <3>1, <3>2 DEF Right, Looks, Lingers, Off
    <3>4. Counts(w, s) \/ Countless(w, s)
      BY <3>1 DEF Right
    <3>5. \A a \in Actor : w.legend[s][a] \in Nat
      BY <3>4, CountedIs DEF Counts, Countless
    <3> QED
      BY <3>2, <3>3, <3>5
  <2> QED
    BY <2>1, <2>2, <2>3, <2>4, <2>5, <2>6, <2>7 DEF TypeOK
<1> QED
  BY <1>1, InvHolds, PTL

=============================================================================
