----------------------------- MODULE SceneSpace -----------------------------
(* A scene in memory and those who look at it (scene/Scene.cpp,            *)
(* scene/SceneView.cpp, scene/Legend.cpp, actor/Actor.cpp, actor/Pawn.cpp; *)
(* net/Session.cpp sceneMaybeResolved, leaveScene).                        *)
(*                                                                         *)
(* A scene keeps what is drawn at each place (the record's character, or   *)
(* the actor on top), the labels and collision flags of the actors there,  *)
(* and who looks at which part.  All of that is derived, and kept up to    *)
(* date piece by piece as actors come, move, change and go, the record is  *)
(* edited and views scroll.                                                *)
(*                                                                         *)
(* Here a scene is one row of places.  Its blocks, and those of the hash   *)
(* of views, are runs of places; outside the row nothing is ever set.      *)
(* Everything happens in the thread of the instance, handler by handler.   *)
EXTENDS Integers, Sequences, SequencesExt, FiniteSetsExt

CONSTANTS
    Session,
    Pawn,        \* bound: the pawns there can be, 1 .. n
    Row,         \* bound: the number of places
    BlockSize,   \* Scene::Block::Size
    ViewSize,    \* 1 << LgViewBlockSize
    Widths,      \* the widths a view may have
    ScrollWidth, \* scrollWidth in the scene's record
    ColumnAt,    \* where the column stands
    None

Place == 1 .. Row
Column == 0
Actor == {Column} \cup Pawn

ASSUME PawnAssumption == Pawn \subseteq Nat \ {0} /\ None \notin Actor
ASSUME SizeAssumption ==
    /\ {Row, BlockSize, ViewSize, ScrollWidth} \subseteq Nat \ {0}
    /\ Widths \subseteq Nat \ {0} /\ \E w \in Widths : \A v \in Widths : v <= w
    /\ ColumnAt \in Place

BlockOf(p) == p \div BlockSize
ViewBlockOf(p) == p \div ViewSize

\* What a view can overlap.
Wide == Max(Widths)
ViewBlock == ViewBlockOf(-2 * Wide) .. ViewBlockOf(Row + 2 * Wide)

\* Characters of a record; what an actor looks like: a figure, or, for a pawn that is
\* a cursor, the character it stands on, reversed (REVERSE_FLAG).
Blank == "blank"
Char == {Blank, "ink"}
Reversed(c) == "reversed " \o c
Figure == "figure"
Glyph == Char \cup {Reversed(c) : c \in Char} \cup {Figure}

\* collisionFlags and collisionMask.
Flags(a) == IF a = Column THEN {1} ELSE {2}
Mask(a) == IF a = Column THEN {2} ELSE {1}

VARIABLES
    space,      \* the record, what is derived from it and from the actors, and who looks on:
                \*   record[p]: the characters of _record
                \*   list[p]: the actors at p, the one on top first
                \*   at[a], face[a]: _position and character of actor a
                \*   drawn, labels, flags: the blocks of characters, label
                \*     pointers (by actor) and collision flags
                \*   views[s][b]: how often the view of s is in the list of b
                \*   left[s], width[s]: _worldBounds of it
                \*   legend[s]: the counts in the legend of s
    pawn,       \* pawn[s]: _pawn of the session
    cursor,     \* the pawns that are cursors
    stage,      \* stage[s]: out (in no scene yet), in, or gone
    again,      \* history: sessions that entered while they were in
    beneath     \* history: cursors that lay under another actor when the place
                \* was edited

vars == <<space, pawn, cursor, stage, again, beneath>>

(***************************************************************************)
(* Blocks.                                                                 *)
(***************************************************************************)

\* The places of the block of p are empty when it has been removed from its hash.
Put(g, p, v, empty) ==
    LET filled == g.filled[BlockOf(p)]
                  + (IF g.value[p] = empty THEN 1 ELSE 0) - (IF v = empty THEN 1 ELSE 0)
    IN [value |-> [q \in Place |->
            IF BlockOf(q) = BlockOf(p) /\ filled = 0 THEN empty
            ELSE IF q = p THEN v ELSE g.value[q]],
        filled |-> [g.filled EXCEPT ![BlockOf(p)] = filled]]

\* GenericBlock::setFlags.
PutFlags(g, p, f) ==
    [value |-> [g.value EXCEPT ![p] = @ \cup f],
     filled |-> [g.filled EXCEPT ![BlockOf(p)] =
                    @ + (IF g.value[p] = {} /\ f # {} THEN 1 ELSE 0)]]

FilledAs(value, empty) ==
    [value |-> value,
     filled |-> [b \in {BlockOf(p) : p \in Place} |->
                    Cardinality({p \in Place : BlockOf(p) = b /\ value[p] # empty})]]

(***************************************************************************)
(* What is drawn.                                                          *)
(***************************************************************************)

Bounds(w, s) == w.left[s] .. w.left[s] + w.width[s] - 1

(* Mutant: the label that comes in is not counted.                         *)
RelabelledLess(counts, old, new) ==
    [a \in Actor |-> counts[a] - (IF a = old THEN 1 ELSE 0)]

\* Legend::labelChanged: one label less, another one more.
Relabelled(counts, old, new) ==
    [a \in Actor |-> counts[a] - (IF a = old THEN 1 ELSE 0) + (IF a = new THEN 1 ELSE 0)]

\* Scene::setInBlocks: the views that are listed in the block and contain the place
\* have their legends changed.  After a second entry a legend is connected twice and
\* its counts are not followed any more.
SetInBlocks(w, p, glyph, label) ==
    [w EXCEPT
        !.drawn = Put(@, p, glyph, Blank),
        !.labels = Put(@, p, label, None),
        !.legend = [s \in Session |->
            IF s \notin again /\ w.views[s][ViewBlockOf(p)] > 0 /\ p \in Bounds(w, s)
            THEN Relabelled(@[s], w.labels.value[p], label)
            ELSE @[s]]]

\* Scene::addSpatial, for an actor, which goes on top.
Added(w, a) ==
    LET p == w.at[a] IN
    SetInBlocks([w EXCEPT !.flags = PutFlags(@, p, Flags(a)), !.list[p] = <<a>> \o @],
                p, w.face[a], a)

(* Mutant: the flags of the place go with the actor, whoever else is there. *)
TakenWithFlags(w, a) ==
    LET p == w.at[a]
        rest == RemoveFirst(w.list[p], a)
        v == [w EXCEPT !.list[p] = rest, !.flags = Put(@, p, {}, {})]
    IN
    IF Head(w.list[p]) # a THEN v
    ELSE IF rest = <<>> THEN SetInBlocks(v, p, w.record[p], None)
    ELSE SetInBlocks(v, p, w.face[Head(rest)], Head(rest))

\* Scene::removeSpatial, for an actor, and updateCollisionFlags.
Taken(w, a) ==
    LET p == w.at[a]
        rest == RemoveFirst(w.list[p], a)
        v == [w EXCEPT !.list[p] = rest,
                       !.flags = Put(@, p, UNION {Flags(x) : x \in ToSet(rest)}, {})]
    IN
    IF Head(w.list[p]) # a THEN v
    ELSE IF rest = <<>> THEN SetInBlocks(v, p, w.record[p], None)
    ELSE SetInBlocks(v, p, w.face[Head(rest)], Head(rest))

\* Actor::setCharacter, Scene::characterLabelChanged.
Faced(w, a, glyph) ==
    LET v == [w EXCEPT !.face[a] = glyph] IN
    IF Head(w.list[w.at[a]]) = a THEN SetInBlocks(v, w.at[a], glyph, a) ELSE v

(***************************************************************************)
(* Views.                                                                  *)
(***************************************************************************)

Listed(w, s, n) ==
    [w EXCEPT !.views[s] = [b \in ViewBlock |->
        @[b] + (IF b \in ViewBlockOf(w.left[s]) .. ViewBlockOf(w.left[s] + w.width[s] - 1)
                THEN n ELSE 0)]]

\* Scene::addSpatial and removeSpatial, for a view; removeOne takes one away if there
\* is one.
Enlisted(w, s) == Listed(w, s, 1)
Delisted(w, s) == Listed(w, s, -1)

(* Mutant: the view is taken out of its blocks when it has moved already.  *)
ReboundLate(w, s, left, width) ==
    Enlisted(Delisted([w EXCEPT !.left[s] = left, !.width[s] = width], s), s)

\* SceneView::setWorldBounds, the lists.
Rebound(w, s, left, width) ==
    Enlisted([Delisted(w, s) EXCEPT !.left[s] = left, !.width[s] = width], s)

\* The labels in some of the places.
Counted(w, places) ==
    [a \in Actor |-> Cardinality({p \in places \cap Place : w.labels.value[p] = a})]

(* Mutant: what comes into sight is added, what goes out of it stays.      *)
UpdatedGrowing(w, s, old) ==
    LET new == Bounds(w, s)
        more == Counted(w, new \ old)
    IN IF old \cap new = {} THEN Counted(w, new)
       ELSE [a \in Actor |-> w.legend[s][a] + more[a]]

\* Legend::update: the old bounds without the new ones are taken away, the new without
\* the old added; bounds that do not meet start anew.
Updated(w, s, old) ==
    LET new == Bounds(w, s)
        more == Counted(w, new \ old)
        less == Counted(w, old \ new)
    IN IF old \cap new = {} THEN Counted(w, new)
       ELSE [a \in Actor |-> w.legend[s][a] - less[a] + more[a]]

\* SceneView::setWorldBounds, in a scene.
Scrolled(w, s, left, width) ==
    LET v == Rebound(w, s, left, width) IN
    IF left = w.left[s] /\ width = w.width[s] THEN w
    ELSE IF s \in again THEN v
    ELSE [v EXCEPT !.legend[s] = Updated(v, s, Bounds(w, s))]

\* getDelta.
Delta(p, first, last) == IF p < first THEN p - first ELSE IF p > last THEN p - last ELSE 0

\* SceneView::maybeScroll: the pawn is kept within scrollWidth of the middle.
Followed(w, s) ==
    LET first == w.left[s] + (w.width[s] \div 2) - (ScrollWidth \div 2)
        delta == Delta(w.at[pawn[s]], first, first + ScrollWidth - 1)
    IN Scrolled(w, s, w.left[s] + delta, w.width[s])

(***************************************************************************)
(* Pawns.                                                                  *)
(***************************************************************************)

\* Actor::setPosition for the pawn of s, with the slots of positionChanged:
\* SceneView::maybeScroll, and Pawn::updateCharacter for a cursor.
Moved(w, s, p) ==
    LET a == pawn[s]
        v == Followed(Added([Taken(w, a) EXCEPT !.at[a] = p], a), s)
    IN IF w.at[a] = p THEN w
       ELSE IF a \in cursor THEN Faced(v, a, Reversed(w.record[p])) ELSE v

\* Scene::set, where somebody is: the record, and what is on top.
Written(w, p, c) ==
    LET v == [w EXCEPT !.record[p] = c]
        top == Head(w.list[p])
    IN IF top \in cursor THEN Faced(v, top, Reversed(c)) ELSE v

\* The cursors under another actor, who do not hear of it.
Covered(w, p) == {a \in cursor : w.at[a] = p /\ Head(w.list[p]) # a}


Empty(record) ==
    [record |-> record,
     list |-> [p \in Place |-> <<>>],
     at |-> [a \in Actor |-> ColumnAt],
     face |-> [a \in Actor |-> Figure],
     drawn |-> FilledAs(record, Blank),
     labels |-> FilledAs([p \in Place |-> None], None),
     flags |-> FilledAs([p \in Place |-> {}], {}),
     views |-> [s \in Session |-> [b \in ViewBlock |-> 0]],
     left |-> [s \in Session |-> 0],
     width |-> [s \in Session |-> Wide],
     legend |-> [s \in Session |-> [a \in Actor |-> 0]]]

\* Scene::Scene.
Init ==
    /\ pawn = [s \in Session |-> None]
    /\ cursor = {} /\ again = {} /\ beneath = {}
    /\ stage = [s \in Session |-> "out"]
    /\ \E record \in [Place -> Char] : space = Added(Empty(record), Column)

(***************************************************************************)
(* Coming and going.                                                       *)
(***************************************************************************)

\* The actors that are there.
Present == UNION {ToSet(space.list[p]) : p \in Place}

In(s) == stage[s] = "in"
Here(s) == space.at[pawn[s]]

\* Scene::addSession puts a new pawn in, SceneView::handleDidEnterScene lists the view and
\* centres it on the pawn.
Arrived(w, s, a, p) ==
    LET v == Enlisted(Added([w EXCEPT !.at[a] = p, !.face[a] = Figure], a), s)
    IN Rebound(v, s, p - (v.width[s] \div 2), v.width[s])

\* Session::sceneMaybeResolved, and the slots of didEnterScene; the legend starts anew.  A
\* session in a scene enters the next without leaving: here the same one, where it leaves
\* its pawn behind.
Enter(s, p) ==
    /\ stage[s] \in {"out", "in"}
    /\ Pawn \ Present # {}
    /\ LET a == Min(Pawn \ Present)
           c == Arrived(space, s, a, p)
           counts == IF In(s) THEN [x \in Actor |-> 0] ELSE Counted(c, Bounds(c, s))
       IN /\ space' = [c EXCEPT !.legend[s] = counts]
          /\ pawn' = [pawn EXCEPT ![s] = a]
    /\ stage' = [stage EXCEPT ![s] = "in"]
    /\ again' = IF In(s) THEN again \cup {s} ELSE again
    /\ UNCHANGED <<cursor, beneath>>

\* Session::close: leaveScene, with SceneView::handleWillLeaveScene and the end of the
\* pawn (Scene::removeSession).  Window, view and legend go with the session.
Leave(s) ==
    /\ In(s)
    /\ space' = [Taken(Delisted(space, s), pawn[s]) EXCEPT !.legend[s] = [x \in Actor |-> 0]]
    /\ pawn' = [pawn EXCEPT ![s] = None]
    /\ cursor' = cursor \ {pawn[s]} /\ beneath' = beneath \ {pawn[s]}
    /\ stage' = [stage EXCEPT ![s] = "gone"]
    /\ UNCHANGED again

\* SceneView::invalidate, when the window has another size.
Resize(s, width) ==
    /\ stage[s] # "gone" /\ width # space.width[s]
    /\ space' = IF In(s) THEN Scrolled(space, s, space.left[s], width)
                ELSE [space EXCEPT !.width[s] = width]
    /\ UNCHANGED <<pawn, cursor, stage, again, beneath>>

(***************************************************************************)
(* Keys (Pawn::keyPressEvent) and the cursor mode.                         *)
(***************************************************************************)

\* Actor::move, for an arrow key.
Walk(s, p) ==
    /\ In(s) /\ p \in {Here(s) - 1, Here(s) + 1}
    /\ space.flags.value[p] \cap Mask(pawn[s]) = {}
    /\ space' = Moved(space, s, p)
    /\ beneath' = beneath \ {pawn[s]}
    /\ UNCHANGED <<pawn, cursor, stage, again>>

\* A printable character: it is written, and the cursor steps on over whatever is there.
Type(s, c) ==
    /\ In(s) /\ pawn[s] \in cursor
    /\ Here(s) + 1 \in Place
    /\ space' = Moved(Written(space, Here(s), c), s, Here(s) + 1)
    /\ beneath' = (beneath \cup Covered(space, Here(s))) \ {pawn[s]}
    /\ UNCHANGED <<pawn, cursor, stage, again>>

\* Backspace.
Rubout(s) ==
    /\ In(s) /\ pawn[s] \in cursor
    /\ Here(s) - 1 \in Place
    /\ LET v == Moved(space, s, Here(s) - 1) IN
       /\ space' = Written(v, Here(s) - 1, Blank)
       /\ beneath' = (beneath \ {pawn[s]}) \cup Covered(v, Here(s) - 1)
    /\ UNCHANGED <<pawn, cursor, stage, again>>

Delete(s) ==
    /\ In(s) /\ pawn[s] \in cursor
    /\ space' = Written(space, Here(s), Blank)
    /\ beneath' = beneath \cup Covered(space, Here(s))
    /\ UNCHANGED <<pawn, cursor, stage, again>>

\* Pawn::setCursor, updateCharacter.
Toggle(s) ==
    /\ In(s)
    /\ LET a == pawn[s]
           set == a \notin cursor
       IN /\ cursor' = IF set THEN cursor \cup {a} ELSE cursor \ {a}
          /\ space' = Faced(space, a, IF set THEN Reversed(space.record[Here(s)]) ELSE Figure)
          /\ beneath' = beneath \ {a}
    /\ UNCHANGED <<pawn, stage, again>>

Next ==
    \E s \in Session :
        \/ \E p \in Place : Enter(s, p) \/ Walk(s, p)
        \/ Leave(s) \/ Rubout(s) \/ Delete(s) \/ Toggle(s)
        \/ \E c \in Char : Type(s, c)
        \/ \E width \in Widths : Resize(s, width)

Spec == Init /\ [][Next]_vars

(***************************************************************************)
(* Properties.                                                             *)
(***************************************************************************)

(* Every actor is in one list at most, that of its position; a pawn is     *)
(* there as long as its session is; and no count is negative.              *)
TypeOK ==
    /\ space.record \in [Place -> Char]
    /\ space.face \in [Actor -> Glyph] /\ space.at \in [Actor -> Place]
    /\ \A p \in Place : /\ ToSet(space.list[p]) = {a \in Present : space.at[a] = p}
                        /\ IsInjective(space.list[p])
    /\ Column \in Present
    /\ \A s \in Session : IF In(s) THEN pawn[s] \in Present ELSE pawn[s] = None
    /\ cursor \subseteq Present /\ beneath \subseteq cursor
    /\ \A s \in Session : /\ \A b \in ViewBlock : space.views[s][b] \in Nat
                          /\ \A a \in Actor : space.legend[s][a] \in Nat

(* What is drawn and labelled at a place is what its top actor shows, or   *)
(* the record; the flags are those of all actors there; and the blocks     *)
(* count them.  A cursor shows the character of the record where it        *)
(* stands, unless another actor was on top when that was edited.           *)
Drawn ==
    /\ \A p \in Place :
        LET list == space.list[p] IN
        /\ IF list = <<>>
           THEN space.drawn.value[p] = space.record[p] /\ space.labels.value[p] = None
           ELSE /\ space.drawn.value[p] = space.face[Head(list)]
                /\ space.labels.value[p] = Head(list)
        /\ space.flags.value[p] = UNION {Flags(a) : a \in ToSet(list)}
    /\ space.drawn = FilledAs(space.drawn.value, Blank)
    /\ space.labels = FilledAs(space.labels.value, None)
    /\ space.flags = FilledAs(space.flags.value, {})
    /\ \A a \in Present :
        /\ a \notin cursor => space.face[a] = Figure
        /\ a \in cursor \ beneath => space.face[a] = Reversed(space.record[space.at[a]])

(* A view is in the lists of just the blocks it meets, once, as long as    *)
(* its session is in the scene: it is told of all it shows, and nobody     *)
(* tells a view that is no more.  (A session that entered twice stays in   *)
(* lists, see README.)                                                     *)
Viewed ==
    \A s \in Session \ again, b \in ViewBlock :
        space.views[s][b] = IF In(s) /\ \E p \in Bounds(space, s) : ViewBlockOf(p) = b
                            THEN 1 ELSE 0

(* The legend of a session counts every label in its view, however the     *)
(* labels and the view came there.                                         *)
LegendRight ==
    \A s \in Session \ again :
        In(s) => space.legend[s] = Counted(space, Bounds(space, s))

=============================================================================
