----------------------------- MODULE ScreenTree -----------------------------
(* The components of a session's windows, and how a change in one reaches  *)
(* its window: what is to be painted again, what is to be laid out again,  *)
(* and the one synchronisation posted for both (ui/Component.cpp,          *)
(* ui/Window.cpp).                                                         *)
(*                                                                         *)
(* Everything a session holds is one record, u below; an operation is an   *)
(* operator from it to what it is afterwards.  u.comp maps the id of a     *)
(* component, <<window, number>>, to its fields; number 0 is the window    *)
(* itself.  u.windows is the session's list, in order of creation.         *)
EXTENDS ScreenGeometry

None == <<0, 0>>

\* One change after another, the second in terms of what the first left.
Then(u, F(_)) == F(u)
WindowOf(id) == <<id[1], 0>>

\* A new component, with the fields all kinds have.
Fresh(kind) == [
    kind |-> kind, parent |-> None, children |-> << >>,
    bounds |-> NoBox, margins |-> Margins(0, 0, 0, 0), border |-> NoBorder,
    back |-> Nothing, layout |-> [way |-> "none"], fixed |-> FALSE, preferred |-> <<-1, -1>>,
    valid |-> FALSE, focused |-> FALSE, enabled |-> TRUE, visible |-> TRUE,
    slots |-> [pressed |-> << >>, changed |-> << >>, entered |-> << >>,
               full |-> << >>, selected |-> << >>]]

Bordered(c, border) == [c EXCEPT !.border = border, !.margins = BorderMargins(border)]

\* Window::Window: its sync is posted at once.
FreshWindow(class, layer, modal, escapes) ==
    [Fresh("window") EXCEPT !.back = Blank] @@
    [class |-> class, layer |-> layer, modal |-> modal, escapes |-> escapes,
     release |-> "none", focus |-> None, active |-> FALSE, enqueued |-> TRUE,
     added |-> FALSE, upToDate |-> FALSE, dirty |-> {}, secret |-> FALSE,
     createMode |-> FALSE, blocked |-> FALSE]

\* A window and what it is made of: nodes lists the components with the number
\* of the one each is in, children after their parents.
In(number, component) == [in |-> number, is |-> component]
Parts(n, window, nodes) ==
    LET inside(p) == SelectSeq([i \in DOMAIN nodes |-> i], LAMBDA i : nodes[i].in = p)
        part(i) == IF i = 0 THEN window ELSE [nodes[i].is EXCEPT !.parent = <<n, nodes[i].in>>]
    IN  [id \in {<<n, i>> : i \in 0 .. Len(nodes)} |->
            [part(id[2]) EXCEPT !.children =
                [k \in DOMAIN inside(id[2]) |-> <<n, inside(id[2])[k]>>]]]

\* acceptsFocus of each kind; a Menu does when it closes with its key.
AcceptsFocus(c) ==
    CASE c.kind \in {"button", "check", "field", "list"} -> c.enabled /\ c.visible
      [] c.kind = "window" -> c.release # "none"
      [] OTHER -> FALSE

(***************************************************************************)
(* What is to be painted.                                                  *)
(***************************************************************************)
MaybeEnqueueSync(u, w) ==
    IF u.comp[w].enqueued THEN u
    ELSE [u EXCEPT !.comp[w].enqueued = TRUE,
                   !.posted = Append(@, [what |-> "sync", window |-> w])]

NoteNeedsUpdate(u, w) == MaybeEnqueueSync([u EXCEPT !.comp[w].upToDate = FALSE], w)

\* Component::dirty goes up in the coordinates of each parent; Window::dirty
\* collects.
RECURSIVE Dirty(_, _, _)
Dirty(u, id, b) ==
    LET c == u.comp[id] IN
    IF c.kind = "window"
    THEN MaybeEnqueueSync([u EXCEPT !.comp[id].dirty = @ \cup Cells(b)], id)
    ELSE Dirty(u, c.parent, Shift(b, c.bounds.x, c.bounds.y))

\* Component::dirty(); ScrollingList's also forgets a scroll not yet painted.
DirtyAll(u, id) ==
    Dirty(IF u.comp[id].kind = "list" THEN [u EXCEPT !.comp[id].scroll = 0] ELSE u,
          id, Whole(u.comp[id].bounds))

\* What was to be painted moves along; what scrolls in is to be painted.
ScrolledDirty(dirty, all, overlap, dy) ==
    ((dirty \cup all) \ overlap) \cup {d \in overlap : <<d[1], d[2] - dy>> \in dirty}
RECURSIVE ScrollDirty(_, _, _, _)
ScrollDirty(u, id, b, dy) ==
    LET c == u.comp[id] IN
    IF c.kind = "window"
    THEN MaybeEnqueueSync([u EXCEPT !.comp[id].dirty =
            ScrolledDirty(@, Cells(b), Cells(Meet(b, Shift(b, 0, dy))), dy)], id)
    ELSE ScrollDirty(u, c.parent, Shift(b, c.bounds.x, c.bounds.y), dy)

(***************************************************************************)
(* What is to be laid out.                                                 *)
(***************************************************************************)
\* Label::setTextFlags: the text and the lines it was broken into.
HasText(c) == c.kind \in {"label", "status", "button", "check"}
SetTextFlag(u, id, flag, on) ==
    DirtyAll([u EXCEPT !.comp[id].text = Flagged(flag, on, @),
                       !.comp[id].line = Flagged(flag, on, @)], id)

\* invalidate: a valid component tells its parent; a window always asks for a
\* sync; a label also puts its flags right.
RECURSIVE Invalidate(_, _)
Invalidate(u, id) ==
    LET c == u.comp[id]
        v == [u EXCEPT !.comp[id].valid = FALSE]
    IN  IF c.kind = "window" THEN MaybeEnqueueSync(v, id)
        ELSE Then(IF c.valid THEN Invalidate(v, c.parent) ELSE u, LAMBDA told :
                  IF HasText(c) THEN SetTextFlag(told, id, DimFlag, ~c.enabled) ELSE told)

InvalidateParent(u, id) ==
    IF u.comp[id].kind = "window" THEN u ELSE Invalidate(u, u.comp[id].parent)

SetBounds(u, id, b) ==
    IF u.comp[id].bounds = b THEN u
    ELSE Then(DirtyAll(u, id), LAMBDA before :
         Then(Invalidate(DirtyAll([before EXCEPT !.comp[id].bounds = b], id), id), LAMBDA told :
              IF u.comp[id].kind = "window" THEN NoteNeedsUpdate(told, id) ELSE told))

SetBorder(u, id, border) ==
    DirtyAll(Invalidate([u EXCEPT !.comp[id] = Bordered(@, border)], id), id)

\* Component::setVisible, of a component that is not a window.
SetShown(u, id, visible) ==
    IF u.comp[id].visible = visible THEN u
    ELSE InvalidateParent([u EXCEPT !.comp[id].visible = visible], id)

\* setEnabled: a label, and what is made of one, shows it by its flags.
SetEnabled(u, id, enabled) ==
    LET v == [u EXCEPT !.comp[id].enabled = enabled] IN
    IF u.comp[id].enabled = enabled THEN u
    ELSE IF HasText(u.comp[id]) THEN SetTextFlag(v, id, DimFlag, ~enabled)
    ELSE DirtyAll(v, id)

\* Container::addChild and removeChildAt(0).
AddChild(u, id, number, child) ==
    LET v == [u EXCEPT !.comp = (<<id[1], number>> :> [child EXCEPT !.parent = id]) @@ @,
                       !.comp[id].children = Append(@, <<id[1], number>>)]
    IN  Invalidate(Dirty(v, id, child.bounds), id)
RemoveOldest(u, id) ==
    LET first == Head(u.comp[id].children) IN
    Then(Dirty([u EXCEPT !.comp[id].children = Tail(@)], id, u.comp[first].bounds), LAMBDA v :
         Invalidate([v EXCEPT !.comp = [d \in DOMAIN @ \ {first} |-> @[d]],
                              !.moused = IF @ = first THEN None ELSE @], id))

RECURSIVE AbsolutePos(_, _)
AbsolutePos(u, id) ==
    LET c == u.comp[id] IN
    IF c.kind = "window" THEN <<c.bounds.x, c.bounds.y>>
    ELSE LET above == AbsolutePos(u, c.parent)
         IN  <<above[1] + c.bounds.x, above[2] + c.bounds.y>>

\* What is left to be called once the widget is done with the event: the slots of
\* a signal, or what an event ends with.
Call(u, id, slot) == [u EXCEPT !.calls = Append(@, <<id, slot>>)]
Emit(u, id, signal) ==
    LET slots == u.comp[id].slots[signal] IN
    [u EXCEPT !.calls = @ \o [i \in DOMAIN slots |-> <<id, slots[i]>>]]

=============================================================================
