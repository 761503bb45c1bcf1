--------------------------- MODULE ScreenWindows ---------------------------
(* The windows of a session: which of them is active, where the focus is,  *)
(* what becomes of both as windows come and go, and what is sent to the    *)
(* client for a window (ui/Window.cpp, ui/Component.cpp transferFocus,     *)
(* net/Session.cpp, and how net/Connection.cpp sends it).                  *)
EXTENDS ScreenLayouts

(***************************************************************************)
(* What the connection is told.  What is said between startCompound and    *)
(* commitCompound is one message, all else one each; a message is sealed   *)
(* when encryption is on.                                                  *)
(***************************************************************************)
Send(u, said) ==
    IF ~u.connected \/ said = << >> THEN u
    ELSE [u EXCEPT !.out = Append(@, [sealed |-> u.crypto, said |-> said])]
ToggleCrypto(u) ==
    [Send(u, <<[say |-> "crypto"]>>) EXCEPT !.crypto = ~@]

IncrementCryptoCount(u) ==
    LET v == [u EXCEPT !.cryptoCount = @ + 1] IN
    IF u.cryptoCount = 0 /\ u.connected THEN ToggleCrypto(v) ELSE v
DecrementCryptoCount(u) ==
    LET v == [u EXCEPT !.cryptoCount = @ - 1] IN
    IF u.cryptoCount = 1 /\ u.connected THEN ToggleCrypto(v) ELSE v

(***************************************************************************)
(* The active window.                                                      *)
(***************************************************************************)
HighestWindowLayer(u) ==
    FoldLeft(LAMBDA n, w : Larger(n, u.comp[w].layer), 0, u.windows)

\* A modal window above, or as high and younger.
BelowModal(u, w) ==
    LET at == SelectInSeq(u.windows, LAMBDA x : x = w) IN
    \E i \in DOMAIN u.windows \ {at} :
        LET o == u.comp[u.windows[i]] IN
        /\ o.visible /\ o.modal
        /\ o.layer > u.comp[w].layer \/ (o.layer = u.comp[w].layer /\ i > at)

MayBeActive(c) == c.visible /\ (c.modal \/ c.focus # None)

SetActive(u, w, active) ==
    LET v == [u EXCEPT !.comp[w].active = active]
        focus == u.comp[w].focus
    IN  IF u.comp[w].active = active THEN u
        ELSE IF focus = None THEN v
        ELSE IF active THEN FocusIn(v, focus) ELSE FocusOut(v, focus)

SetActiveWindow(u, w) ==
    IF u.active = w THEN u
    ELSE Then(IF u.active = None THEN u ELSE SetActive(u, u.active, FALSE), LAMBDA v :
              IF w = None THEN [v EXCEPT !.active = None]
              ELSE SetActive([v EXCEPT !.active = w], w, TRUE))

\* The one there is stays as long as it may; else the highest, the youngest of
\* several.
UpdateActiveWindow(u) ==
    LET higher(h, w) ==
            IF MayBeActive(u.comp[w]) /\ (h = None \/ u.comp[w].layer >= u.comp[h].layer)
            THEN w ELSE h
    IN  IF u.active # None /\ MayBeActive(u.comp[u.active]) /\ ~BelowModal(u, u.active)
        THEN u ELSE SetActiveWindow(u, FoldLeft(higher, None, u.windows))

(***************************************************************************)
(* The focus.                                                              *)
(***************************************************************************)
SetFocus(u, w, focus) ==
    LET c == u.comp[w] IN
    IF c.focus = focus THEN u
    ELSE Then(IF c.focus # None /\ c.active THEN FocusOut(u, c.focus) ELSE u, LAMBDA v :
         Then([v EXCEPT !.comp[w].focus = focus], LAMBDA x :
         Then(IF focus # None /\ c.active THEN FocusIn(x, focus) ELSE x, LAMBDA y :
              IF (c.focus = None) # (focus = None) THEN UpdateActiveWindow(y) ELSE y)))

RequestFocus(u, id) ==
    LET w == WindowOf(id) IN
    Then(SetFocus(u, w, id), LAMBDA v :
         IF v.comp[w].visible /\ w # v.active /\ ~BelowModal(v, w)
         THEN SetActiveWindow(v, w) ELSE v)

\* transferFocus, of a component and of a container: from the child given to the
\* next one that takes the focus, into containers and, at the end, out of them;
\* a window begins again.  Nobody may take it: None.
Way(direction) == IF direction \in {"Right", "Down", "Forward"} THEN "Forward" ELSE "Backward"
InWay(c, from, way) ==
    LET at == SelectInSeq(c.children, LAMBDA d : d = from) IN
    CASE way = "Forward" -> SubSeq(c.children, at + 1, Len(c.children))
      [] way = "Backward" /\ from = None -> Reverse(c.children)
      [] way = "Backward" /\ from # None -> Reverse(SubSeq(c.children, 1, at - 1))

RECURSIVE TransferTo(_, _, _, _)
TransferTo(u, id, from, direction) ==
    LET c == u.comp[id]
        way == Way(direction)
        try(found, d) == IF found # None THEN found ELSE TransferTo(u, d, None, way)
    IN  IF c.kind \notin {"box", "window"}
        THEN IF from = id THEN TransferTo(u, c.parent, id, direction)
             ELSE IF AcceptsFocus(c) THEN id ELSE None
        ELSE IF ~(c.enabled /\ c.visible) THEN None
        ELSE Then(FoldLeft(try, None, InWay(c, from, way)), LAMBDA found :
                  IF found # None \/ from = None THEN found
                  ELSE IF c.kind = "window" THEN TransferTo(u, id, None, way)
                  ELSE TransferTo(u, c.parent, id, way))
MoveFocus(u, w, to) == IF to = None THEN u ELSE SetFocus(u, w, to)
TransferFocus(u, id, direction) ==
    MoveFocus(u, WindowOf(id), TransferTo(u, id, id, direction))

(***************************************************************************)
(* Windows come, go, hide and show.                                        *)
(***************************************************************************)
\* Window::Window and Session::windowCreated; parts are its components.
CreateWindow(u, parts) ==
    LET w == CHOOSE id \in DOMAIN parts : id[2] = 0
        v == [u EXCEPT !.comp = parts @@ @, !.windows = Append(@, w), !.next = @ + 1,
                       !.posted = Append(@, [what |-> "sync", window |-> w])]
    IN  IF parts[w].modal THEN UpdateActiveWindow(v) ELSE v

DeleteLater(u, w) == [u EXCEPT !.posted = Append(@, [what |-> "delete", window |-> w])]

\* ~EncryptedWindow, ~Window and Session::windowDestroyed; what was posted to
\* it is dropped, and nothing of it is under the mouse any more.
DestroyWindow(u, w) ==
    Then(IF u.comp[w].secret THEN DecrementCryptoCount(u) ELSE u, LAMBDA v :
    Then([v EXCEPT !.windows = SelectSeq(@, LAMBDA x : x # w),
                   !.active = IF @ = w THEN None ELSE @], LAMBDA gone :
    Then(IF u.active = w THEN UpdateActiveWindow(gone) ELSE gone, LAMBDA next :
    Then(IF u.comp[w].added THEN Send(next, <<[say |-> "remove", id |-> w]>>) ELSE next,
         LAMBDA told :
         [told EXCEPT !.comp = [d \in {x \in DOMAIN @ : WindowOf(x) # w} |-> @[d]],
                      !.posted = SelectSeq(@, LAMBDA p : p.window # w),
                      !.moused = IF WindowOf(@) = w THEN None ELSE @]))))

\* Mutant: the window that hides stays the active one.
HidesActive(u, w, visible) ==
    Then(MaybeEnqueueSync([u EXCEPT !.comp[w].visible = visible], w), LAMBDA v :
         IF u.comp[w].visible = visible THEN u
         ELSE IF visible THEN DirtyAll(v, w) ELSE v)
SetWindowVisible(u, w, visible) ==
    Then(UpdateActiveWindow(MaybeEnqueueSync([u EXCEPT !.comp[w].visible = visible], w)),
         LAMBDA v : IF u.comp[w].visible = visible THEN u
                    ELSE IF visible THEN DirtyAll(v, w) ELSE v)

MaybeResend(u, w) ==
    LET v == [u EXCEPT !.comp[w].added = FALSE] IN
    IF v.comp[w].visible THEN DirtyAll(NoteNeedsUpdate(v, w), w) ELSE v

(***************************************************************************)
(* Window::sync.                                                           *)
(***************************************************************************)
\* The focus is put right first, as that can invalidate.
ValidateWindow(u, w) ==
    LET c == u.comp[w]
        to == IF c.focus # None /\ AcceptsFocus(u.comp[c.focus]) THEN c.focus
              ELSE TransferTo(u, IF c.focus = None THEN w ELSE c.focus, c.focus, "Forward")
    IN  IF ~c.visible \/ c.valid \/ IsEmpty(c.bounds) THEN u
        ELSE Then(ValidateContainer(SetFocus(u, w, to), w), LAMBDA v :
                  [v EXCEPT !.comp[w].valid = TRUE])

\* Where a component is in its window.
RECURSIVE BoxInWindow(_, _)
BoxInWindow(u, id) ==
    LET c == u.comp[id]
        above == BoxInWindow(u, c.parent)
    IN  IF c.kind = "window" THEN Whole(c.bounds) ELSE Shift(c.bounds, above.x, above.y)

\* A list that has scrolled, and is to be painted, has the client move what it
\* shows.
ScrolledLists(u, w) ==
    {id \in DOMAIN u.comp : /\ u.comp[id].kind = "list" /\ WindowOf(id) = w
                            /\ u.comp[id].visible /\ u.comp[id].scroll # 0
                            /\ Cells(BoxInWindow(u, id)) \cap u.comp[w].dirty # {}}
Move(w, inner, scroll, fill) ==
    LET to == Meet(inner, Shift(inner, 0, scroll))
    IN  [say |-> "move", id |-> w, from |-> Shift(to, 0, -scroll),
         to |-> <<to.x, to.y>>, fill |-> fill]
MoveOf(u, id) ==
    LET c == u.comp[id]
        w == WindowOf(id)
    IN  Then(BoxInWindow(u, id), LAMBDA b :
             Move(w, Shift(Inner(c.bounds, c.margins), b.x, b.y), c.scroll, u.comp[w].back))

Update(u, w) ==
    LET c == u.comp[w] IN
    IF c.added /\ c.upToDate THEN << >>
    ELSE <<[say |-> "update", id |-> w, layer |-> c.layer, bounds |-> c.bounds,
            fill |-> c.back]>>

Picture(u, w) == Cut(Look(u, w), Cells(Whole(u.comp[w].bounds)))
Drawn(u, w, update, dirty) ==
    Then(ScrolledLists(u, w), LAMBDA lists :
         Send([u EXCEPT !.comp = [id \in DOMAIN @ |->
                  IF id = w THEN [@[id] EXCEPT !.dirty = {}]
                  ELSE IF id \in lists THEN [@[id] EXCEPT !.scroll = 0] ELSE @[id]]],
              update \o SetToSeq({MoveOf(u, id) : id \in lists})
                     \o <<[say |-> "contents", id |-> w, picture |-> Cut(Look(u, w), dirty)]>>))
Shows(u, w, update) ==
    Then(u.comp[w].dirty \cap Cells(Whole(u.comp[w].bounds)), LAMBDA dirty :
    Then([u EXCEPT !.comp[w].dirty = dirty], LAMBDA cut :
         IF dirty = {} THEN Send(cut, update) ELSE Drawn(cut, w, update, dirty)))
Hides(u, w) ==
    IF u.comp[w].added
    THEN [Send(u, <<[say |-> "remove", id |-> w]>>) EXCEPT !.comp[w].added = FALSE] ELSE u

Sync(u, w) ==
    [IF ~u.connected THEN u
     ELSE IF ~u.comp[w].visible THEN Hides(u, w)
     ELSE Shows(ValidateWindow([u EXCEPT !.comp[w].added = TRUE, !.comp[w].upToDate = TRUE], w),
                w, Update(u, w))
        EXCEPT !.comp[w].enqueued = FALSE]

=============================================================================
