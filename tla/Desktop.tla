------------------------------ MODULE Desktop ------------------------------
(* One session's windows from the key that is pressed to the page that     *)
(* shows what became of it: the events of the client are given to the      *)
(* component that has the focus or is under the mouse, and up from there;  *)
(* what they leave to be done is posted, each event on its own; what is    *)
(* painted goes to the page in the order it was sent; the connection may   *)
(* be lost at any point, and another be made (net/Session.cpp,             *)
(* ui/Component.cpp, net/Connection.cpp, www/js/client.js).                *)
EXTENDS ScreenChat, ScreenClient

CONSTANTS
    Openings,     \* how a session may stand when we come to it
    ChatPlace,    \* 3 from the left, 13 from below, 40 by 10
    EntryPlace,   \* 3 from the left, 2 from below, 40 by 1
    Zones,        \* lists of names the database may answer with
    Steps,        \* bound: events of the client and of the other parts
    Losses,       \* bound: connections lost
    Backlog       \* bound: messages the page is behind

VARIABLES
    opening,      \* the member of Openings we began with
    desk,         \* the session
    wire,         \* what is sent and not yet read
    page,         \* the page
    left          \* what is left of the bounds

vars == <<opening, desk, wire, page, left>>

Modifiers == {"Shift", "Control", "Alt"}
Taken(u) == [u |-> u, taken |-> TRUE]
Ignored(u) == [u |-> u, taken |-> FALSE]

(***************************************************************************)
(* Slots: what is left to be called once a widget is done with an event.   *)
(***************************************************************************)
\* Button::doPress.
DoPress(u, b) ==
    LET v == IF u.comp[b].focused THEN u ELSE RequestFocus(u, b)
    IN  IF u.comp[b].enabled THEN Emit(v, b, "pressed") ELSE u

\* The slots that open a dialog or a menu; a menu opened from one is held open by
\* the same key.
Opens == {"commandMenu", "newMenu", "editMenu", "toolsMenu", "settings", "logonDialog",
          "logoffDialog", "chooser", "forgot", "bug"}
DialogFor(u, w, slot) ==
    CASE slot.does = "commandMenu" -> CommandMenu(u.user, slot.release)
      [] slot.does = "newMenu" -> NewMenu(u.comp[w].release)
      [] slot.does = "editMenu" -> EditMenu(u.comp[w].release)
      [] slot.does = "toolsMenu" -> ToolsMenu(u.comp[w].release)
      [] slot.does = "settings" -> SettingsDialog
      [] slot.does = "logonDialog" -> LogonDialog(u)
      [] slot.does = "logoffDialog" -> ConfirmDialog("l", Do("logoff"))
      [] slot.does = "chooser" -> ChooserDialog
      [] slot.does = "forgot" ->
            InputDialog("e", "email", "email", [does |-> "mail", window |-> w])
      [] slot.does = "bug" -> InputDialog("b", "any", "nonEmpty", Do("nothing"))

RunSlot(u, id, slot) ==
    LET n == id[1]
        w == WindowOf(id)
        does == slot.does
    IN  CASE does \in Opens ->
                Then(Show(u, DialogFor(u, w, slot)), LAMBDA v :
                     IF does = "logonDialog" THEN Constructed(v, u.next) ELSE v)
          [] does = "nothing" -> u
          [] does = "delete" -> DeleteLater(u, w)
          [] does = "press" -> DoPress(u, <<n, slot.to>>)
          [] does = "transfer" -> TransferFocus(u, id, "Forward")
          [] does = "toggle" -> Toggle(u, id)
          [] does = "enable" -> SetEnabled(u, <<n, slot.to>>, Full(slot.exp, u.comp[id].text))
          [] does = "updateSelection" -> UpdateSelection(u, n)
          [] does = "updateOk" -> UpdateOk(u, n)
          [] does = "updateLogon" -> UpdateLogon(u, n)
          [] does = "toggleCreate" -> SetCreateMode(u, n, ~u.comp[w].createMode)
          [] does = "logon" -> Logon(u, n)
          [] does = "updateApply" -> UpdateApply(u, n)
          [] does = "apply" -> ApplySettings(u, n)
          [] does = "exitHistory" -> [u EXCEPT !.historyIdx = -1]
          [] does = "submit" -> MaybeSubmit(u)
          [] does = "showEntry" -> ShowEntry(u, slot.visible)
          [] does = "mail" -> IF slot.window \in DOMAIN u.comp
                              THEN Ask(u, "mail", slot.window) ELSE u
          [] does = "logoff" -> Ask(u, "logoff", None)

\* The next of them, and all that it leads to itself, before the others.
Called(u) ==
    Then(RunSlot([u EXCEPT !.calls = << >>], Head(u.calls)[1], Head(u.calls)[2]), LAMBDA v :
         [v EXCEPT !.calls = @ \o Tail(u.calls)])

(***************************************************************************)
(* Keys.  A key is its code, which for a character is the character.       *)
(***************************************************************************)
\* QKeyEvent::modifiers: a modifier's own event has it the other way round.
KeyEvent(u, code) ==
    LET own == {code} \cap Modifiers
    IN  [code |-> code, mods |-> (u.mods \cup own) \ (u.mods \cap own)]

Printable(code) == code \in Letters \cup Digits \cup {" ", "/", "@"}
                              \cup DOMAIN Opening \cup DOMAIN Closing
Unmodified(e) == e.mods \subseteq {"Shift"}

\* getDirection.
Direction(e) ==
    CASE e.code = "Tab" /\ e.mods = {"Shift"} -> "Backward"
      [] e.code = "Tab" /\ e.mods = {} -> "Forward"
      [] e.code \in {"Left", "Right", "Up", "Down"} /\ e.mods = {} -> e.code
      [] OTHER -> "none"

\* Component::keyPressEvent, for what the component has no use for itself.
BaseKey(u, id, e) ==
    IF ~u.comp[id].focused \/ Direction(e) = "none" THEN Ignored(u)
    ELSE LET to == TransferTo(u, id, id, Direction(e))
         IN  [u |-> MoveFocus(u, WindowOf(id), to), taken |-> to \notin {None, id}]

\* Where a key takes the cursor, and what it has to do with the text.
Aim(c, e) ==
    CASE e.code = "Left" -> PreviousWord(c)
      [] e.code = "Right" -> NextWord(c)
      [] e.code = "Home" -> 0
      [] e.code = "End" -> Len(c.text)
EditBy(c, e) ==
    CASE Printable(e.code) -> Insertion(c.cursor, <<e.code>>)
      [] e.code = "Backspace" -> Deletion(c, c.cursor - 1, TRUE)
      [] e.code = "Delete" -> Deletion(c, c.cursor, FALSE)
FieldKey(u, f, e) ==
    LET c == u.comp[f]
        ctrl == e.mods = {"Control"}
        atEnd == \/ e.code = "Backspace" /\ c.cursor = 0
                 \/ e.code = "Delete" /\ c.cursor = Len(c.text)
    IN  CASE \/ ctrl /\ e.code \in {"Left", "Right"}
             \/ Unmodified(e) /\ e.code \in {"Home", "End"} ->
                Taken(SetCursorPosition(u, f, Aim(c, e)))
          [] ctrl /\ e.code = "z" -> Taken(Undo(u, f))
          [] \/ ctrl /\ e.code = "y"
             \/ e.mods = {"Control", "Shift"} /\ e.code = "z" -> Taken(Redo(u, f))
          [] Unmodified(e) /\ (Printable(e.code) \/ e.code \in {"Backspace", "Delete"}) ->
                Taken(IF atEnd THEN u ELSE Push(u, f, EditBy(c, e)))
          [] Unmodified(e) /\ e.code \in {"Left", "Right"} ->
                Taken(StepCursor(u, f, IF e.code = "Left" THEN -1 ELSE 1))
          [] Unmodified(e) /\ e.code = "Return" -> Taken(Emit(u, f, "entered"))
          [] OTHER -> Ignored(u)

ButtonKey(u, id, e) ==
    IF e.code = "Return" /\ Unmodified(e) THEN Taken(Emit(u, id, "pressed")) ELSE Ignored(u)

ListKey(u, id, e) ==
    LET c == u.comp[id]
        last == Len(c.values) - 1
        step(by) == Taken(Emit(UpdateListPos([u EXCEPT !.comp[id].selected = @ + by],
                                             id, c.selected), id, "selected"))
        go(index) == Taken(SetSelectedIndex(u, id, index))
    IN  IF ~Unmodified(e) \/ c.selected = -1 THEN Ignored(u)
        ELSE CASE e.code = "Up" /\ c.selected > 0 -> step(-1)
               [] e.code = "Down" /\ c.selected < last -> step(1)
               [] e.code = "PageUp" -> go(Larger(0, c.selected - ListHeight(c)))
               [] e.code = "PageDown" -> go(Smaller(last, c.selected + ListHeight(c)))
               [] e.code = "Home" -> go(0)
               [] e.code = "End" -> go(last)
               [] e.code = "Return" -> Taken(Emit(u, id, "entered"))
               [] OTHER -> Ignored(u)

\* Window::keyPressEvent, and those of a menu, the entry and the main window.
WindowKey(u, w, e) ==
    IF u.comp[w].escapes /\ e.code = "Escape" /\ Unmodified(e) THEN Taken(DeleteLater(u, w))
    ELSE Ignored(u)

MenuKey(u, w, e) ==
    LET called == SelectSeq(u.comp[w].children, LAMBDA d :
            /\ u.comp[d].kind = "button" /\ u.comp[d].label.mark # 0
            /\ u.comp[d].label.text[u.comp[d].label.mark] = e.code)
    IN  IF called = << >> THEN WindowKey(u, w, e)
        ELSE Taken(Call(u, w, PressSlot(Head(called)[2])))

ShowEntrySlot(visible) == [does |-> "showEntry", visible |-> visible]
EntryKey(u, w, e) ==
    CASE Unmodified(e) /\ e.code = "Up" -> Taken(Older(u))
      [] Unmodified(e) /\ e.code = "Down" -> Taken(Newer(u))
      [] Unmodified(e) /\ e.code = "Escape" -> Taken(Call(u, w, ShowEntrySlot(FALSE)))
      [] OTHER -> WindowKey(u, w, e)

MainKey(u, w, e) ==
    LET menu(release) == Taken(Call(u, w, [does |-> "commandMenu", release |-> release])) IN
    CASE e.mods = {} /\ e.code \in {"Alt", "Control"} -> menu(e.code)
      [] e.mods = {} /\ e.code = "Escape" -> menu("none")
      [] e.mods = {} /\ e.code = "Return" -> Taken(Call(u, w, ShowEntrySlot(TRUE)))
      [] OTHER -> WindowKey(u, w, e)

OwnKey(u, id, e) ==
    LET c == u.comp[id] IN
    CASE c.kind = "field" -> FieldKey(u, id, e)
      [] c.kind \in {"button", "check"} -> ButtonKey(u, id, e)
      [] c.kind = "list" -> ListKey(u, id, e)
      [] c.kind = "window" /\ c.class = "menu" -> MenuKey(u, id, e)
      [] c.kind = "window" /\ c.class = "entry" -> EntryKey(u, id, e)
      [] c.kind = "window" /\ c.class = "main" -> MainKey(u, id, e)
      [] c.kind = "window" /\ c.class \notin {"menu", "entry", "main"} -> WindowKey(u, id, e)
      [] OTHER -> Ignored(u)
KeyPressEvent(u, id, e) ==
    LET own == OwnKey(u, id, e) IN IF own.taken THEN own ELSE BaseKey(u, id, e)

\* Session::event: a report of a bug can be made anywhere.
SessionKey(u, e) ==
    IF e.code = "F2" /\ e.mods = {} THEN Call(u, None, Do("bug")) ELSE u

\* The focus first, then what it is in, up to the window, then the session.
RECURSIVE DeliverKey(_, _, _)
DeliverKey(u, id, e) ==
    LET deliver(r) == IF r.taken THEN r.u
                      ELSE IF u.comp[id].kind = "window" THEN SessionKey(u, e)
                      ELSE DeliverKey(u, u.comp[id].parent, e)
    IN  Then(KeyPressEvent(u, id, e), deliver)

KeyTarget(u) == IF u.comp[u.active].focus = None THEN u.active ELSE u.comp[u.active].focus

\* dispatchKeyPressed, dispatchKeyReleased: a menu goes with the key that
\* opened it.  Only modifiers are held; other keys are let go at once, as
\* nothing waits for that.
KeyPressed(u, code) ==
    LET own == {code} \cap Modifiers
        e == KeyEvent([u EXCEPT !.mods = @ \cup own], code)
        v == [u EXCEPT !.keys = @ \cup own, !.mods = @ \cup own]
    IN  IF u.active = None THEN SessionKey(v, e) ELSE DeliverKey(v, KeyTarget(v), e)
KeyReleased(u, code) ==
    LET v == [u EXCEPT !.keys = @ \ {code}, !.mods = @ \ {code}]
    IN  IF v.active # None /\ v.comp[v.active].class = "menu"
            /\ v.comp[v.active].release = code
        THEN DeleteLater(v, v.active) ELSE v

(***************************************************************************)
(* The mouse.                                                              *)
(***************************************************************************)
\* componentAt: the first child there, whether it shows or not.
RECURSIVE ComponentAt(_, _, _, _)
ComponentAt(u, id, x, y) ==
    LET c == u.comp[id]
        there == SelectSeq(c.children, LAMBDA d : Holds(u.comp[d].bounds, x, y))
        first == Head(there)
    IN  IF there = << >> THEN [id |-> id, x |-> x, y |-> y]
        ELSE ComponentAt(u, first, x - u.comp[first].bounds.x, y - u.comp[first].bounds.y)

\* The highest window that is hit; a modal one hides what is below it.
MouseTarget(u, x, y) ==
    LET look(hit, w) ==
            LET c == u.comp[w]
                b == c.bounds
                below == IF c.modal THEN [id |-> None, layer |-> c.layer] ELSE hit
            IN  IF ~c.visible \/ c.layer < hit.layer THEN hit
                ELSE IF Holds(b, x, y)
                THEN ComponentAt(u, w, x - b.x, y - b.y) @@ [layer |-> c.layer]
                ELSE below
    IN  FoldLeft(look, [id |-> None, layer |-> -1], u.windows)

\* Where a click puts the cursor, or which value it selects; then
\* Component::mouseButtonPressEvent.
ClickedText(u, f, x) ==
    LET c == u.comp[f]
        at == x - c.margins.l - 1
        length == Len(c.text)
        width == AreaWidth(c) - 1
    IN  SetCursorPosition(u, f,
            IF c.right /\ length < width THEN Larger(at - width + length, 0)
            ELSE Smaller(c.docPos + at, length))
ClickedValue(u, id, y) ==
    LET index == u.comp[id].listPos + y - u.comp[id].margins.t
    IN  IF index < Len(u.comp[id].values) THEN SetSelectedIndex(u, id, index) ELSE u

MousePressEvent(u, id, x, y) ==
    LET c == u.comp[id]
        inner == Inner(c.bounds, c.margins)
        inside == Holds([inner EXCEPT !.x = @ + 1, !.w = @ - 2,
                                      !.h = IF c.kind = "field" THEN 1 ELSE @], x, y)
        v == CASE c.kind = "field" /\ inside -> ClickedText(u, id, x)
               [] c.kind = "list" /\ inside -> ClickedValue(u, id, y)
               [] OTHER -> u
    IN  IF ~c.focused /\ AcceptsFocus(c) THEN Taken(RequestFocus(v, id)) ELSE Ignored(v)

RECURSIVE DeliverMouse(_, _, _, _)
DeliverMouse(u, id, x, y) ==
    LET b == u.comp[id].bounds
        deliver(r) == IF r.taken \/ u.comp[id].kind = "window" THEN r.u
                      ELSE DeliverMouse(r.u, u.comp[id].parent, x + b.x, y + b.y)
    IN  Then(MousePressEvent(u, id, x, y), deliver)

MousePressed(u, x, y) ==
    LET hit == MouseTarget(u, x, y)
        v == [u EXCEPT !.held = TRUE, !.moused = hit.id]
    IN  IF hit.id = None THEN v ELSE DeliverMouse(v, hit.id, hit.x, hit.y)

\* Only buttons do anything when the mouse is released.
MouseReleased(u, x, y) ==
    LET b == u.moused
        v == [u EXCEPT !.held = FALSE, !.moused = None]
        at == AbsolutePos(u, b)
    IN  IF b = None THEN v
        ELSE IF u.comp[b].kind \in {"button", "check"}
                /\ Holds(Whole(u.comp[b].bounds), x - at[1], y - at[2])
        THEN Emit(v, b, "pressed") ELSE v

(***************************************************************************)
(* The connection.                                                         *)
(***************************************************************************)
\* clearConnection: the mouse and the keys are let go.
ClearConnection(u) ==
    LET v == [u EXCEPT !.connected = FALSE]
        let == IF u.held THEN MouseReleased(v, 0, 0) ELSE v
    IN  FoldSet(LAMBDA code, w : KeyReleased(w, code), let, u.keys)

PlaceAt(place, size) == Box(place.x, size[2] - place.up, place.w, place.h)
\* Mutant: the new connection is not told that what follows is sealed.
OpenConnection(u, size, cookies) ==
    LET v == [u EXCEPT !.connected = TRUE, !.crypto = FALSE, !.size = size,
                       !.cookies = cookies, !.mods = {}]
        placed == SetBounds(SetBounds(SetBounds(v,
                      <<1, 0>>, Box(0, 0, size[1], size[2])),
                      Chat, PlaceAt(ChatPlace, size)), Entry, PlaceAt(EntryPlace, size))
    IN  FoldLeft(MaybeResend, placed, u.windows)
SetConnection(u, size, cookies) ==
    LET v == [u EXCEPT !.connected = TRUE, !.crypto = FALSE, !.size = size,
                       !.cookies = cookies]
        sealed == [IF v.cryptoCount > 0 THEN ToggleCrypto(v) ELSE v EXCEPT !.mods = {}]
        placed == SetBounds(SetBounds(SetBounds(sealed,
                      <<1, 0>>, Box(0, 0, size[1], size[2])),
                      Chat, PlaceAt(ChatPlace, size)), Entry, PlaceAt(EntryPlace, size))
    IN  FoldLeft(MaybeResend, placed, u.windows)

(***************************************************************************)
(* What is posted: the next of them.                                       *)
(***************************************************************************)
Handled(u) ==
    LET p == Head(u.posted)
        v == [u EXCEPT !.posted = Tail(@)]
    IN  IF p.what = "sync" THEN Sync(v, p.window) ELSE DestroyWindow(v, p.window)

(***************************************************************************)
(* How a session begins: Session::Session, with a connection; then what    *)
(* was typed before we came to it.                                         *)
(***************************************************************************)
MainParts(user) ==
    Parts(1, Bordered(FreshWindow("main", 0, TRUE, FALSE), TitledBorder(Title(user))), << >>)

NewSession(o) ==
    LET nothing ==
            [comp |-> [id \in {} |-> NoBox], windows |-> << >>, active |-> None,
             moused |-> None, held |-> FALSE, keys |-> {}, mods |-> {}, posted |-> << >>,
             calls |-> << >>, connected |-> FALSE, crypto |-> FALSE, cryptoCount |-> 0,
             next |-> 1, out |-> << >>, size |-> o.size, user |-> o.user,
             cookies |-> o.cookies, everyone |-> o.everyone, young |-> o.young,
             asked |-> {}, history |-> o.history, historyIdx |-> -1, stored |-> << >>,
             prefix |-> << >>, sender |-> << >>]
        windows == <<MainParts(o.user), Parts(2, NewChatWindow, << >>), NewEntryParts>>
        made == SetConnection(FoldLeft(CreateWindow, nothing, windows), o.size, o.cookies)
    IN  IF o.user.guest /\ ~o.everyone THEN Call(made, None, Do("logonDialog")) ELSE made

Init ==
    /\ opening \in Openings
    /\ desk = [NewSession(opening) EXCEPT !.out = << >>]
    /\ wire = NewSession(opening).out
    /\ page = FreshPage(opening.size, opening.cookies)
    /\ left = [typed |-> opening.typed, steps |-> Steps, losses |-> Losses]

(***************************************************************************)
(* Actions.  An event and its slots are one thing to the rest of the       *)
(* program: nothing else happens before the last of them.                  *)
(***************************************************************************)
InStep == desk.calls = << >> /\ Len(wire) <= Backlog
Settled == desk.calls = << >> /\ desk.posted = << >> /\ wire = << >>
Arrived == left.typed = << >>
Commit(u) ==
    /\ desk' = [u EXCEPT !.out = << >>]
    /\ wire' = wire \o u.out
    /\ UNCHANGED <<opening, page>>
Event(u) ==
    /\ InStep /\ Arrived /\ left.steps > 0
    /\ Commit(u)
    /\ left' = [left EXCEPT !.steps = @ - 1]

Slot ==
    /\ desk.calls # << >>
    /\ Commit(Called(desk))
    /\ UNCHANGED left

\* The client's user: what was typed before we came, then what may be.
Strike ==
    /\ desk.connected /\ InStep
    /\ IF Arrived THEN left.steps > 0 ELSE Settled
    /\ \E code \in IF Arrived THEN opening.keys \ desk.keys ELSE {Head(left.typed)} :
          Commit(KeyPressed(desk, code))
    /\ left' = IF Arrived THEN [left EXCEPT !.steps = @ - 1] ELSE [left EXCEPT !.typed = Tail(@)]
LetGo == desk.connected /\ \E code \in desk.keys : Event(KeyReleased(desk, code))
Press == desk.connected /\ ~desk.held
             /\ \E at \in opening.clicks : Event(MousePressed(desk, at[1], at[2]))
Release == desk.connected /\ desk.held
             /\ \E at \in opening.clicks : Event(MouseReleased(desk, at[1], at[2]))

\* Timers: the match that is shown fades, a status flashes.
Fade == InStep /\ Arrived /\ \E f \in DOMAIN desk.comp :
            /\ desk.comp[f].kind = "field" /\ desk.comp[f].match # -1
            /\ Commit(ClearMatch(desk, f)) /\ UNCHANGED left
Flash == InStep /\ Arrived /\ \E s \in DOMAIN desk.comp :
            /\ desk.comp[s].kind = "status" /\ desk.comp[s].countdown > 0
            /\ Commit(Tick(desk, s)) /\ UNCHANGED left

\* The database answers; nobody hears it when the window is gone.
Results(what) ==
    CASE what = "zones" -> Zones
      [] what = "create" -> {"taken", "welcome"}
      [] what = "logon" -> {"noSuchUser", "wrongPassword", "banned", "welcome"}
      [] what = "mail" -> {"mailed"}
      [] what = "logoff" -> {"done"}
Answered(u, asked, result) ==
    CASE asked.what = "zones" -> PopulateList(u, asked.window[1], result)
      [] asked.what \in {"create", "logon", "mail"} -> Replied(u, asked.window[1], result)
      [] asked.what = "logoff" -> LoggedOff(u, opening.guest)
Answer ==
    \E asked \in desk.asked :
        LET u == [desk EXCEPT !.asked = @ \ {asked}]
            there == asked.window \in DOMAIN desk.comp \cup {None}
        IN  \/ there /\ \E result \in Results(asked.what) : Event(Answered(u, asked, result))
            \/ ~there /\ Event(u)

\* The rest of the server: a line to be heard, a script that waits for one, the
\* policy changed.
Heard == \E heard \in opening.lines : Event(Hear(desk, heard.line, heard.sender))
Asked == opening.scripts /\ Event(AskForLine(desk))
PolicyChanged ==
    LET forms == SelectSeq(desk.windows, LAMBDA w : desk.comp[w].class = "logon")
        u == [desk EXCEPT !.everyone = ~@]
    IN  /\ opening.policies
        /\ Event(FoldLeft(LAMBDA v, w : UpdateForce(v, w[1], v.everyone), u, forms))

Handle == InStep /\ desk.posted # << >> /\ Commit(Handled(desk)) /\ UNCHANGED left

\* The page, and the loss of its connection; the next page may be of any size.
Read ==
    /\ wire # << >>
    /\ page' = IF Head(wire).sealed = page.sealed THEN OnMessage(page, Head(wire).said) ELSE page
    /\ wire' = Tail(wire)
    /\ UNCHANGED <<opening, desk, left>>

Lose ==
    /\ desk.connected /\ desk.calls = << >> /\ Arrived /\ left.losses > 0
    /\ desk' = [ClearConnection(desk) EXCEPT !.out = << >>]
    /\ wire' = << >>
    /\ left' = [left EXCEPT !.losses = @ - 1]
    /\ UNCHANGED <<opening, page>>
Reconnect ==
    /\ ~desk.connected /\ desk.calls = << >>
    /\ \E size \in opening.sizes :
        LET u == SetConnection(desk, size, page.cookies) IN
        /\ desk' = [u EXCEPT !.out = << >>]
        /\ wire' = u.out
        /\ page' = FreshPage(size, page.cookies)
    /\ UNCHANGED <<opening, left>>

Next == \/ Slot \/ Strike \/ LetGo \/ Press \/ Release \/ Fade \/ Flash \/ Answer
        \/ Heard \/ Asked \/ PolicyChanged \/ Handle \/ Read \/ Lose \/ Reconnect
Spec == Init /\ [][Next]_vars

(***************************************************************************)
(* Properties.                                                             *)
(***************************************************************************)
\* Once nothing is posted and the page has read everything, it has exactly the
\* visible windows, each where it is and with what it would look like if all of
\* it were painted now, and its display shows them: the regions that the
\* components, the windows and the page each take note of miss nothing, over
\* scrolling, hiding, resizing and another connection.
Painted ==
    desk.connected /\ Settled =>
        /\ {[id |-> v.id, layer |-> v.layer, bounds |-> v.bounds, contents |-> v.contents] :
               v \in Range(page.windows)}
            = {[id |-> w, layer |-> desk.comp[w].layer, bounds |-> desk.comp[w].bounds,
                contents |-> Picture(desk, w)] :
               w \in {x \in Range(desk.windows) : desk.comp[x].visible}}
        /\ \A c \in DOMAIN page.display : page.display[c] = Shown(page.windows, c)

\* There is an active window whenever one may be, never one that is hidden, has
\* nothing to do with a key, or lies below a modal one; exactly one component
\* believes it has the focus, the one keys go to, and it is still there.
InTurn ==
    LET active == desk.active
        all == Range(desk.windows)
    IN  /\ active = None => \A w \in all : ~MayBeActive(desk.comp[w])
        /\ active # None => /\ active \in all
                            /\ MayBeActive(desk.comp[active])
                            /\ ~BelowModal(desk, active)
        /\ \A w \in all : /\ desk.comp[w].active = (w = active)
                          /\ desk.comp[w].focus \in DOMAIN desk.comp \cup {None}
        /\ {id \in DOMAIN desk.comp : desk.comp[id].focused}
            = (IF active = None THEN {} ELSE {desk.comp[active].focus} \ {None})

\* All that was typed into a field since its text was last set can be undone,
\* back to that text, and done again: merged commands, letters that were not
\* taken and edits after an undo lose nothing.
Replayed(c, text, cmd, reverse) ==
    IF cmd.insertion = reverse THEN Removed(text, cmd.at, Len(cmd.text))
    ELSE Inserted(c, text, cmd.at, cmd.text)
Unwound ==
    \A f \in {id \in DOMAIN desk.comp : desk.comp[id].kind = "field"} :
        LET c == desk.comp[f]
            first == FoldLeft(LAMBDA text, cmd : Replayed(c, text, cmd, TRUE), c.text,
                              Reverse(SubSeq(c.commands, 1, c.done)))
            again == FoldLeft(LAMBDA text, cmd : Replayed(c, text, cmd, FALSE), first,
                              SubSeq(c.commands, 1, c.done))
        IN  first = c.base /\ again = c.text

\* What a secret window shows is sealed on its way, over new connections too,
\* and the page opens each message the way it was closed.
Sealed ==
    /\ \A i \in DOMAIN wire : \A k \in DOMAIN wire[i].said :
        LET m == wire[i].said[k] IN
        m.say = "contents" /\ m.id \in DOMAIN desk.comp /\ desk.comp[m.id].secret
            => wire[i].sealed
    /\ wire # << >> => Head(wire).sealed = page.sealed
    /\ desk.connected /\ wire = << >> => page.sealed = (desk.cryptoCount > 0)

=============================================================================
