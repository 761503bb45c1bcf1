--------------------------- MODULE ScreenDialogs ---------------------------
(* The dialogs and menus of a session: what they are made of, and what     *)
(* their signals lead to (net/Session.cpp, ui/Menu.cpp, CommandMenu.cpp,   *)
(* ui/ResourceChooserDialog.cpp, LogonDialog.cpp, SettingsDialog.cpp).     *)
(* A slot is a record: what it does, and to what; Desktop runs it.  Words  *)
(* are cut down to their initials, sizes to constants.                     *)
EXTENDS ScreenWindows

CONSTANTS FieldWidth,     \* 20 in the code, the width of a field
          DialogWidth,    \* 45, of a message
          FormWidth,      \* 43, of the form to log on with
          ListHeightWanted, \* 5, the least height of a list
          MaxLength,      \* 255, of a text; 16 of a name
          PartLength,     \* 2, of a day or a month; 4 of a year
          MinName,        \* 3, the letters of a name
          MinPassword     \* 6, the letters of a password

Word(ch) == [text |-> <<ch>>, mark |-> 0]        \* without a mnemonic
Marked(ch) == [text |-> <<ch>>, mark |-> 1]      \* "&Word"
Do(what) == [does |-> what]
PressSlot(number) == [does |-> "press", to |-> number]

Caption(ch) == NewLabel(<<ch>>, "left")
Row(gap) == NewContainer(HBox(gap))
Field(text, limit, exp, changed) ==
    [NewField(FieldWidth, text, limit, exp) EXCEPT !.slots.changed = changed]
Entered(field, slot) == [field EXCEPT !.slots.entered = Append(@, slot)]
Disabled(label) == [label EXCEPT !.enabled = FALSE, !.text = Flagged(DimFlag, TRUE, @)]
Hidden(c) == [c EXCEPT !.visible = FALSE]

\* A dialog: what it is made of, whether it hides what is typed, the key that
\* holds it open, the component that is to have the focus, what is asked for it.
Dialog(class, layout, border, nodes) ==
    [class |-> class, layout |-> layout, border |-> border, nodes |-> nodes,
     preferred |-> <<-1, -1>>, secret |-> FALSE, release |-> "none", focus |-> -1,
     asks |-> "nothing"]

\* A new modal window on top of all others; its number is u.next.
Open(u, dialog) ==
    LET window == FreshWindow(dialog.class, HighestWindowLayer(u), TRUE, TRUE)
        dressed == Bordered([window EXCEPT !.layout = dialog.layout,
                                           !.preferred = dialog.preferred,
                                           !.release = dialog.release,
                                           !.secret = dialog.secret], dialog.border)
    IN  CreateWindow(u, Parts(u.next, dressed, dialog.nodes))
Packed(u, w) == Center(Pack(u, w), w)
Ask(u, what, w) == [u EXCEPT !.asked = @ \cup {[what |-> what, window |-> w]}]

\* EncryptedWindow's constructor counts.
Show(u, dialog) ==
    LET w == <<u.next, 0>> IN
    Then(Open(u, dialog), LAMBDA v :
    Then(IF dialog.secret THEN IncrementCryptoCount(v) ELSE v, LAMBDA x :
    Then(IF dialog.focus = -1 THEN x ELSE RequestFocus(x, <<w[1], dialog.focus>>), LAMBDA y :
    Then(Packed(y, w), LAMBDA z :
         IF dialog.asks = "nothing" THEN z ELSE Ask(z, dialog.asks, w)))))

(***************************************************************************)
(* Session's dialogs.                                                      *)
(***************************************************************************)
\* createDialog, and the message in it.
MessageDialog(nodes) == Dialog("dialog", Column(1), FrameBorder, nodes)
Message(ch) == [NewLabel(<<ch>>, "center") EXCEPT !.preferred = <<DialogWidth, -1>>]

ConfirmDialog(message, callback) ==
    [MessageDialog(
        <<In(0, Message(message)), In(0, Row(2)),
          In(2, NewButton(Word("c"), <<Do("delete")>>)),
          In(2, NewButton(Word("o"), <<Do("delete"), callback>>))>>) EXCEPT !.focus = 4]

\* FieldExpEnabler: a button that waits for a text.
Full(exp, text) ==
    CASE exp = "any" -> TRUE
      [] exp = "nonEmpty" -> text # << >>
      [] exp = "name" -> Len(text) >= MinName
      [] exp = "password" -> Len(text) >= MinPassword
      [] exp = "email" -> \E i \in 2 .. Len(text) - 1 : text[i] = "@"
EnableFor(button, exp) == [does |-> "enable", to |-> button, exp |-> exp]

InputDialog(message, exp, accept, callback) ==
    LET ok == NewButton(Word("o"), <<Do("delete"), callback>>)
    IN  MessageDialog(
        <<In(0, Message(message)),
          In(0, Entered(Field(<< >>, MaxLength, exp, <<EnableFor(5, accept)>>), PressSlot(5))),
          In(0, Row(2)), In(3, NewButton(Word("c"), <<Do("delete")>>)),
          In(3, IF Full(accept, << >>) THEN ok ELSE Disabled(ok))>>)

(***************************************************************************)
(* Menus.                                                                  *)
(***************************************************************************)
\* A menu held open by a key has the focus itself; each button does its part,
\* then the menu goes.
Menu(release, items) ==
    LET item(i) == In(0, NewButton(items[i][1], <<items[i][2], Do("delete")>>))
    IN  [Dialog("menu", TableLayout(1, {}), FrameBorder, [i \in DOMAIN items |-> item(i)])
            EXCEPT !.release = release, !.focus = IF release = "none" THEN -1 ELSE 0]

CommandMenu(user, release) ==
    Menu(release,
        (IF user.guest THEN << >>
         ELSE <<<<Marked("n"), Do("newMenu")>>, <<Marked("e"), Do("editMenu")>>>>)
        \o <<<<Marked("s"), Do("settings")>>, <<Marked("t"), Do("toolsMenu")>>>>
        \o (IF user.guest THEN <<<<Marked("l"), Do("logonDialog")>>>>
            ELSE <<<<Marked("l"), Do("logoffDialog")>>>>))

\* Zones and scenes are made elsewhere; a session without one has none to edit.
NewMenu(release) ==
    Menu(release, <<<<Marked("z"), Do("nothing")>>, <<Marked("s"), Do("nothing")>>>>)
EditMenu(release) == Menu(release, << >>)
ToolsMenu(release) ==
    Menu(release, <<<<Marked("z"), Do("chooser")>>, <<Marked("s"), Do("chooser")>>>>)

(***************************************************************************)
(* ResourceChooserDialog: a name one types selects in the list.            *)
(***************************************************************************)
Chooser == [name |-> 3, list |-> 4, ok |-> 7]
ChooserDialog ==
    [Dialog("chooser", Column(1), FrameBorder,
        <<In(0, NewContainer(HStretchBox(1))), In(1, [Caption("n") EXCEPT !.fixed = TRUE]),
          In(1, Entered(Field(<< >>, MaxLength, "any", <<Do("updateSelection")>>),
                        PressSlot(Chooser.ok))),
          In(0, NewList(ListHeightWanted, <<Do("updateOk")>>, <<PressSlot(Chooser.ok)>>)),
          In(0, Row(2)), In(5, NewButton(Word("c"), <<Do("delete")>>)),
          In(5, Disabled(NewButton(Word("o"), <<Do("nothing"), Do("delete")>>)))>>)
        EXCEPT !.asks = "zones"]

\* The first value that begins with what is typed, spaces at its ends aside.
Simplified(text) ==
    LET inner == {i \in DOMAIN text : text[i] # " "}
        kept == {i \in DOMAIN text : \/ i \in inner
                                     \/ /\ \E k \in inner : k < i
                                        /\ i + 1 \in inner}
    IN  FoldLeftDomain(LAMBDA s, i : IF i \in kept THEN Append(s, text[i]) ELSE s, << >>, text)

UpdateSelection(u, n) ==
    LET values == u.comp[<<n, Chooser.list>>].values
        prefix == Simplified(u.comp[<<n, Chooser.name>>].text)
        hits == {i \in DOMAIN values : IsPrefix(prefix, values[i])}
    IN  SetSelectedIndex(u, <<n, Chooser.list>>, IF hits = {} THEN -1 ELSE Min(hits) - 1)
UpdateOk(u, n) ==
    SetEnabled(u, <<n, Chooser.ok>>, u.comp[<<n, Chooser.list>>].selected # -1)
PopulateList(u, n, values) == UpdateOk(SetValues(u, <<n, Chooser.list>>, values), n)

=============================================================================
