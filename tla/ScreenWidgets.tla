--------------------------- MODULE ScreenWidgets ---------------------------
(* Labels, buttons, boxes to check and lists to choose from: what each     *)
(* does with the focus, the mouse and a key, and what it looks like        *)
(* (ui/Label.cpp, ui/Button.cpp, ui/ScrollingList.cpp).  Texts are short   *)
(* enough for their places: the breaking of lines is not modelled.         *)
EXTENDS ScreenText

(***************************************************************************)
(* Labels and buttons.                                                     *)
(***************************************************************************)
NewLabel(text, align) ==
    Fresh("label") @@
    [text |-> Plain(text, 0), line |-> << >>, align |-> align]

\* Button: room for the brackets at its sides.
NewButton(label, slots) ==
    [Fresh("button") EXCEPT !.margins = Margins(1, 0, 1, 0), !.slots.pressed = slots] @@
    [text |-> Highlighted(label), line |-> << >>, align |-> "left", label |-> label]
\* CheckBox: room for the indicator at its left; pressing it toggles it.
NewCheckBox(label, selected) ==
    [Fresh("check") EXCEPT !.margins = Margins(4, 0, 0, 0),
                                   !.slots.pressed = <<[does |-> "toggle"]>>] @@
    [text |-> Highlighted(label), line |-> << >>, align |-> "left", label |-> label,
     selected |-> selected]
\* StatusLabel: room for the flash at its sides.
NewStatus ==
    [Fresh("status") EXCEPT !.margins = Margins(1, 0, 1, 0)] @@
    [text |-> << >>, line |-> << >>, align |-> "center", countdown |-> 0]

\* Label::setText.
SetText(u, id, text) ==
    IF u.comp[id].text = text THEN u
    ELSE DirtyAll(Invalidate([u EXCEPT !.comp[id].text = text], id), id)

\* Button::updateText: in reverse while it has the focus.
UpdateText(u, id) ==
    LET c == u.comp[id]
        text == Highlighted(c.label)
    IN  SetText(u, id, IF c.kind = "button" /\ c.focused
                       THEN Flagged(ReverseFlag, TRUE, text) ELSE text)
SetLabel(u, id, label) ==
    IF u.comp[id].label = label THEN u
    ELSE UpdateText([u EXCEPT !.comp[id].label = label], id)

\* CheckBox::setSelected, toggled: only the indicator is painted again.
Indicator(u, id) ==
    LET m == u.comp[id].margins IN Dirty(u, id, Box(m.l - 3, m.t, 1, 1))
Toggle(u, id) == Indicator([u EXCEPT !.comp[id].selected = ~@], id)

\* StatusLabel::setStatus with a flash, and its timer: only the sides.
Tick(u, id) ==
    LET c == u.comp[id]
        v == [u EXCEPT !.comp[id].countdown = @ - 1]
    IN  Dirty(Dirty(v, id, Box(c.margins.l - 1, c.margins.t, 1, 1)),
              id, Box(c.bounds.w - c.margins.r, c.margins.t, 1, 1))
CONSTANT Flashes     \* how often a status flashes, 6 in the code
SetStatus(u, id, text) ==
    Tick([SetText(u, id, Plain(text, 0)) EXCEPT !.comp[id].countdown = Flashes], id)

(***************************************************************************)
(* Lists.  Indices count from 0, -1 for none, as in the code.              *)
(***************************************************************************)
NewList(minHeight, selected, entered) ==
    [Fresh("list") EXCEPT !.slots.selected = selected, !.slots.entered = entered] @@
    [minHeight |-> minHeight, values |-> << >>, listPos |-> 0, selected |-> -1, scroll |-> 0]

ListHeight(c) == c.bounds.h - c.margins.t - c.margins.b
DirtyItems(u, id, at, length) ==
    LET c == u.comp[id] IN
    Dirty(u, id, Box(c.margins.l, c.margins.t + at - c.listPos,
                     c.bounds.w - c.margins.l - c.margins.r, length))

SetValues(u, id, values) ==
    DirtyAll(Invalidate([u EXCEPT !.comp[id].values = values, !.comp[id].listPos = 0,
                                  !.comp[id].selected = -1], id), id)

\* updateListPos: the selected value is brought into view; what stays in view
\* is moved rather than painted again.
ListPos(c) ==
    Bound(Larger(c.selected - ListHeight(c) + 1, 0), c.listPos,
          Smaller(c.selected, Len(c.values) - ListHeight(c)))
DirtyOld(u, id, old) == IF old = -1 THEN u ELSE DirtyItems(u, id, old, 1)
ScrollTo(u, id, old, pos, delta) ==
    LET c == u.comp[id]
        height == ListHeight(c)
        v == [u EXCEPT !.comp[id].listPos = pos]
    IN  IF c.listPos + height > pos /\ pos + height > c.listPos
        THEN DirtyOld(ScrollDirty([v EXCEPT !.comp[id].scroll = @ + delta],
                                  id, Whole(c.bounds), delta), id, old)
        ELSE DirtyAll(v, id)
UpdateListPos(u, id, old) ==
    LET c == u.comp[id]
        pos == ListPos(c)
    IN  CASE c.selected = -1 -> DirtyOld(u, id, old)
          [] c.selected # -1 /\ pos # c.listPos -> ScrollTo(u, id, old, pos, c.listPos - pos)
          [] OTHER ->
                IF old # -1 /\ old \in {c.selected - 1, c.selected + 1}
                THEN DirtyItems(u, id, Smaller(old, c.selected), 2)
                ELSE DirtyItems(DirtyOld(u, id, old), id, c.selected, 1)

SetSelectedIndex(u, id, index) ==
    LET old == u.comp[id].selected IN
    IF old = index THEN u
    ELSE Emit(UpdateListPos([u EXCEPT !.comp[id].selected = index], id, old), id, "selected")

(***************************************************************************)
(* The focus comes and goes.                                               *)
(***************************************************************************)
\* A hint goes or comes, a text at the right moves; else only the cursor.
FieldRefocused(u, id) ==
    LET c == u.comp[id] IN
    IF (c.hint # << >> /\ c.text = << >>) \/ AtRight(c) THEN DirtyAll(u, id)
    ELSE DirtyText(u, id, c.cursor, 1)
Refocused(u, id) ==
    LET c == u.comp[id] IN
    CASE c.kind = "field" -> FieldRefocused(u, id)
      [] c.kind = "button" -> UpdateText(u, id)
      [] c.kind = "check" -> Indicator(u, id)
      [] c.kind = "list" /\ c.selected # -1 -> DirtyItems(u, id, c.selected, 1)
      [] OTHER -> u
FocusIn(u, id) ==
    LET c == u.comp[id] IN
    Then(Refocused([u EXCEPT !.comp[id].focused = TRUE], id), LAMBDA v :
         CASE c.kind = "field" -> MaybeShowMatch(v, id)
           [] c.kind = "list" /\ c.selected = -1 /\ c.values # << >> ->
                 SetSelectedIndex(v, id, c.listPos)
           [] OTHER -> v)
FocusOut(u, id) ==
    Then(Refocused([u EXCEPT !.comp[id].focused = FALSE], id), LAMBDA v :
         IF u.comp[id].kind = "field" THEN ClearMatch(v, id) ELSE v)

(***************************************************************************)
(* What a widget looks like, in its own coordinates.                       *)
(***************************************************************************)
LabelPicture(c) ==
    LET inner == Inner(c.bounds, c.margins)
        x == inner.x + (IF c.align = "center" THEN Share(inner.w - Len(c.line), 2) ELSE 0)
        y == inner.y + (IF c.kind = "status" THEN Share(inner.h - 1, 2) ELSE 0)
    IN  Glyphs(x, y, c.line)

ButtonPicture(c) ==
    LET flags == IF c.enabled THEN 0 ELSE DimFlag
        glyph(x, ch) == Glyphs(x, c.margins.t, <<<<ch, flags>>>>)
    IN  On(On(glyph(c.margins.l - 1, "["), glyph(c.bounds.w - c.margins.r, "]")),
           LabelPicture(c))

CheckPicture(c) ==
    LET flags == IF c.enabled THEN 0 ELSE DimFlag
        box == <<<<"[", flags>>,
                 <<IF c.selected THEN "X" ELSE " ",
                   flags + (IF c.focused THEN ReverseFlag ELSE 0)>>,
                 <<"]", flags>>>>
    IN  On(Glyphs(c.margins.l - 4, c.margins.t, box), LabelPicture(c))

StatusPicture(c) ==
    LET flash(x) == Glyphs(x, c.margins.t, <<<<" ", ReverseFlag>>>>) IN
    IF c.countdown % 2 = 0 THEN LabelPicture(c)
    ELSE On(On(flash(c.margins.l - 1), flash(c.bounds.w - c.margins.r)), LabelPicture(c))

ItemPicture(item, x, y, width, chosen, focused) ==
    LET words == Glyphs(x + 1, y, Plain(item, IF chosen /\ focused THEN ReverseFlag ELSE 0))
        rest == Fill(Box(x + 1 + Len(item), y, width - Len(item), 1), <<" ", ReverseFlag>>)
    IN  IF ~chosen THEN words
        ELSE On(On(Glyphs(x, y, <<<<"[", 0>>>>), Glyphs(x + 1 + width, y, <<<<"]", 0>>>>)),
                IF focused THEN On(words, rest) ELSE words)
ListPicture(c) ==
    LET inner == Inner(c.bounds, c.margins)
        width == inner.w - 2
        item(i) == SubSeq(c.values[i + 1], 1, Smaller(width, Len(c.values[i + 1])))
        row(i) == ItemPicture(item(i), inner.x, inner.y + i - c.listPos, width,
                              i = c.selected, c.focused)
        shown == {i \in c.listPos .. c.listPos + inner.h - 1 : i < Len(c.values)}
    IN  FoldSet(LAMBDA i, p : On(row(i), p), NoPicture, shown)

=============================================================================
