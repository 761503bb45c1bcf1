--------------------------- MODULE ScreenLayouts ---------------------------
(* How large a component would like to be, where a container puts its      *)
(* children, and what the whole of it looks like (ui/Component.cpp,        *)
(* ui/Layout.cpp: BoxLayout and TableLayout).                              *)
EXTENDS ScreenWidgets

Total(sizes) == FoldSeq(LAMBDA n, s : n + s, 0, sizes)
Largest(sizes) == FoldSeq(LAMBDA n, s : Larger(n, s), 0, sizes)
Widths(sizes) == [i \in DOMAIN sizes |-> sizes[i][1]]
Heights(sizes) == [i \in DOMAIN sizes |-> sizes[i][2]]
Gaps(n, gap) == IF n > 1 THEN (n - 1) * gap ELSE 0

\* A row or a column, with what is stretched; and a table of so many columns,
\* of which some are stretched.
BoxLayout(way, hstretch, vstretch, halign, valign, gap) ==
    [way |-> way, hstretch |-> hstretch, vstretch |-> vstretch,
     halign |-> halign, valign |-> valign, gap |-> gap]
HBox(gap) == BoxLayout("h", FALSE, FALSE, "center", "center", gap)
VBox(gap) == BoxLayout("v", FALSE, FALSE, "center", "center", gap)
HStretchBox(gap) == BoxLayout("h", TRUE, TRUE, "center", "center", gap)
Column(gap) == BoxLayout("v", TRUE, FALSE, "center", "center", gap)
TableLayout(columns, stretched) ==
    [way |-> "table", columns |-> columns, stretched |-> stretched, gap |-> 1]

NewContainer(layout) == [Fresh("box") EXCEPT !.layout = layout]

VisibleChildren(u, c) == SelectSeq(c.children, LAMBDA d : u.comp[d].visible)

\* The widths of the columns or the heights of the rows of a table: the
\* largest in each.
Tracks(sizes, count, track(_)) ==
    [k \in 1 .. count |-> Largest([i \in DOMAIN sizes |->
        IF track(i - 1) = k - 1 THEN sizes[i] ELSE 0])]
TableRows(layout, n) == (n + layout.columns - 1) \div layout.columns
TableWidths(layout, sizes) ==
    LET column(i) == i % layout.columns IN Tracks(Widths(sizes), layout.columns, column)
TableHeights(layout, sizes) ==
    LET row(i) == i \div layout.columns
    IN  Tracks(Heights(sizes), TableRows(layout, Len(sizes)), row)

(***************************************************************************)
(* Component::preferredSize: what is set, or else what is computed inside  *)
(* the margins.  A hint of -1 is none.                                     *)
(***************************************************************************)
\* What a widget, or a container with children of such sizes, needs.
WidgetSize(c) ==
    CASE HasText(c) -> <<Len(c.text), 1>>
      [] c.kind = "field" -> <<c.minWidth + 2, 1>>
      [] c.kind = "list" ->
            <<Largest([i \in DOMAIN c.values |-> Len(c.values[i])]) + 2, c.minHeight>>
LayoutSize(layout, sizes) ==
    LET n == Len(sizes) IN
    CASE layout.way = "h" ->
            <<Total(Widths(sizes)) + Gaps(n, layout.gap), Largest(Heights(sizes))>>
      [] layout.way = "v" ->
            <<Largest(Widths(sizes)), Total(Heights(sizes)) + Gaps(n, layout.gap)>>
      [] layout.way = "table" ->
            <<Total(TableWidths(layout, sizes)) + Gaps(layout.columns, layout.gap),
              Total(TableHeights(layout, sizes))>>

\* The hints a container passes on: its height to what a row stretches, its
\* width to what a column does.
PassedOn(layout, w, h) ==
    <<IF layout.way = "v" /\ layout.hstretch THEN w ELSE -1,
      IF layout.way = "h" /\ layout.vstretch THEN h ELSE -1>>
Less(n, margin) == IF n = -1 THEN -1 ELSE n - margin
Sizes(u, ids, hints, size(_, _, _, _)) ==
    [i \in DOMAIN ids |-> size(u, ids[i], hints[1], hints[2])]

RECURSIVE PreferredSize(_, _, _, _)
PreferredSize(u, id, whint, hhint) ==
    LET c == u.comp[id]
        set == c.preferred
        mw == c.margins.l + c.margins.r
        mh == c.margins.t + c.margins.b
        w == Less(IF set[1] # -1 THEN set[1] ELSE whint, mw)
        h == Less(IF set[1] = -1 /\ set[2] # -1 THEN set[2] ELSE hhint, mh)
    IN  IF set[1] # -1 /\ set[2] # -1 THEN set
        ELSE Then(IF c.kind \in {"box", "window"}
                  THEN LayoutSize(c.layout, Sizes(u, VisibleChildren(u, c),
                                                  PassedOn(c.layout, w, h), PreferredSize))
                  ELSE WidgetSize(c), LAMBDA least :
                  <<IF set[1] # -1 THEN set[1] ELSE Larger(w, least[1]) + mw,
                    IF set[2] # -1 THEN set[2] ELSE Larger(h, least[2]) + mh>>)

(***************************************************************************)
(* Where the children go.                                                  *)
(***************************************************************************)
\* What is left over, or missing, is shared out among the places that stretch.
Turn(free, i) == Cardinality({k \in free : k < i})
Stretched(sizes, free, extra) ==
    LET per == Share(extra, Cardinality(free))
        rest == Rest(extra, Cardinality(free))
        share(i) == IF extra > 0 THEN sizes[i] + per + (IF Turn(free, i) < rest THEN 1 ELSE 0)
                    ELSE Larger(sizes[i] + per - (IF Turn(free, i) < -rest THEN 1 ELSE 0), 0)
    IN  IF extra = 0 \/ free = {} THEN sizes
        ELSE [i \in DOMAIN sizes |-> IF i \in free THEN share(i) ELSE sizes[i]]

Aligned(align, extra) ==
    CASE align = "center" -> Share(extra, 2) [] align = "end" -> extra [] OTHER -> 0
Before(sizes, i, gap) == Total(SubSeq(sizes, 1, i - 1)) + (i - 1) * gap

\* BoxLayout::apply: the boxes of the visible children, one after the other.  Along
\* the box lengths are those its children stretch to, across it each has its own.
AlongBox(stretch, wanted, free, extra) ==
    IF stretch THEN Stretched(wanted, free, extra) ELSE wanted
Across(layout, stretch, room, size) ==
    IF stretch THEN <<0, room>>
    ELSE <<Aligned(IF layout.way = "h" THEN layout.valign ELSE layout.halign, room - size), size>>
BoxPlaces(layout, inner, psizes, free) ==
    LET row == layout.way = "h"
        wanted == IF row THEN Widths(psizes) ELSE Heights(psizes)
        across == IF row THEN Heights(psizes) ELSE Widths(psizes)
        stretch == (IF row THEN layout.hstretch ELSE layout.vstretch) /\ free # {}
        place(from, length, at) ==
            IF row THEN Box(inner.x + from, inner.y + at[1], length, at[2])
            ELSE Box(inner.x + at[1], inner.y + from, at[2], length)
    IN  Then((IF row THEN inner.w ELSE inner.h) - Total(wanted)
                 - Gaps(Len(psizes), layout.gap), LAMBDA extra :
        Then(AlongBox(stretch, wanted, free, extra), LAMBDA sizes :
        Then(IF stretch THEN 0
             ELSE Aligned(IF row THEN layout.halign ELSE layout.valign, extra), LAMBDA start :
             [i \in DOMAIN psizes |->
                 place(start + Before(sizes, i, layout.gap), sizes[i],
                       Across(layout, IF row THEN layout.vstretch ELSE layout.hstretch,
                              IF row THEN inner.h ELSE inner.w, across[i]))])))

\* TableLayout::apply: the rows lie close together.
TablePlaces(layout, inner, psizes) ==
    Then(TableWidths(layout, psizes), LAMBDA wanted :
    Then(TableHeights(layout, psizes), LAMBDA heights :
    Then(inner.w - Total(wanted) - Gaps(layout.columns, layout.gap), LAMBDA extra :
    Then(Stretched(wanted, {k + 1 : k \in layout.stretched}, extra), LAMBDA widths :
         LET x == inner.x + (IF layout.stretched = {} THEN Share(extra, 2) ELSE 0)
             y == inner.y + Share(inner.h - Total(heights), 2)
             column(i) == ((i - 1) % layout.columns) + 1
             row(i) == ((i - 1) \div layout.columns) + 1
         IN  [i \in DOMAIN psizes |->
                 Box(x + Before(widths, column(i), layout.gap),
                     y + Before(heights, row(i), 0), widths[column(i)], heights[row(i)])]))))

ApplyLayout(u, id) ==
    LET c == u.comp[id]
        layout == c.layout
        inner == Inner(c.bounds, c.margins)
        visible == VisibleChildren(u, c)
        free == {i \in DOMAIN visible : ~u.comp[visible[i]].fixed}
        put(places) == FoldLeft(LAMBDA v, i : SetBounds(v, visible[i], places[i]), u,
                                [i \in DOMAIN visible |-> i])
    IN  IF layout.way = "none" THEN u
        ELSE Then(Sizes(u, visible, PassedOn(layout, inner.w, inner.h), PreferredSize),
                  LAMBDA psizes :
             put(IF layout.way = "table" THEN TablePlaces(layout, inner, psizes)
                 ELSE BoxPlaces(layout, inner, psizes, free)))

\* Component::maybeValidate, and validate of every kind but windows.
RECURSIVE MaybeValidate(_, _)
ValidateContainer(u, id) ==
    FoldLeft(LAMBDA v, d : MaybeValidate(v, d), ApplyLayout(u, id), u.comp[id].children)
MaybeValidate(u, id) ==
    LET c == u.comp[id]
    IN  IF ~c.visible \/ c.valid \/ IsEmpty(c.bounds) THEN u
        ELSE Then(CASE HasText(c) -> [u EXCEPT !.comp[id].line = c.text]
                    [] c.kind = "field" -> UpdateDocumentPos(u, id)
                    [] c.kind = "box" -> ValidateContainer(u, id)
                    [] OTHER -> u, LAMBDA v :
                  [v EXCEPT !.comp[id].valid = TRUE])

\* Window::pack and center.
Pack(u, w) ==
    LET b == u.comp[w].bounds
        size == PreferredSize(u, w, -1, -1)
    IN  SetBounds(u, w, Box(b.x, b.y, size[1], size[2]))
Center(u, w) ==
    LET b == u.comp[w].bounds IN
    SetBounds(u, w, Box(Share(u.size[1] - b.w, 2), Share(u.size[2] - b.h, 2), b.w, b.h))

(***************************************************************************)
(* draw: the background, the border, the component's own, its children.    *)
(***************************************************************************)
Own(c) ==
    CASE c.kind = "label" -> LabelPicture(c)
      [] c.kind = "status" -> StatusPicture(c)
      [] c.kind = "button" -> ButtonPicture(c)
      [] c.kind = "check" -> CheckPicture(c)
      [] c.kind = "field" -> FieldPicture(c)
      [] c.kind = "list" -> ListPicture(c)
      [] OTHER -> NoPicture
Ground(c) ==
    IF c.kind = "window" THEN [d \in Cells(Whole(c.bounds)) |-> c.back]
    ELSE Fill(Whole(c.bounds), c.back)

RECURSIVE Look(_, _)
Look(u, id) ==
    LET c == u.comp[id] IN
    FoldLeft(LAMBDA p, d :
                IF u.comp[d].visible
                THEN On(Placed(Look(u, d), u.comp[d].bounds.x, u.comp[d].bounds.y), p)
                ELSE p,
             On(Own(c), On(BorderPicture(c.border, c.bounds), Ground(c))), c.children)

=============================================================================
