---------------------------- MODULE ScreenClient ----------------------------
(* The page that shows a session's windows: what it keeps of them, and how *)
(* it draws the part of its display that changed (www/js/client.js).       *)
EXTENDS ScreenGeometry

\* The least box around two, the client's dirty region.
Union(a, b) ==
    IF IsEmpty(a) THEN b ELSE IF IsEmpty(b) THEN a
    ELSE LET x == Smaller(a.x, b.x)
             y == Smaller(a.y, b.y)
         IN  Box(x, y, Larger(a.x + a.w, b.x + b.w) - x, Larger(a.y + a.h, b.y + b.h) - y)

\* socket.onopen.
FreshPage(size, cookies) ==
    [size |-> size, windows |-> << >>, dirty |-> Box(0, 0, size[1], size[2]),
     display |-> [c \in Cells(Box(0, 0, size[1], size[2])) |-> Blank],
     sealed |-> FALSE, cookies |-> cookies]

AddDirtyRegion(page, b) == [page EXCEPT !.dirty = Union(@, b)]
WindowIndex(page, id) == SelectInSeq(page.windows, LAMBDA w : w.id = id)

\* Above all windows of its layer, below those of higher ones.
AddWindow(page, w) ==
    LET at == SelectLastInSeq(page.windows, LAMBDA v : w.layer >= v.layer)
    IN  AddDirtyRegion([page EXCEPT !.windows = InsertAt(@, at + 1, w)], w.bounds)

UpdateWindow(page, m) ==
    LET i == WindowIndex(page, m.id)
        blank == [c \in Cells(Whole(m.bounds)) |-> m.fill]
        new == [id |-> m.id, layer |-> m.layer, bounds |-> m.bounds, contents |-> blank]
        old == page.windows[i]
        placed == IF old.layer = m.layer THEN page
                  ELSE AddWindow([page EXCEPT !.windows = RemoveAt(@, i)],
                                 [old EXCEPT !.layer = m.layer])
        at == WindowIndex(placed, m.id)
        kept == [c \in DOMAIN blank |-> IF c \in DOMAIN old.contents THEN old.contents[c]
                                        ELSE m.fill]
    IN  IF i = 0 THEN AddWindow(page, new)
        ELSE [AddDirtyRegion(AddDirtyRegion(placed, old.bounds), m.bounds) EXCEPT
                 !.windows[at].contents = kept, !.windows[at].bounds = m.bounds]

RemoveWindow(page, m) ==
    LET i == WindowIndex(page, m.id)
    IN  IF i = 0 THEN page
        ELSE AddDirtyRegion([page EXCEPT !.windows = RemoveAt(@, i)], page.windows[i].bounds)

\* The least box around some cells: they are sent as the boxes they make up.
Around(cells) ==
    LET xs == {c[1] : c \in cells}
        ys == {c[2] : c \in cells}
    IN  IF cells = {} THEN NoBox
        ELSE Box(Min(xs), Min(ys), Max(xs) - Min(xs) + 1, Max(ys) - Min(ys) + 1)

SetWindowContents(page, m) ==
    LET i == WindowIndex(page, m.id)
        b == page.windows[i].bounds
    IN  IF i = 0 THEN page
        ELSE AddDirtyRegion([page EXCEPT !.windows[i].contents = m.picture @@ @],
                            Shift(Around(DOMAIN m.picture), b.x, b.y))

\* What was where it comes from is filled, then it is put where it goes to.
MoveWindowContents(page, m) ==
    LET i == WindowIndex(page, m.id)
        b == page.windows[i].bounds
        to == [m.from EXCEPT !.x = m.to[1], !.y = m.to[2]]
        moved(contents) ==
            Placed(Cut(contents, Cells(m.from)), to.x - m.from.x, to.y - m.from.y)
        region(box) == Shift(box, b.x, b.y)
    IN  IF i = 0 THEN page
        ELSE AddDirtyRegion(AddDirtyRegion(
                [page EXCEPT !.windows[i].contents = On(moved(@), On(Fill(m.from, m.fill), @))],
                region(m.from)), region(to))

SetCookieIn(page, m) ==
    CASE m.name = "username" -> [page EXCEPT !.cookies.name = m.value]
      [] m.name = "stay_logged_in" -> [page EXCEPT !.cookies.stay = m.value]
      [] OTHER -> page

\* decodeMessage, of a message that is not a compound.
DecodeMessage(page, m) ==
    CASE m.say = "update" -> UpdateWindow(page, m)
      [] m.say = "remove" -> RemoveWindow(page, m)
      [] m.say = "contents" -> SetWindowContents(page, m)
      [] m.say = "move" -> MoveWindowContents(page, m)
      [] m.say = "cookie" -> SetCookieIn(page, m)
      [] m.say = "crypto" -> [page EXCEPT !.sealed = ~@]

\* What shows in a cell: the topmost window that is not transparent there.
Shown(windows, c) ==
    LET at == SelectLastInSeq(windows, LAMBDA w :
                /\ Holds(w.bounds, c[1], c[2])
                /\ w.contents[<<c[1] - w.bounds.x, c[2] - w.bounds.y>>] # Nothing)
        w == windows[at]
    IN  IF at = 0 THEN Blank ELSE w.contents[<<c[1] - w.bounds.x, c[2] - w.bounds.y>>]

UpdateDisplay(page) ==
    LET cells == Cells(page.dirty) \cap DOMAIN page.display
    IN  [page EXCEPT !.dirty = NoBox,
                     !.display = [c \in cells |-> Shown(page.windows, c)] @@ @]

\* socket.onmessage: one message, or a compound of several.
OnMessage(page, said) ==
    LET decoded == FoldLeft(DecodeMessage, page, said)
        modified == \E i \in DOMAIN said : said[i].say \notin {"cookie", "crypto"}
    IN  IF modified THEN UpdateDisplay(decoded) ELSE decoded

=============================================================================
