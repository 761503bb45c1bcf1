--------------------------- MODULE ScreenGeometry ---------------------------
(* Boxes of character cells, and what is painted in them (Qt's QRect;      *)
(* ui/Component.cpp DrawContext; ui/Border.cpp; util/General.cpp).         *)
(*                                                                         *)
(* A cell is <<column, row>>, a glyph a character with its flags, and a    *)
(* picture a function from the cells painted to glyphs.  The code paints   *)
(* into the rectangles of a window's dirty region only; here the whole     *)
(* picture is composed and cut down to the dirty cells at the end.         *)
EXTENDS Integers, Sequences, SequencesExt

Larger(a, b) == IF a > b THEN a ELSE b
Smaller(a, b) == IF a < b THEN a ELSE b
Bound(lo, v, hi) == Larger(lo, Smaller(hi, v))     \* qBound

\* Division and remainder as in C++: towards zero.
Share(n, d) == IF n >= 0 THEN n \div d ELSE -((-n) \div d)
Rest(n, d) == n - d * Share(n, d)

Box(x, y, w, h) == [x |-> x, y |-> y, w |-> w, h |-> h]
NoBox == Box(0, 0, 0, 0)
IsEmpty(b) == b.w <= 0 \/ b.h <= 0
Cells(b) == (b.x .. b.x + b.w - 1) \X (b.y .. b.y + b.h - 1)
Whole(b) == Box(0, 0, b.w, b.h)
Shift(b, dx, dy) == [b EXCEPT !.x = @ + dx, !.y = @ + dy]
Holds(b, x, y) == <<x, y>> \in Cells(b)

Margins(l, t, r, b) == [l |-> l, t |-> t, r |-> r, b |-> b]
Inner(b, m) == Box(m.l, m.t, b.w - (m.l + m.r), b.h - (m.t + m.b))

Meet(a, b) ==
    LET x == Larger(a.x, b.x)
        y == Larger(a.y, b.y)
    IN  Box(x, y, Smaller(a.x + a.w, b.x + b.w) - x,
                  Smaller(a.y + a.h, b.y + b.h) - y)

\* Glyphs: a character and its flags, REVERSE_FLAG and DIM_FLAG; zero, the
\* background of the chat window, lets what is below show through.
ReverseFlag == 1
DimFlag == 2
Nothing == <<"", 0>>
Blank == <<" ", 0>>
With(flag, g) == IF (g[2] \div flag) % 2 = 1 THEN g ELSE <<g[1], g[2] + flag>>
Without(flag, g) == IF (g[2] \div flag) % 2 = 1 THEN <<g[1], g[2] - flag>> ELSE g
Flagged(flag, on, text) ==
    [i \in DOMAIN text |-> IF on THEN With(flag, text[i]) ELSE Without(flag, text[i])]
Plain(chars, flags) == [i \in DOMAIN chars |-> <<chars[i], flags>>]

\* QIntVector::createHighlighted: a label is given as its characters and the
\* place of the one marked as its mnemonic, 0 for none.
Highlighted(label) ==
    [i \in DOMAIN label.text |-> <<label.text[i], IF i = label.mark THEN ReverseFlag ELSE 0>>]

(***************************************************************************)
(* Painting.                                                               *)
(***************************************************************************)
NoPicture == [c \in {} |-> Nothing]
On(above, below) == above @@ below
Fill(b, g) == IF g = Nothing THEN NoPicture ELSE [c \in Cells(b) |-> g]
Glyphs(x, y, text) == [c \in Cells(Box(x, y, Len(text), 1)) |-> text[c[1] - x + 1]]
Placed(picture, dx, dy) ==
    [c \in {<<d[1] + dx, d[2] + dy>> : d \in DOMAIN picture} |->
        picture[<<c[1] - dx, c[2] - dy>>]]
Cut(picture, cells) == [c \in DOMAIN picture \cap cells |-> picture[c]]

\* FrameBorder, and TitledBorder, which puts a title in the middle of the top;
\* no border has no margins.  (CharBorder with a transparent character is
\* only its margins.)
BorderMargins(border) ==
    IF border.kind \in {"frame", "titled"} THEN Margins(1, 1, 1, 1)
    ELSE IF border.kind = "sides" THEN Margins(1, 0, 1, 0) ELSE Margins(0, 0, 0, 0)
Framed(b) ==
    LET right == b.w - 1
        bottom == b.h - 1
    IN  [c \in Cells(Whole(b)) \ Cells(Inner(b, Margins(1, 1, 1, 1))) |->
            CASE c[1] \in {0, right} /\ c[2] \in {0, bottom} -> <<"+", 0>>
              [] c[1] \in {0, right} /\ c[2] \notin {0, bottom} -> <<"|", 0>>
              [] OTHER -> <<"-", 0>>]
BorderPicture(border, b) ==
    LET length == Smaller(Len(border.title), b.w)
        title == Glyphs(Share(b.w - length, 2), 0, SubSeq(border.title, 1, length))
    IN  CASE border.kind = "frame" -> Framed(b)
          [] border.kind = "titled" -> On(title, Framed(b))
          [] OTHER -> NoPicture

NoBorder == [kind |-> "none", title |-> << >>]
FrameBorder == [kind |-> "frame", title |-> << >>]
SideBorder == [kind |-> "sides", title |-> << >>]
TitledBorder(title) == [kind |-> "titled", title |-> title]

=============================================================================
