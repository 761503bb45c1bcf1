----------------------------- MODULE ScreenText -----------------------------
(* Fields one types in, and what undoes the typing (ui/TextComponent.cpp:  *)
(* Document, RegExpDocument, TextComponent, TextField, PasswordField,      *)
(* TextEditCommand; Qt's QUndoStack).  What a field shows is a part of its *)
(* text, kept in step with the cursor; each edit paints again no more than *)
(* it must.                                                                *)
EXTENDS ScreenTree

CONSTANTS Letters, Digits     \* characters, as the expressions tell them apart

\* A document and its undo stack: the commands, and how many of them are done.
\* base is the text the stack started from; the code does not keep it.
\* Return goes on to the next component before anything else.
NewField(minWidth, text, limit, exp) ==
    [Fresh("field") EXCEPT !.slots.entered = <<[does |-> "transfer"]>>] @@
    [minWidth |-> minWidth, text |-> text, limit |-> limit, exp |-> exp,
     docPos |-> 0, cursor |-> Len(text), hint |-> << >>, matching |-> FALSE,
     match |-> -1, right |-> FALSE, secret |-> FALSE,
     commands |-> << >>, done |-> 0, base |-> text]

\* The regular expressions of the program's fields.
Matches(exp, text) ==
    CASE exp = "any" -> TRUE
      [] exp = "name" -> Range(text) \subseteq Letters \cup Digits
      [] exp = "digits" -> Range(text) \subseteq Digits
      [] exp = "email" -> /\ Range(text) \subseteq Letters \cup Digits \cup {"@"}
                          /\ Cardinality({i \in DOMAIN text : text[i] = "@"}) <= 1

\* Document::insert, RegExpDocument::insert: all of it or nothing.
Inserted(c, text, at, new) ==
    LET wanted == SubSeq(text, 1, at) \o new \o SubSeq(text, at + 1, Len(text)) IN
    IF Matches(c.exp, wanted) /\ Len(wanted) <= c.limit THEN wanted ELSE text
Removed(text, at, length) ==
    SubSeq(text, 1, at) \o SubSeq(text, at + length + 1, Len(text))

(***************************************************************************)
(* What is to be painted again.                                            *)
(***************************************************************************)
AreaWidth(c) == c.bounds.w - c.margins.l - c.margins.r - 2

\* The text stands at the right as long as it is shorter than the field.
AtRight(c) == c.right /\ Len(c.text) < AreaWidth(c)

TextX(c, at) ==
    IF AtRight(c) THEN AreaWidth(c) - (IF c.focused THEN 1 ELSE 0) - Len(c.text) + at
    ELSE at - c.docPos
DirtyText(u, f, at, length) ==
    LET c == u.comp[f]
    IN  Dirty(u, f, Box(c.margins.l + 1 + TextX(c, at), c.margins.t, length, 1))

\* Mutant: what was deleted at the end stays on the screen.
ForgetsTheEnd(u, f, at, deleted) ==
    LET c == u.comp[f] IN
    IF AtRight(c) THEN DirtyText(u, f, -deleted, at + deleted + 1)
    ELSE DirtyText(u, f, at, Smaller(Len(c.text) - at, AreaWidth(c) - at + c.docPos))
DirtyRest(u, f, at, deleted) ==
    LET c == u.comp[f] IN
    IF AtRight(c) THEN DirtyText(u, f, -deleted, at + deleted + 1)
    ELSE DirtyText(u, f, at, Smaller(Len(c.text) - at + deleted + 1,
                                     AreaWidth(c) - at + c.docPos))

\* updateDocumentPos: the part shown follows the cursor; when it moves, all of
\* the field is to be painted, else what the caller says.
DocPos(c) ==
    LET width == AreaWidth(c) - 1 IN
    Bound(Larger(c.cursor - width, 0), c.docPos, Smaller(c.cursor, Len(c.text) - width))
Following(u, f, otherwise) ==
    LET p == DocPos(u.comp[f]) IN
    IF p = u.comp[f].docPos THEN otherwise ELSE DirtyAll([u EXCEPT !.comp[f].docPos = p], f)
UpdateDocumentPos(u, f) == Following(u, f, u)

(***************************************************************************)
(* The parenthesis that matches the one at the cursor.                     *)
(***************************************************************************)
DirtyMatch(u, f) ==
    LET c == u.comp[f] IN
    IF c.match >= c.docPos /\ c.match < c.docPos + AreaWidth(c)
    THEN DirtyText(u, f, c.match, 1) ELSE DirtyAll(u, f)

ClearMatch(u, f) ==
    IF u.comp[f].match = -1 THEN u ELSE [DirtyMatch(u, f) EXCEPT !.comp[f].match = -1]
ShowMatch(u, f, at) == DirtyMatch([u EXCEPT !.comp[f].match = at], f)

Opening == [b \in {")", "]"} |-> IF b = ")" THEN "(" ELSE "["]
Closing == [b \in {"(", "["} |-> IF b = "(" THEN ")" ELSE "]"]

\* The place at which the depth first comes back to zero, forwards from an
\* opening parenthesis or backwards from a closing one; -1 when it never does.
\* Places count from 0, as in the code.
Count(text, places, ch) == Cardinality({k \in places : text[k + 1] = ch})
Forwards(text, at, ch, other) ==
    SelectInSeq([k \in 1 .. Len(text) - at |-> at + k - 1], LAMBDA i :
        Count(text, at .. i, ch) = Count(text, at .. i, other))
Backwards(text, at, ch, other) ==
    SelectInSeq([k \in 1 .. at + 1 |-> at + 1 - k], LAMBDA i :
        Count(text, i .. at, ch) = Count(text, i .. at, other))
MatchOf(text, at, ch) ==
    IF ch \in DOMAIN Closing
    THEN Then(Forwards(text, at, ch, Closing[ch]), LAMBDA k : IF k = 0 THEN -1 ELSE at + k - 1)
    ELSE Then(Backwards(text, at, ch, Opening[ch]), LAMBDA k : IF k = 0 THEN -1 ELSE at + 1 - k)

\* At the cursor, or else before it.
ParenAt(c, i) ==
    i >= 0 /\ i < Len(c.text) /\ c.text[i + 1] \in DOMAIN Opening \cup DOMAIN Closing
MatchAt(c) ==
    Then(IF ParenAt(c, c.cursor) THEN c.cursor ELSE c.cursor - 1, LAMBDA at :
         IF c.matching /\ ParenAt(c, at) THEN MatchOf(c.text, at, c.text[at + 1]) ELSE -1)
MaybeShowMatch(u, f) ==
    Then(MatchAt(u.comp[f]), LAMBDA match :
         IF match = -1 THEN ClearMatch(u, f) ELSE ShowMatch(ClearMatch(u, f), f, match))

(***************************************************************************)
(* Moving the cursor, and editing.                                         *)
(***************************************************************************)
SetCursorPosition(u, f, pos) ==
    LET old == u.comp[f].cursor
        v == [u EXCEPT !.comp[f].cursor = pos]
    IN  IF old = pos THEN u
        ELSE MaybeShowMatch(
                Following(v, f, DirtyText(DirtyText(v, f, pos, 1), f, old, 1)), f)

\* Left and Right.
StepCursor(u, f, by) ==
    LET pos == u.comp[f].cursor + by
        v == [u EXCEPT !.comp[f].cursor = pos]
    IN  IF pos < 0 \/ pos > Len(u.comp[f].text) THEN u
        ELSE MaybeShowMatch(Following(v, f,
                DirtyText(v, f, IF by < 0 THEN pos ELSE pos - 1, 2)), f)

\* Ctrl-Left and Ctrl-Right: the beginning of the word before, the end of the
\* word after.
WordChar(ch) == ch \in Letters \cup Digits
PreviousWord(c) ==
    LET starts == {i \in 1 .. c.cursor - 1 :
                      WordChar(c.text[i + 1]) /\ ~WordChar(c.text[i])}
    IN  IF starts = {} THEN 0 ELSE Max(starts)
NextWord(c) ==
    LET ends == {i \in c.cursor + 1 .. Len(c.text) - 1 :
                    ~WordChar(c.text[i + 1]) /\ WordChar(c.text[i])}
    IN  IF ends = {} THEN Len(c.text) ELSE Min(ends)

\* What to paint again: up to the last change of a text that stands at the right,
\* from the first change of any other.
Edited(u, f, text, cursor, last, first, deleted) ==
    Then([u EXCEPT !.comp[f].text = text, !.comp[f].cursor = cursor], LAMBDA v :
         Following(v, f, DirtyRest(v, f,
             IF AtRight(v.comp[f]) THEN last ELSE first, deleted)))

Grown(u, f, at, text, delta, cursorAfter) ==
    LET cursor == u.comp[f].cursor IN
    Then(Emit(Edited(u, f, text, at + (IF cursorAfter THEN delta ELSE 0),
                     Larger(at + delta - 1, cursor + delta), Smaller(cursor, at), 0),
              f, "changed"), LAMBDA v :
         MaybeShowMatch(IF Len(text) = v.comp[f].limit THEN Emit(v, f, "full") ELSE v, f))
InsertText(u, f, at, new, cursorAfter) ==
    LET c == u.comp[f] IN
    Then(Inserted(c, c.text, at, new), LAMBDA text :
         IF Len(text) = Len(c.text) THEN u
         ELSE Grown(u, f, at, text, Len(text) - Len(c.text), cursorAfter))

RemoveText(u, f, at, length) ==
    LET c == u.comp[f] IN
    IF length = 0 THEN u
    ELSE Emit(MaybeShowMatch(
             Edited(u, f, Removed(c.text, at, length), at,
                    Larger(at, c.cursor - length), Smaller(c.cursor, at), length), f),
             f, "changed")

\* setText: the undo stack starts anew.
SetFieldText(u, f, text) ==
    LET new == Inserted(u.comp[f], << >>, 0, text)
        v == [u EXCEPT !.comp[f].text = new, !.comp[f].docPos = 0,
                       !.comp[f].cursor = Len(new), !.comp[f].commands = << >>,
                       !.comp[f].done = 0, !.comp[f].base = new]
    IN  MaybeShowMatch(Following(v, f, DirtyAll(v, f)), f)

(***************************************************************************)
(* Undo and redo.                                                          *)
(***************************************************************************)
Insertion(at, text) ==
    [insertion |-> TRUE, backspace |-> FALSE, at |-> at, text |-> text]
Deletion(c, at, backspace) ==
    [insertion |-> FALSE, backspace |-> backspace, at |-> at, text |-> <<c.text[at + 1]>>]

\* TextEditCommand::apply: an insertion remembers what of it the document took.
Apply(u, f, cmd, reverse) ==
    IF cmd.insertion = reverse THEN RemoveText(u, f, cmd.at, Len(cmd.text))
    ELSE InsertText(u, f, cmd.at, cmd.text, cmd.insertion \/ cmd.backspace)
Applied(c, cmd, reverse) ==
    IF cmd.insertion = reverse \/ Len(Inserted(c, c.text, cmd.at, cmd.text)) # Len(c.text)
    THEN cmd ELSE [cmd EXCEPT !.text = << >>]

Space(ch) == ch = " "

\* Mutant: what is typed elsewhere is taken to follow.
MergesApart(old, new) ==
    IF old.insertion
    THEN /\ new.insertion
         /\ \/ old.text = << >>
            \/ new.text = << >>
            \/ ~Space(Last(old.text))
            \/ Space(Head(new.text))
    ELSE /\ ~new.insertion
         /\ old.backspace = new.backspace
         /\ old.at = new.at + (IF old.backspace THEN Len(new.text) ELSE 0)
\* mergeWith: two commands that follow each other become one; an insertion is
\* not continued from a space into a word.
Merges(old, new) ==
    IF old.insertion
    THEN /\ new.insertion
         /\ old.at + Len(old.text) = new.at
         /\ \/ old.text = << >>
            \/ new.text = << >>
            \/ ~Space(Last(old.text))
            \/ Space(Head(new.text))
    ELSE /\ ~new.insertion
         /\ old.backspace = new.backspace
         /\ old.at = new.at + (IF old.backspace THEN Len(new.text) ELSE 0)
Merged(old, new) ==
    IF old.insertion \/ ~old.backspace THEN [old EXCEPT !.text = @ \o new.text]
    ELSE [old EXCEPT !.text = new.text \o @, !.at = new.at]

Continued(kept, new) ==
    IF kept # << >> /\ Merges(Last(kept), new)
    THEN Append(Front(kept), Merged(Last(kept), new)) ELSE Append(kept, new)

\* QUndoStack::push: what was undone is dropped.
Push(u, f, cmd) ==
    LET c == u.comp[f] IN
    Then(Continued(SubSeq(c.commands, 1, c.done), Applied(c, cmd, FALSE)), LAMBDA all :
         [Apply(u, f, cmd, FALSE) EXCEPT !.comp[f].commands = all, !.comp[f].done = Len(all)])

Undo(u, f) ==
    LET c == u.comp[f]
        cmd == c.commands[c.done]
    IN  IF c.done = 0 THEN u
        ELSE [Apply(u, f, cmd, TRUE) EXCEPT
                 !.comp[f].commands[c.done] = Applied(c, cmd, TRUE),
                 !.comp[f].done = @ - 1]
Redo(u, f) ==
    LET c == u.comp[f]
        cmd == c.commands[c.done + 1]
    IN  IF c.done = Len(c.commands) THEN u
        ELSE [Apply(u, f, cmd, FALSE) EXCEPT
                 !.comp[f].commands[c.done + 1] = Applied(c, cmd, FALSE),
                 !.comp[f].done = @ + 1]

(***************************************************************************)
(* What a field looks like.                                                *)
(***************************************************************************)
\* The part shown, moved to have the match in it.
ShownPos(c) ==
    IF ~c.focused \/ c.match = -1 THEN c.docPos
    ELSE IF c.match < c.docPos THEN c.match
    ELSE IF c.match >= c.docPos + AreaWidth(c) THEN c.match - AreaWidth(c) + 1
    ELSE c.docPos
ShownText(c) == IF c.secret THEN [i \in DOMAIN c.text |-> "*"] ELSE c.text
HintPicture(c, x, y, width) ==
    LET hint == SubSeq(c.hint, 1, Smaller(Len(c.hint), width))
    IN  Glyphs(x + (IF c.right THEN width - Len(hint) ELSE 0), y, Plain(hint, DimFlag))
WordsPicture(c, x, y, width, pos, flags) ==
    LET length == Len(c.text)
        first == IF AtRight(c) THEN x + width - (IF c.focused THEN 1 ELSE 0) - length ELSE x
        shown == IF AtRight(c) THEN ShownText(c)
                 ELSE SubSeq(ShownText(c), pos + 1, pos + Smaller(length - pos, width))
    IN  Glyphs(first, y, Plain(shown, flags))
MarkPicture(c, x, y, width, pos, at) ==
    LET length == Len(c.text)
        place == IF AtRight(c) THEN width - length - 1 + at ELSE at - pos
        glyph == <<IF at < length THEN ShownText(c)[at + 1] ELSE " ", ReverseFlag>>
    IN  IF at = -1 \/ (~AtRight(c) /\ (at < pos \/ at >= pos + width)) THEN NoPicture
        ELSE Glyphs(x + place, y, <<glyph>>)
FieldPicture(c) ==
    LET x == c.margins.l + 1
        y == c.margins.t
        width == AreaWidth(c)
        flags == IF c.enabled THEN 0 ELSE DimFlag
        brackets == On(Glyphs(x - 1, y, <<<<"[", flags>>>>),
                       Glyphs(x + width, y, <<<<"]", flags>>>>))
        words(pos) == CASE c.text # << >> -> WordsPicture(c, x, y, width, pos, flags)
                        [] c.text = << >> /\ ~c.focused -> HintPicture(c, x, y, width)
                        [] OTHER -> NoPicture
        marks(pos) == IF c.focused THEN On(MarkPicture(c, x, y, width, pos, c.match),
                                           MarkPicture(c, x, y, width, pos, c.cursor))
                      ELSE NoPicture
    IN  Then(ShownPos(c), LAMBDA pos : On(marks(pos), On(words(pos), brackets)))

=============================================================================
