----------------------------- MODULE ScriptData -----------------------------
(* The objects of the script language, how they are printed and how they   *)
(* are read (script/ScriptObject.h, script/ScriptObject.cpp,               *)
(* script/Lexer.cpp, script/Parser.cpp).                                   *)
(*                                                                         *)
(* An object is a tuple that starts with its type.  What cannot be changed *)
(* is a value, lists and vectors included: the procedures that change them *)
(* in place are left out, and so is what tells two equal ones apart.  The  *)
(* positions of data in the text serve error messages only.                *)
EXTENDS Integers, Sequences, TLC, SequencesExt

CONSTANTS
    IntBits   \* the width of an int

----------------------------------------------------------------------------
(* Objects *)

\* int, and what becomes of a result that does not fit.
MaxInt == 2 ^ (IntBits - 1) - 1
Wrap(n) == ((n + MaxInt + 1) % (2 * (MaxInt + 1))) - (MaxInt + 1)

Type(v) == v[1]

Boolean(b) == <<"boolean", b>>
Integer(n) == <<"integer", Wrap(n)>>
Char(c) == <<"char", c>>
String(s) == <<"string", s>>
Symbol(s) == <<"symbol", s>>
Null == <<"null">>
Pair(a, d) == <<"pair", a, d>>
Vector(s) == <<"vector", s>>
ByteVector(s) == <<"bytevector", s>>
Unspecified == <<"unspecified">>
Sentinel(c) == <<"sentinel", c>>
Device == <<"wrapped", "device">>

\* A float is the fraction n / d; its rounding is left out.
RECURSIVE Gcd(_, _)
Gcd(m, n) == IF n = 0 THEN m ELSE Gcd(n, m % n)
Magnitude(n) == IF n < 0 THEN -n ELSE n
Float(n, d) ==
    LET g == Gcd(Magnitude(n), Magnitude(d)) * (IF d < 0 THEN -1 ELSE 1)
    IN  <<"float", n \div g, d \div g>>

\* What the compiler and the machine add to them.
Variable(depth, idx) == <<"variable", depth, idx>>
Lambda(args, rest, vars, code) == <<"lambda", args, rest, vars, code>>
LambdaProcedure(lambda, parent) == <<"procedure", lambda, parent>>
Invocation(frame) == <<"invocation", frame>>
NativeProcedure(f) == <<"native", f>>
ApplyProcedure == <<"apply">>
CaptureProcedure == <<"capture">>
EscapeProcedure(stack, regs) == <<"escape", stack, regs>>
SyntaxRules(templates) == <<"syntax-rules", templates>>
IdentifierSyntax(template, setter) == <<"identifier-syntax", template, setter>>

Car(p) == p[2]
Cdr(p) == p[3]
Name(s) == s[2]
IsPair(v) == Type(v) = "pair"
IsNull(v) == Type(v) = "null"
IsSymbol(v) == Type(v) = "symbol"
IsNamed(v, name) == IsSymbol(v) /\ Name(v) = name
IsNumber(v) == Type(v) \in {"integer", "float"}

ListEnding(items, tail) == FoldRight(Pair, items, tail)
List(items) == ListEnding(items, Null)

\* The elements of a list up to its end, and what it ends in; only a list that ends in the
\* empty list is one (Pair::listLength, listContents).
RECURSIVE Contents(_), Ending(_)
Contents(v) == IF IsPair(v) THEN <<Car(v)>> \o Contents(Cdr(v)) ELSE <<>>
Ending(v) == IF IsPair(v) THEN Ending(Cdr(v)) ELSE v
IsList(v) == IsNull(Ending(v))
HasLength(v, lengths) == IsList(v) /\ Len(Contents(v)) \in lengths

\* equivalent: by what they hold.
Equivalent(p, q) == p = q

----------------------------------------------------------------------------
(* Printing *)

Joined(texts) ==
    FoldLeft(LAMBDA acc, t : IF acc = "" THEN t ELSE acc \o " " \o t, "", texts)

\* A fraction to one place.
FloatText(n, d) ==
    LET tenths == (Magnitude(n) * 10) \div d
        sign == IF n < 0 THEN "-" ELSE ""
        places == IF tenths % 10 = 0 THEN "" ELSE "." \o ToString(tenths % 10)
    IN  sign \o ToString(tenths \div 10) \o places

\* toString
RECURSIVE ToText(_)
PairText(v) ==
    LET end == IF IsList(v) THEN "" ELSE " . " \o ToText(Ending(v))
    IN  "(" \o Joined([i \in 1 .. Len(Contents(v)) |-> ToText(Contents(v)[i])]) \o end \o ")"
VectorText(v) == "#(" \o Joined([i \in 1 .. Len(v[2]) |-> ToText(v[2][i])]) \o ")"
BytesText(v) == "#vu8(" \o Joined([i \in 1 .. Len(v[2]) |-> ToString(v[2][i])]) \o ")"
ToText(v) ==
    CASE Type(v) = "boolean" -> IF v[2] THEN "#t" ELSE "#f"
      [] Type(v) = "integer" -> ToString(v[2])
      [] Type(v) = "float" -> FloatText(v[2], v[3])
      [] Type(v) = "char" -> "#\\x.."
      [] Type(v) = "string" -> "\"" \o v[2] \o "\""
      [] Type(v) = "symbol" -> v[2]
      [] Type(v) = "pair" -> PairText(v)
      [] Type(v) = "null" -> "()"
      [] Type(v) = "vector" -> VectorText(v)
      [] Type(v) = "bytevector" -> BytesText(v)
      [] OTHER -> "{" \o Type(v) \o "}"

----------------------------------------------------------------------------
(* Reading: lexemes *)

Cut(t, i, j) == SubSeq(t, i, IF j <= Len(t) THEN j ELSE Len(t))
At(t, i) == Cut(t, i, i)
Space == {" ", "\n", "\t", "\f", "\r"}
Delimiter == Space \cup {";", "#", "\"", "(", ")", "[", "]"}

CharsOf(s) == {SubSeq(s, i, i) : i \in 1 .. Len(s)}
Digit == CharsOf("0123456789")
Letter == CharsOf("abcdefghijklmnopqrstuvwxyzABCDEFGHIJKLMNOPQRSTUVWXYZ")

NamedChars ==
    "tab" :> "\t" @@ "linefeed" :> "\n" @@ "newline" :> "\n" @@ "page" :> "\f"
        @@ "return" :> "\r" @@ "space" :> " "

\* The characters there are codes for, from Space on.  TLA+ strings do not have the grave
\* accent: a caret stands for it, and for itself.
Ascii == " !\"#$%&'()*+,-./0123456789:;<=>?@ABCDEFGHIJKLMNOPQRSTUVWXYZ"
            \o "[\\]^_^abcdefghijklmnopqrstuvwxyz{|}~"
Code(c) == 31 + CHOOSE i \in 1 .. Len(Ascii) : At(Ascii, i) = c
CharOf(n) == At(Ascii, n - 31)

\* The first place from i on that has a character in S, and the first that has none.
Upto(t, i, S) == CHOOSE j \in i .. Len(t) + 1 :
    At(t, j) \in S \cup {""} /\ \A k \in i .. j - 1 : At(t, k) \notin S
While(t, i, S) == CHOOSE j \in i .. Len(t) + 1 :
    At(t, j) \notin S /\ \A k \in i .. j - 1 : At(t, k) \in S

\* The value of a numeral in a radix: QString::toInt; 0x and 0 are the prefixes of radix 0.
DigitValue(c) ==
    LET i == Upto("0123456789abcdefABCDEF", 1, {c}) IN IF i > 16 THEN i - 7 ELSE i - 1
Valid(s, radix) == s # "" /\ \A c \in CharsOf(s) : DigitValue(c) < radix
Natural(s, radix) ==
    FoldLeft(LAMBDA n, i : n * radix + DigitValue(At(s, i)), 0, [i \in 1 .. Len(s) |-> i])
Numeral(s, radix) ==
    LET signed == At(s, 1) \in {"+", "-"}
        bare == IF signed THEN SubSeq(s, 2, Len(s)) ELSE s
        base == CASE radix # 0 -> radix
                  [] radix = 0 /\ Cut(bare, 1, 2) = "0x" -> 16
                  [] radix = 0 /\ At(bare, 1) = "0" -> 8
                  [] OTHER -> 10
        digits == IF radix = 0 /\ base = 16 THEN SubSeq(bare, 3, Len(bare)) ELSE bare
        value == IF At(s, 1) = "-" THEN -Natural(digits, base) ELSE Natural(digits, base)
    IN  [ok |-> Valid(digits, base) /\ Wrap(value) = value, n |-> value]

\* A decimal numeral: digits around a point.
Decimal(s) ==
    LET dot == Upto(s, 1, {"."})
        places == Len(s) - dot
        whole == Numeral(SubSeq(s, 1, dot - 1) \o SubSeq(s, dot + 1, Len(s)), 10)
    IN  [ok |-> whole.ok, v |-> Float(whole.n, 10 ^ places)]

\* A lexeme, its value, and where to read on.
Lexeme(kind, v, next) == [kind |-> kind, v |-> v, next |-> next]
Bad(t) == Lexeme("error", Null, Len(t) + 1)

\* Lexer::readNumber
ReadNumber(t, i) ==
    LET end == While(t, i, Letter \cup Digit \cup {".", "+", "-"})
        s == SubSeq(t, i, end - 1)
    IN  IF "." \in CharsOf(s)
        THEN IF Decimal(s).ok THEN Lexeme("datum", Decimal(s).v, end) ELSE Bad(t)
        ELSE IF Numeral(s, 0).ok THEN Lexeme("datum", Integer(Numeral(s, 0).n), end) ELSE Bad(t)

\* The escapes of strings that TLA+ strings can hold; a space continues on the next line.
Escapes == "\"" :> "\"" @@ "\\" :> "\\" @@ "t" :> "\t" @@ "n" :> "\n" @@ "f" :> "\f"
              @@ "r" :> "\r"
RECURSIVE ReadString(_, _, _)
ReadString(t, i, acc) ==
    LET c == At(t, i)
        e == At(t, i + 1)
        hex == SubSeq(t, i + 2, Upto(t, i + 2, {";"}) - 1)
    IN  CASE c = "" -> Bad(t)
          [] c = "\"" -> Lexeme("datum", String(acc), i + 1)
          [] c = "\\" /\ e \in DOMAIN Escapes -> ReadString(t, i + 2, acc \o Escapes[e])
          [] c = "\\" /\ e \in Space ->
                ReadString(t, While(t, Upto(t, i + 1, {"\n"}) + 1, Space \ {"\n"}), acc)
          [] c = "\\" /\ e = "x" /\ Valid(hex, 16) ->
                ReadString(t, i + 3 + Len(hex), acc \o CharOf(Natural(hex, 16)))
          [] c = "\\" -> Bad(t)
          [] OTHER -> ReadString(t, i + 1, acc \o c)

\* A character: one alone, a named one, or x and its code; i is the place of its first.
ReadChar(t, i) ==
    LET end == Upto(t, i + 1, Delimiter)
        s == SubSeq(t, i, end - 1)
        hex == SubSeq(s, 2, Len(s))
    IN  CASE Len(s) = 1 -> Lexeme("datum", Char(s), end)
          [] s \in DOMAIN NamedChars -> Lexeme("datum", Char(NamedChars[s]), end)
          [] At(s, 1) = "x" /\ Valid(hex, 16) -> Lexeme("datum", Char(CharOf(Natural(hex, 16))), end)
          [] OTHER -> Bad(t)

\* Where the comment ends that is open to a depth at i.
RECURSIVE AfterComment(_, _, _)
AfterComment(t, i, depth) ==
    CASE depth = 0 \/ i > Len(t) -> i
      [] Cut(t, i, i + 1) = "#|" -> AfterComment(t, i + 2, depth + 1)
      [] Cut(t, i, i + 1) = "|#" -> AfterComment(t, i + 2, depth - 1)
      [] OTHER -> AfterComment(t, i + 1, depth)

\* What follows a # at i, and how many characters it takes.
Hashed ==
    "#t" :> Boolean(TRUE) @@ "#T" :> Boolean(TRUE) @@ "#f" :> Boolean(FALSE) @@ "#F" :> Boolean(FALSE)
Marks == {"#(", "#'", "#^", "#,", "#;"}

\* Lexer::nextLexeme.  A # that starts nothing is an identifier of no characters, after
\* which the lexer stands where it stood.
RECURSIVE NextLexeme(_, _)
NextLexeme(t, i) ==
    LET c == At(t, i)
        cc == Cut(t, i, i + 1)
        word == Lexeme("datum", Symbol(SubSeq(t, i, Upto(t, i, Delimiter) - 1)), Upto(t, i, Delimiter))
    IN  CASE c = "" -> Lexeme("none", Null, i)
          [] c \in Space -> NextLexeme(t, i + 1)
          [] c = ";" -> NextLexeme(t, Upto(t, i, {"\n"}))
          [] c \in {"(", ")", "[", "]", "'", "^"} -> Lexeme(c, Null, i + 1)
          [] cc = ",@" -> Lexeme(cc, Null, i + 2)
          [] c = "," -> Lexeme(c, Null, i + 1)
          [] c = "\"" -> ReadString(t, i + 1, "")
          [] cc \in DOMAIN Hashed -> Lexeme("datum", Hashed[cc], i + 2)
          [] cc = "#\\" /\ i + 2 <= Len(t) -> ReadChar(t, i + 2)
          [] Cut(t, i, i + 2) = "#,@" -> Lexeme("#,@", Null, i + 3)
          [] cc \in Marks -> Lexeme(cc, Null, i + 2)
          [] Cut(t, i, i + 4) = "#vu8(" -> Lexeme("#vu8(", Null, i + 5)
          [] Cut(t, i, i + 5) = "#!r6rs" -> NextLexeme(t, i + 7)
          [] cc = "#|" -> NextLexeme(t, AfterComment(t, i + 2, 1))
          [] c \in {"+", "-"} /\ At(t, i + 1) \in Digit \cup {"."} -> ReadNumber(t, i)
          [] c = "." /\ At(t, i + 1) \in Digit -> ReadNumber(t, i)
          [] c \in Digit -> ReadNumber(t, i)
          [] OTHER -> word

----------------------------------------------------------------------------
(* Reading: data *)

Abbreviations ==
    "'" :> "quote" @@ "^" :> "quasiquote" @@ "," :> "unquote" @@ ",@" :> "unquote-splicing"
        @@ "#'" :> "syntax" @@ "#^" :> "quasisyntax" @@ "#," :> "unsyntax"
        @@ "#,@" :> "unsyntax-splicing"

\* What the parser hands on: a datum, none at the end of the text, or an error.
Parsed(kind, v, next) == [kind |-> kind, v |-> v, next |-> next]
Failed == Parsed("error", Null, 0)
IsSentinel(p) == p.kind = "datum" /\ Type(p.v) = "sentinel"
IsDatum(p) == p.kind = "datum" /\ ~IsSentinel(p)

\* A sequence closed by the right bracket, made into an object.
Closed(p, bracket, v) == IF p.v = Sentinel(bracket) THEN Parsed("datum", v, p.next) ELSE Failed

\* Parser::parseDatum, with the elements of a list, of a vector or of bytes up to their end,
\* and parseAbbreviation, which at the end of the text follows a null pointer.
RECURSIVE ParseDatum(_, _), ParseList(_, _, _, _), ParseVector(_, _, _)
ParseTail(t, i, items, bracket) ==
    LET tail == ParseDatum(t, i)
        end == ParseDatum(t, tail.next)
    IN  IF IsDatum(tail) /\ items # <<>> /\ IsSentinel(end)
        THEN Closed(end, bracket, ListEnding(items, tail.v))
        ELSE Failed
ParseList(t, i, items, bracket) ==
    LET p == ParseDatum(t, i)
    IN  CASE p.kind # "datum" -> Failed
          [] IsSentinel(p) -> Closed(p, bracket, List(items))
          [] IsDatum(p) /\ IsNamed(p.v, ".") -> ParseTail(t, p.next, items, bracket)
          [] OTHER -> ParseList(t, p.next, Append(items, p.v), bracket)
ParseVector(t, i, items) ==
    LET p == ParseDatum(t, i)
    IN  CASE p.kind # "datum" -> Failed
          [] IsSentinel(p) -> Closed(p, ")", Vector(items))
          [] OTHER -> ParseVector(t, p.next, Append(items, p.v))
ParseBytes(t, i) ==
    LET p == ParseVector(t, i, <<>>)
        IsByte(v) == Type(v) = "integer" /\ v[2] \in 0 .. 255
    IN  IF p.kind = "datum" /\ \A k \in DOMAIN p.v[2] : IsByte(p.v[2][k])
        THEN Parsed("datum", ByteVector([k \in DOMAIN p.v[2] |-> p.v[2][k][2]]), p.next)
        ELSE Failed
ParseAbbreviation(t, i, name) ==
    LET p == ParseDatum(t, i)
    IN  IF p.kind = "datum" THEN Parsed("datum", List(<<Symbol(name), p.v>>), p.next) ELSE Failed
ParseDatum(t, i) ==
    LET x == NextLexeme(t, i)
    IN  CASE x.kind = "(" -> ParseList(t, x.next, <<>>, ")")
          [] x.kind = "[" -> ParseList(t, x.next, <<>>, "]")
          [] x.kind = "#(" -> ParseVector(t, x.next, <<>>)
          [] x.kind = "#vu8(" -> ParseBytes(t, x.next)
          [] x.kind \in {")", "]"} -> Parsed("datum", Sentinel(x.kind), x.next)
          [] x.kind \in DOMAIN Abbreviations -> ParseAbbreviation(t, x.next, Abbreviations[x.kind])
          [] x.kind = "#;" ->
                LET p == ParseDatum(t, x.next) IN IF p.kind = "error" THEN p ELSE ParseDatum(t, p.next)
          [] OTHER -> Parsed(x.kind, x.v, x.next)

\* Parser::parse
Parse(t, i) == LET p == ParseDatum(t, i) IN IF IsSentinel(p) THEN Failed ELSE p

=============================================================================
