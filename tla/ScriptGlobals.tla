--------------------------- MODULE ScriptGlobals ---------------------------
(* The native procedures of the script language (script/Globals.cpp).      *)
(*                                                                         *)
(* Each is given its arguments and returns an object, or Raise.  Those     *)
(* that change an object in place, the transcendental ones, the hashes and *)
(* those that reach into the server (evaluator, parent, children,          *)
(* property, set-property!, invoke-method, exit) are left out.             *)
EXTENDS ScriptData

Raise == <<"raise">>
Checked(ok, v) == IF ok THEN v ELSE Raise

Are(args, types) == \A i \in DOMAIN args : Type(args[i]) \in types
Alike(args, type) == Are(args, {type})
\* Arguments of these types, one after the other.
Typed(args, types) == Len(args) = Len(types) /\ \A i \in DOMAIN args : Type(args[i]) \in types[i]

\* Whether each argument stands in a relation to the one before it: false as soon as one does
\* not, whatever follows; but up to there they have to be of the type.
Chain(args, types, Holds(_, _)) ==
    LET fits == {n \in 0 .. Len(args) : Are(SubSeq(args, 1, n), types)}
        fit == CHOOSE n \in fits : \A m \in fits : m <= n
        broken == \E i \in 2 .. fit : ~Holds(args[i - 1], args[i])
    IN  IF Len(args) < 2 \/ fit = 0 \/ (~broken /\ fit < Len(args)) THEN Raise ELSE Boolean(~broken)

----------------------------------------------------------------------------
(* Equivalence *)

\* eq? and eqv?: only what has no identity of its own is compared by what it holds.
eqv(args) ==
    LET a == args[1]
        b == args[2]
    IN  Checked(Len(args) = 2, Boolean(Type(a) = Type(b) /\ a = b))
equal(args) == Checked(Len(args) = 2, Boolean(Equivalent(args[1], args[2])))

----------------------------------------------------------------------------
(* Numbers *)

Numeric == {"integer", "float"}
Numerator(v) == v[2]
Denominator(v) == IF Type(v) = "integer" THEN 1 ELSE v[3]
Integers(a, b) == Type(a) = "integer" /\ Type(b) = "integer"
Difference(a, b) == Numerator(a) * Denominator(b) - Numerator(b) * Denominator(a)
Quotient(n, d) == (IF (n < 0) = (d < 0) THEN 1 ELSE -1) * (Magnitude(n) \div Magnitude(d))
Below(a, b) == Difference(a, b) < 0

Sum(a, b) ==
    IF Integers(a, b) THEN Integer(a[2] + b[2])
    ELSE Float(Numerator(a) * Denominator(b) + Numerator(b) * Denominator(a), Denominator(a) * Denominator(b))
Negated(a) == IF Type(a) = "integer" THEN Integer(-a[2]) ELSE Float(-a[2], a[3])
Minus(a, b) == IF Integers(a, b) THEN Integer(a[2] - b[2]) ELSE Sum(a, Negated(b))
Product(a, b) ==
    IF Integers(a, b) THEN Integer(a[2] * b[2])
    ELSE Float(Numerator(a) * Numerator(b), Denominator(a) * Denominator(b))

\* What a float is when it is divided by zero is left out.
Ratio(a, b) ==
    CASE a = Raise \/ (Integers(a, b) /\ b[2] = 0) -> Raise
      [] a # Raise /\ Integers(a, b) /\ b[2] # 0 -> Integer(Quotient(a[2], b[2]))
      [] OTHER -> Float(Numerator(a) * Denominator(b), Denominator(a) * Numerator(b))

add(args) == Checked(Are(args, Numeric), FoldLeft(Sum, Integer(0), args))
multiply(args) == Checked(Are(args, Numeric), FoldLeft(Product, Integer(1), args))
subtract(args) ==
    Checked(args # <<>> /\ Are(args, Numeric),
            IF Len(args) = 1 THEN Negated(args[1]) ELSE FoldLeft(Minus, args[1], Tail(args)))
\* An integer zero is refused even when it is what is divided.
divide(args) ==
    Checked(args # <<>> /\ Are(args, Numeric) /\ args[1] # Integer(0),
            IF Len(args) = 1 THEN Ratio(Integer(1), args[1]) ELSE FoldLeft(Ratio, args[1], Tail(args)))
\* A division by the integer zero is not checked for: the process does not survive it.
mod(args) ==
    LET a == args[1]
        b == args[2]
        times == Quotient(Numerator(a) * Denominator(b), Denominator(a) * Numerator(b))
    IN  Checked(Typed(args, <<Numeric, Numeric>>), Minus(a, Product(Integer(times), b)))

floorf(args) == Checked(Typed(args, <<Numeric>>), Integer(Numerator(args[1]) \div Denominator(args[1])))
ceiling(args) ==
    Checked(Typed(args, <<Numeric>>), Integer(-((-Numerator(args[1])) \div Denominator(args[1]))))
truncate(args) ==
    Checked(Typed(args, <<Numeric>>), Integer(Quotient(Numerator(args[1]), Denominator(args[1]))))
round(args) ==
    LET half == Float(2 * Numerator(args[1]) + Denominator(args[1]), 2 * Denominator(args[1]))
    IN  Checked(Typed(args, <<Numeric>>), Integer(Numerator(half) \div Denominator(half)))

\* A float that comes first is read as if it were an integer: only zero has the same bits.
equals(args) ==
    LET Same(a, b) == Difference(a, b) = 0 /\ (Type(args[1]) = "float" => Numerator(args[1]) = 0)
    IN  Chain(args, Numeric, Same)
less(args) == Chain(args, Numeric, Below)
greater(args) == Chain(args, Numeric, LAMBDA a, b : Below(b, a))
lessEqual(args) == Chain(args, Numeric, LAMBDA a, b : ~Below(b, a))
greaterEqual(args) == Chain(args, Numeric, LAMBDA a, b : ~Below(a, b))
max(args) ==
    Checked(args # <<>> /\ Are(args, Numeric),
            FoldLeft(LAMBDA best, v : IF Below(best, v) THEN v ELSE best, args[1], Tail(args)))
min(args) ==
    Checked(args # <<>> /\ Are(args, Numeric),
            FoldLeft(LAMBDA best, v : IF Below(v, best) THEN v ELSE best, args[1], Tail(args)))
abs(args) ==
    Checked(Typed(args, <<Numeric>>), IF Numerator(args[1]) < 0 THEN Negated(args[1]) ELSE args[1])
zero(args) == Checked(Typed(args, <<Numeric>>), Boolean(Numerator(args[1]) = 0))
positive(args) == Checked(Typed(args, <<Numeric>>), Boolean(Numerator(args[1]) > 0))
negative(args) == Checked(Typed(args, <<Numeric>>), Boolean(Numerator(args[1]) < 0))

RECURSIVE Digits(_, _)
Digits(n, radix) ==
    LET last == At("0123456789abcdef", (n % radix) + 1)
    IN  IF n < radix THEN last ELSE Digits(n \div radix, radix) \o last
\* A third argument, the precision of a float, changes how much of it is shown.
numberToString(args) ==
    LET v == args[1]
        radix == IF Len(args) >= 2 THEN args[2][2] ELSE 10
        digits == Digits(Magnitude(v[2]), radix)
    IN  Checked(Len(args) \in 1 .. 3 /\ Are(SubSeq(args, 1, 1), Numeric) /\ Are(Tail(args), {"integer"}),
                String(IF Type(v) = "float" THEN FloatText(v[2], v[3])
                       ELSE IF v[2] < 0 THEN "-" \o digits ELSE digits))
stringToNumber(args) ==
    LET s == args[1][2]
        radix == IF Len(args) = 2 THEN args[2][2] ELSE 10
        whole == Numeral(s, radix)
        decimal == Decimal(s)
    IN  Checked(Typed(args, <<{"string"}>>) \/ Typed(args, <<{"string"}, {"integer"}>>),
                IF "." \notin CharsOf(s) \/ radix # 10
                THEN IF whole.ok THEN Integer(whole.n) ELSE Boolean(FALSE)
                ELSE IF decimal.ok THEN decimal.v ELSE Boolean(FALSE))

----------------------------------------------------------------------------
(* Booleans, characters, strings and symbols *)

notfunc(args) == Checked(Len(args) = 1, Boolean(args[1] = Boolean(FALSE)))
Same(a, b) == a = b
booleansEqual(args) == Chain(args, {"boolean"}, Same)

charToInteger(args) == Checked(Typed(args, <<{"char"}>>), Integer(Code(args[1][2])))
integerToChar(args) == Checked(Typed(args, <<{"integer"}>>), Char(CharOf(args[1][2])))
Before(a, b) == Code(a[2]) < Code(b[2])
charsEqual(args) == Chain(args, {"char"}, Same)
charsLess(args) == Chain(args, {"char"}, Before)
charsGreater(args) == Chain(args, {"char"}, LAMBDA a, b : Before(b, a))
charsLessEqual(args) == Chain(args, {"char"}, LAMBDA a, b : ~Before(b, a))
charsGreaterEqual(args) == Chain(args, {"char"}, LAMBDA a, b : ~Before(a, b))

CharAt(s, i) == Char(At(s, i))
CharList(s) == [i \in 1 .. Len(s) |-> CharAt(s, i)]
StringOf(chars) == String(FoldLeft(LAMBDA s, c : s \o c[2], "", chars))

\* Without the second argument the characters are null, which TLA+ strings cannot hold.
makeString(args) ==
    Checked(Typed(args, <<{"integer"}, {"char"}>>), StringOf([i \in 1 .. args[1][2] |-> args[2]]))
string(args) == Checked(Alike(args, "char"), StringOf(args))
stringLength(args) == Checked(Typed(args, <<{"string"}>>), Integer(Len(args[1][2])))
stringRef(args) ==
    Checked(Typed(args, <<{"string"}, {"integer"}>>) /\ args[2][2] \in 0 .. Len(args[1][2]) - 1,
            CharAt(args[1][2], args[2][2] + 1))
\* The order of strings is that of their first difference.
Lower(a, b) ==
    LET s == a[2]
        t == b[2]
        Differ(i) == At(s, i) # At(t, i)
        i == CHOOSE i \in 1 .. Len(s) + Len(t) : Differ(i) /\ \A j \in 1 .. i - 1 : ~Differ(j)
    IN  s # t /\ (At(s, i) = "" \/ (At(t, i) # "" /\ Code(At(s, i)) < Code(At(t, i))))
stringsEqual(args) == Chain(args, {"string"}, Same)
stringsLess(args) == Chain(args, {"string"}, Lower)
stringsGreater(args) == Chain(args, {"string"}, LAMBDA a, b : Lower(b, a))
stringsLessEqual(args) == Chain(args, {"string"}, LAMBDA a, b : ~Lower(b, a))
stringsGreaterEqual(args) == Chain(args, {"string"}, LAMBDA a, b : ~Lower(a, b))
substring(args) ==
    LET s == args[1][2]
        start == args[2][2]
        end == args[3][2]
    IN  Checked(/\ Typed(args, <<{"string"}, {"integer"}, {"integer"}>>)
                /\ 0 <= start /\ start <= end /\ end <= Len(s),
                String(SubSeq(s, start + 1, end)))
stringAppend(args) == Checked(Alike(args, "string"), StringOf(args))
stringToList(args) == Checked(Typed(args, <<{"string"}>>), List(CharList(args[1][2])))
listToString(args) ==
    Checked(Len(args) = 1 /\ IsList(args[1]) /\ Alike(Contents(args[1]), "char"), StringOf(Contents(args[1])))
stringCopy(args) == Checked(Typed(args, <<{"string"}>>), String(args[1][2]))
symbolToString(args) == Checked(Typed(args, <<{"symbol"}>>), String(Name(args[1])))
stringToSymbol(args) == Checked(Typed(args, <<{"string"}>>), Symbol(args[1][2]))
symbolsEqual(args) == Chain(args, {"symbol"}, Same)

----------------------------------------------------------------------------
(* Pairs, lists and vectors *)

cons(args) == Checked(Len(args) = 2, Pair(args[1], args[2]))
car(args) == Checked(Typed(args, <<{"pair"}>>), Car(args[1]))
cdr(args) == Checked(Typed(args, <<{"pair"}>>), Cdr(args[1]))
list(args) == List(args)
\* The last list is shared, unread, when there is nothing before it.
append(args) ==
    LET before == Front(args)
        items == FlattenSeq([i \in DOMAIN before |-> Contents(before[i])])
        last == args[Len(args)]
    IN  IF args = <<>> \/ \E i \in DOMAIN before : ~IsList(before[i]) THEN Raise
        ELSE IF items = <<>> /\ IsPair(last) THEN last
        ELSE Checked(IsList(last), List(items \o Contents(last)))
length(args) == Checked(Len(args) = 1 /\ IsList(args[1]), Integer(Len(Contents(args[1]))))
reverse(args) == Checked(Len(args) = 1 /\ IsList(args[1]), List(Reverse(Contents(args[1]))))
listTail(args) ==
    LET items == Contents(args[1])
        k == args[2][2]
        after == ListEnding(SubSeq(items, k + 1, Len(items)), Ending(args[1]))
    IN  Checked(Len(args) = 2 /\ Type(args[2]) = "integer" /\ k \in 0 .. Len(items)
                    /\ (k = Len(items) => IsList(args[1])),
                after)
listRef(args) ==
    Checked(Len(args) = 2 /\ Type(args[2]) = "integer" /\ args[2][2] \in 0 .. Len(Contents(args[1])) - 1,
            Contents(args[1])[args[2][2] + 1])

makeVector(args) ==
    LET fill == IF Len(args) = 2 THEN args[2] ELSE Unspecified
    IN  Checked(Len(args) \in 1 .. 2 /\ Are(SubSeq(args, 1, 1), {"integer"}),
                Vector([i \in 1 .. args[1][2] |-> fill]))
vector(args) == Vector(args)
vectorLength(args) == Checked(Typed(args, <<{"vector"}>>), Integer(Len(args[1][2])))
vectorRef(args) ==
    Checked(Typed(args, <<{"vector"}, {"integer"}>>) /\ args[2][2] \in 0 .. Len(args[1][2]) - 1,
            args[1][2][args[2][2] + 1])
vectorToList(args) == Checked(Typed(args, <<{"vector"}>>), List(args[1][2]))
listToVector(args) == Checked(Len(args) = 1 /\ IsList(args[1]), Vector(Contents(args[1])))
vectorAppend(args) ==
    Checked(Alike(args, "vector"), Vector(FlattenSeq([i \in DOMAIN args |-> args[i][2]])))

----------------------------------------------------------------------------
(* Types *)

IsOf(args, types) == Checked(Len(args) = 1, Boolean(Are(args, types)))
pair(args) == IsOf(args, {"pair"})
null(args) == IsOf(args, {"null"})
listp(args) == Checked(Len(args) = 1, Boolean(IsList(args[1])))
vectorp(args) == IsOf(args, {"vector"})
boolean(args) == IsOf(args, {"boolean"})
symbol(args) == IsOf(args, {"symbol"})
number(args) == IsOf(args, Numeric)
integer(args) == IsOf(args, {"integer"})
charp(args) == IsOf(args, {"char"})
stringp(args) == IsOf(args, {"string"})
procedure(args) == IsOf(args, {"native", "procedure", "capture", "escape"})

----------------------------------------------------------------------------
(* Ports *)

\* Every port is the one device of the session.
port(args) == Checked(args = <<>>, Device)
debug(args) == Unspecified

\* What the three that write make of their arguments: the text, or Raise.
putChar(args) == Checked(Typed(args, <<{"wrapped"}, {"char"}>>), String(args[2][2]))
putString(args) ==
    LET s == args[2][2]
        start == IF Len(args) >= 3 THEN args[3][2] ELSE 0
        count == IF Len(args) = 4 THEN args[4][2] ELSE -1
        end == IF count = -1 THEN Len(s) ELSE start + count
    IN  Checked(/\ Len(args) \in 2 .. 4 /\ Are(SubSeq(args, 3, Len(args)), {"integer"})
                /\ Typed(SubSeq(args, 1, 2), <<{"wrapped"}, {"string"}>>)
                /\ start \in 0 .. Len(s) /\ end \in 0 .. Len(s),
                String(SubSeq(s, start + 1, end)))
putDatum(args) == Checked(Len(args) = 2 /\ Type(args[1]) = "wrapped", String(ToText(args[2])))

\* Whether sleep and get-line may be called so; what they do is the machine's.
sleep(args) == Checked(Typed(args, <<{"integer"}>>) /\ args[1][2] >= 0, Unspecified)
getLine(args) == Checked(Typed(args, <<{"wrapped"}>>), Unspecified)

----------------------------------------------------------------------------
(* The global scope *)

\* The names bound there, in order.
GlobalNames == <<
    "eqv?", "eq?", "equal?", "+", "-", "*", "/", "mod", "floor", "ceiling", "truncate", "round", "=",
    "<", ">", "<=", ">=", "max", "min", "abs", "zero?", "positive?", "negative?", "number->string",
    "string->number", "not", "boolean=?", "char->integer", "integer->char", "char=?", "char<?",
    "char>?", "char<=?", "char>=?", "make-string", "string", "string-length", "string-ref", "string=?",
    "string<?", "string>?", "string<=?", "string>=?", "substring", "string-append", "string->list",
    "list->string", "string-copy", "symbol->string", "string->symbol", "symbol=?", "cons", "car",
    "cdr", "list", "append", "length", "reverse", "list-tail", "list-ref", "make-vector", "vector",
    "vector-length", "vector-ref", "vector->list", "list->vector", "vector-append", "pair?", "null?",
    "list?", "vector?", "boolean?", "symbol?", "number?", "integer?", "char?", "string?",
    "procedure?", "apply", "call-with-current-continuation", "call/cc", "debug", "sleep",
    "standard-input-port", "current-input-port", "standard-output-port", "current-output-port",
    "standard-error-port", "current-error-port", "put-char", "put-string", "put-datum", "get-line" >>

Ports == {"standard-input-port", "current-input-port", "standard-output-port", "current-output-port",
          "standard-error-port", "current-error-port"}

\* What a name is bound to there.
GlobalValue(name) ==
    CASE name = "apply" -> ApplyProcedure
      [] name \in {"call-with-current-continuation", "call/cc"} -> CaptureProcedure
      [] name = "eq?" -> NativeProcedure("eqv?")
      [] OTHER -> NativeProcedure(name)

\* A native procedure, by the name it is bound to.
Native(f, args) ==
    CASE f = "eqv?" -> eqv(args) [] f = "equal?" -> equal(args) [] f = "+" -> add(args)
      [] f = "-" -> subtract(args) [] f = "*" -> multiply(args) [] f = "/" -> divide(args)
      [] f = "mod" -> mod(args) [] f = "floor" -> floorf(args) [] f = "ceiling" -> ceiling(args)
      [] f = "truncate" -> truncate(args) [] f = "round" -> round(args) [] f = "=" -> equals(args)
      [] f = "<" -> less(args) [] f = ">" -> greater(args) [] f = "<=" -> lessEqual(args)
      [] f = ">=" -> greaterEqual(args) [] f = "max" -> max(args) [] f = "min" -> min(args)
      [] f = "abs" -> abs(args) [] f = "zero?" -> zero(args) [] f = "positive?" -> positive(args)
      [] f = "negative?" -> negative(args) [] f = "number->string" -> numberToString(args)
      [] f = "string->number" -> stringToNumber(args) [] f = "not" -> notfunc(args)
      [] f = "boolean=?" -> booleansEqual(args) [] f = "char->integer" -> charToInteger(args)
      [] f = "integer->char" -> integerToChar(args) [] f = "char=?" -> charsEqual(args)
      [] f = "char<?" -> charsLess(args) [] f = "char>?" -> charsGreater(args)
      [] f = "char<=?" -> charsLessEqual(args) [] f = "char>=?" -> charsGreaterEqual(args)
      [] f = "make-string" -> makeString(args) [] f = "string" -> string(args)
      [] f = "string-length" -> stringLength(args) [] f = "string-ref" -> stringRef(args)
      [] f = "string=?" -> stringsEqual(args) [] f = "string<?" -> stringsLess(args)
      [] f = "string>?" -> stringsGreater(args) [] f = "string<=?" -> stringsLessEqual(args)
      [] f = "string>=?" -> stringsGreaterEqual(args) [] f = "substring" -> substring(args)
      [] f = "string-append" -> stringAppend(args) [] f = "string->list" -> stringToList(args)
      [] f = "list->string" -> listToString(args) [] f = "string-copy" -> stringCopy(args)
      [] f = "symbol->string" -> symbolToString(args) [] f = "string->symbol" -> stringToSymbol(args)
      [] f = "symbol=?" -> symbolsEqual(args) [] f = "cons" -> cons(args) [] f = "car" -> car(args)
      [] f = "cdr" -> cdr(args) [] f = "list" -> list(args) [] f = "append" -> append(args)
      [] f = "length" -> length(args) [] f = "reverse" -> reverse(args)
      [] f = "list-tail" -> listTail(args) [] f = "list-ref" -> listRef(args)
      [] f = "make-vector" -> makeVector(args) [] f = "vector" -> vector(args)
      [] f = "vector-length" -> vectorLength(args) [] f = "vector-ref" -> vectorRef(args)
      [] f = "vector->list" -> vectorToList(args) [] f = "list->vector" -> listToVector(args)
      [] f = "vector-append" -> vectorAppend(args) [] f = "pair?" -> pair(args)
      [] f = "null?" -> null(args) [] f = "list?" -> listp(args) [] f = "vector?" -> vectorp(args)
      [] f = "boolean?" -> boolean(args) [] f = "symbol?" -> symbol(args)
      [] f = "number?" -> number(args) [] f = "integer?" -> integer(args) [] f = "char?" -> charp(args)
      [] f = "string?" -> stringp(args) [] f = "procedure?" -> procedure(args)
      [] f = "debug" -> debug(args) [] f \in Ports -> port(args) [] f = "put-char" -> putChar(args)
      [] f = "put-string" -> putString(args) [] f = "put-datum" -> putDatum(args)
      [] f = "sleep" -> sleep(args) [] f = "get-line" -> getLine(args)

=============================================================================
