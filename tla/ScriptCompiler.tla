--------------------------- MODULE ScriptCompiler ---------------------------
(* Scripts into bytecode (script/Evaluator.cpp: compile and its helpers,    *)
(* compileForEvaluation).                                                  *)
(*                                                                         *)
(* A compilation is a thread [sc, out, err]: the scopes around the place   *)
(* it has reached, the instructions so far, and whether it has failed; a   *)
(* failure leaves the scopes as they are.  An instruction is a tuple of    *)
(* its operation and its operands; a constant stands in the instruction    *)
(* itself, and a jump is counted in instructions.                          *)
EXTENDS ScriptMacros

Thread(scopes) == [sc |-> scopes, out |-> <<>>, err |-> FALSE]

\* Bytecode::append
Emit(s, op) == IF s.err THEN s ELSE [s EXCEPT !.out = Append(@, op)]
EmitAll(s, code) == IF s.err THEN s ELSE [s EXCEPT !.out = @ \o code]

Fail(s) == [s EXCEPT !.err = TRUE]
Require(s, ok) == IF ok THEN s ELSE Fail(s)

\* A piece of code of its own, in the scopes of a thread; and a thread that takes over what
\* became of them.
Fresh(s) == [s EXCEPT !.out = <<>>]
Back(s, piece) == [s EXCEPT !.sc = piece.sc, !.err = piece.err]

\* maybeAppendPop
MaybePop(s, top, tail) == IF top /\ ~tail THEN Emit(s, <<"pop">>) ELSE s

\* The scopes without one opened inside them.
Leave(s, depth) == [s EXCEPT !.sc = SubSeq(@, 1, depth)]

\* Depth of a variable, seen from a scope.
Up(s, v) == Innermost(s.sc).depth - v[2]

\* Instructions by name.
Constant(v) == <<"constant", v>>
CallOp(tail) == <<IF tail THEN "tailcall" ELSE "call">>
Reset == <<"reset">>

RECURSIVE Compile(_, _, _, _, _), QuasiPair(_, _), QuasiVector(_, _)

\* An expression for its value, where nothing may be defined.
Value(x, s) == Compile(x, s, FALSE, FALSE, FALSE)

\* Expressions one after the other, of which only the last may be in tail position.
Each(items, s, top, allowDef, tail) ==
    FoldLeft(LAMBDA acc, i : Compile(items[i], acc, top, allowDef, tail /\ i = Len(items)),
             s, [i \in DOMAIN items |-> i])

\* compileDeferred: the initial expressions kept back are compiled before anything else is;
\* they are dropped when all of them are.
CompileDeferred(s, top) ==
    LET k == Ancestor(s.sc)
        kept == s.sc[k].deferred
        own == [Fresh(s) EXCEPT !.sc = SubSeq(@, 1, k)]
        Step(acc, i) ==
            LET value == Value(kept[i], acc)
            IN  IF kept[i] = None THEN acc
                ELSE Emit(value, <<"set", 0, value.sc[k].count - Len(kept) + i - 1>>)
        all == FoldLeft(Step, own, [i \in DOMAIN kept |-> i])
        cleared == [all EXCEPT !.sc[k].deferred = IF all.err THEN @ ELSE <<>>]
        inner == SubSeq(s.sc, k + 1, Len(s.sc))
    IN  IF s.err \/ ~top \/ kept = <<>> THEN s
        ELSE [sc |-> cleared.sc \o inner, out |-> s.out \o cleared.out, err |-> cleared.err]

\* compileLambda: its variables, then its body in a scope of its own.
CompileLambda(x, s) ==
    LET formals == Car(Cdr(x))
        firsts == Contents(formals)
        rest == ~IsList(formals)
        body == Cdr(Cdr(x))
        named == firsts \o (IF rest THEN <<Ending(formals)>> ELSE <<>>)
        scopes == FoldLeft(LAMBDA sc, n : AddVariable(sc, Name(n), None), Opened(s.sc, FALSE), named)
        inside == Each(Contents(body), [Fresh(s) EXCEPT !.sc = scopes], TRUE, TRUE, TRUE)
        code == Append(inside.out, <<"return">>)
        lambda == Lambda(Len(firsts), rest, Innermost(inside.sc).count, code)
    IN  IF ~(IsPair(Cdr(x)) /\ IsPair(body) /\ \A i \in DOMAIN named : IsSymbol(named[i])) THEN Fail(s)
        ELSE IF inside.err \/ ~IsList(body) \/ inside.out = <<>> THEN Fail(Leave(Back(s, inside), Len(s.sc)))
        ELSE Emit(Leave(Back(s, inside), Len(s.sc)), <<"lambda", lambda>>)

\* compileSyntax: macros for the forms of a body; rec: they see one another.
CompileSyntax(x, s, top, allowDef, tail, rec) ==
    LET bindings == Contents(Car(Cdr(x)))
        Bind(acc, b) ==
            LET from == IF rec THEN acc.sc ELSE SubSeq(acc.sc, 1, Len(s.sc))
                made == CreateMacroTransformer(Car(Cdr(b)), from)
            IN  IF acc.err \/ ~(HasLength(b, {2}) /\ IsSymbol(Car(b))) \/ made.err THEN Fail(acc)
                ELSE [acc EXCEPT !.sc = Define(@, Name(Car(b)), made.v)]
        bound == FoldLeft(Bind, [s EXCEPT !.sc = Opened(@, TRUE)], bindings)
        all == Each(Contents(Cdr(Cdr(x))), bound, top, allowDef, tail)
    IN  IF ~(IsPair(Cdr(x)) /\ IsList(Car(Cdr(x)))) THEN Fail(s)
        ELSE Require(Leave(all, Len(s.sc)), IsList(Cdr(Cdr(x))))

----------------------------------------------------------------------------
(* Quasiquotation *)

\* One element, made into a list or a vector to be appended: by is the procedure that does.
QuasiElement(x, s, by) ==
    LET opened == Emit(Emit(s, Reset), Constant(NativeProcedure(by)))
        Closing(r) == Emit(r, <<"call">>)
        single == HasLength(x, {2})
        alone == IF by = "list" THEN List(<<x>>) ELSE Vector(<<x>>)
    IN  CASE IsPair(x) /\ IsNamed(Car(x), "unquote") ->
                IF single THEN Closing(Value(Car(Cdr(x)), opened)) ELSE Fail(s)
          [] IsPair(x) /\ IsNamed(Car(x), "unquote-splicing") ->
                IF single THEN Value(Car(Cdr(x)), s) ELSE Fail(s)
          [] IsPair(x) /\ ~(IsNamed(Car(x), "unquote") \/ IsNamed(Car(x), "unquote-splicing")) ->
                Closing(QuasiPair(x, opened))
          [] Type(x) = "vector" -> Closing(QuasiVector(x, opened))
          [] OTHER -> Emit(s, Constant(alone))
QuasiElements(items, s, by) == FoldLeft(LAMBDA acc, x : QuasiElement(x, acc, by), s, items)

\* compileQuasiquotePair
QuasiPair(x, s) ==
    LET opened == Emit(Emit(s, Reset), Constant(NativeProcedure("append")))
    IN  Require(Emit(QuasiElements(Contents(x), opened, "list"), <<"call">>), IsList(x))

\* compileQuasiquoteVector
QuasiVector(x, s) ==
    LET opened == Emit(Emit(s, Reset), Constant(NativeProcedure("vector-append")))
    IN  Emit(QuasiElements(x[2], opened, "vector"), <<"call">>)

----------------------------------------------------------------------------
(* Forms *)

\* The form has this many parts, itself included.
Parts(x) == Contents(x)

DefineSyntax(x, s, allowDef) ==
    LET made == CreateMacroTransformer(Parts(x)[3], s.sc)
    IN  IF ~(allowDef /\ s.out = <<>> /\ HasLength(x, {3}) /\ IsSymbol(Parts(x)[2])) \/ made.err
        THEN Fail(s)
        ELSE [s EXCEPT !.sc = Define(@, Name(Parts(x)[2]), made.v)]

\* A definition only adds a variable; its initial expression is compiled later.
DefineVariable(x, s, allowDef) ==
    LET target == Parts(x)[2]
        body == Cdr(Cdr(x))
        procedure == Pair(Symbol("lambda"), Pair(Cdr(target), body))
    IN  CASE ~(allowDef /\ s.out = <<>> /\ IsPair(Cdr(x))) -> Fail(s)
          [] IsSymbol(target) /\ HasLength(x, {2}) ->
                [s EXCEPT !.sc = AddVariable(@, Name(target), None)]
          [] IsSymbol(target) /\ HasLength(x, {3}) ->
                [s EXCEPT !.sc = AddVariable(@, Name(target), Car(body))]
          [] IsPair(target) /\ IsSymbol(Car(target)) ->
                [s EXCEPT !.sc = AddVariable(@, Name(Car(target)), procedure)]
          [] OTHER -> Fail(s)

\* set!: of a variable, or of a name that stands for an expression and has a rule for it.
Assign(x, s, top, allowDef, tail) ==
    LET target == Parts(x)[2]
        meant == IF IsSymbol(target) THEN Resolve(s.sc, Name(target)) ELSE target
        value == Value(Parts(x)[3], CompileDeferred(s, top))
        set == Emit(value, <<"set", Up(value, meant), meant[3]>>)
        form == IF meant[3] = None THEN None ELSE MaybeTransform(meant[3], Parts(x)[3], s.sc)
    IN  CASE ~HasLength(x, {3}) -> Fail(s)
          [] HasLength(x, {3}) /\ Type(meant) = "variable" ->
                MaybePop(Emit(set, Constant(Unspecified)), top, tail)
          [] HasLength(x, {3}) /\ Type(meant) = "identifier-syntax" ->
                IF form = None THEN Fail(s) ELSE Compile(form, s, top, allowDef, tail)
          [] OTHER -> Fail(s)

Quote(x, s, top, tail) ==
    IF ~HasLength(x, {2}) THEN Fail(s)
    ELSE MaybePop(Emit(CompileDeferred(s, top), Constant(Parts(x)[2])), top, tail)

Quasiquote(x, s, top, tail) ==
    LET ready == CompileDeferred(s, top)
        form == Parts(x)[2]
        built == CASE IsPair(form) -> QuasiPair(form, ready)
                   [] Type(form) = "vector" -> QuasiVector(form, ready)
                   [] OTHER -> Emit(ready, Constant(form))
    IN  IF ~HasLength(x, {2}) THEN Fail(s) ELSE MaybePop(built, top, tail)

\* if: the code for true ends in a jump over the code for false.
Conditional(x, s, top, tail) ==
    LET test == Value(Parts(x)[2], CompileDeferred(s, top))
        then == Compile(Parts(x)[3], Fresh(test), FALSE, FALSE, tail)
        else == IF Len(Parts(x)) = 3 THEN Emit(Fresh(then), Constant(Unspecified))
                ELSE Compile(Parts(x)[4], Fresh(then), FALSE, FALSE, tail)
        yes == Append(then.out, <<"jump", Len(else.out)>>)
        code == test.out \o <<<<"condjump", Len(yes)>>>> \o yes \o else.out
    IN  IF ~HasLength(x, {3, 4}) THEN Fail(s)
        ELSE MaybePop([Back(test, else) EXCEPT !.out = code], top, tail)

\* begin: at the top of a body its forms are forms of the body, and there may be none.
Begin(x, s, top, allowDef, tail) ==
    LET forms == Contents(Cdr(x))
        last == forms[Len(forms)]
        before == FoldLeft(LAMBDA acc, form : Emit(Value(form, acc), <<"pop">>), s,
                           SubSeq(forms, 1, Len(forms) - 1))
    IN  CASE ~IsList(x) \/ (~top /\ forms = <<>>) -> Fail(s)
          [] IsList(x) /\ top -> Each(forms, s, TRUE, allowDef, tail)
          [] OTHER -> Compile(last, before, FALSE, FALSE, tail)

\* A call: the operands, the procedure first, over the count of those before it.
Application(x, s, top, tail) ==
    LET ready == Emit(CompileDeferred(s, top), Reset)
        operands == FoldLeft(LAMBDA acc, operand : Value(operand, acc), ready, Contents(x))
    IN  IF ~IsList(x) THEN Fail(s) ELSE MaybePop(Emit(operands, CallOp(tail)), top, tail)

\* A form whose name is bound to nothing.  The two that bind macros hand on whether they may
\* define and whether they are in tail position the wrong way round.
Form(x, s, top, allowDef, tail) ==
    LET name == Name(Car(x))
    IN  CASE name = "define-syntax" -> DefineSyntax(x, s, allowDef)
          [] name = "let-syntax" -> CompileSyntax(x, s, top, tail, allowDef, FALSE)
          [] name = "letrec-syntax" -> CompileSyntax(x, s, top, tail, allowDef, TRUE)
          [] name = "define" -> DefineVariable(x, s, allowDef)
          [] name = "lambda" -> MaybePop(CompileLambda(x, CompileDeferred(s, top)), top, tail)
          [] name = "set!" -> Assign(x, s, top, allowDef, tail)
          [] name = "quote" -> Quote(x, s, top, tail)
          [] name = "quasiquote" -> Quasiquote(x, s, top, tail)
          [] name = "if" -> Conditional(x, s, top, tail)
          [] name = "begin" -> Begin(x, s, top, allowDef, tail)
          [] OTHER -> Fail(s)

\* A form whose first part is, or is the name of, rules.
Expansion(rules, x, s, top, allowDef, tail) ==
    LET form == TransformRules(rules[2], x, s.sc)
    IN  IF form = None THEN Fail(s) ELSE Compile(form, s, top, allowDef, tail)

\* What a name stands for.
Meant(x, s, top, allowDef, tail) ==
    LET binding == Resolve(s.sc, Name(x))
    IN  IF binding = None THEN Fail(s) ELSE Compile(binding, s, top, allowDef, tail)

\* compile
CompilePair(x, s, top, allowDef, tail) ==
    LET head == Car(x)
        meant == IF IsSymbol(head) THEN Resolve(s.sc, Name(head)) ELSE head
    IN  CASE meant = None -> Form(x, s, top, allowDef, tail)
          [] Type(meant) = "syntax-rules" -> Expansion(meant, x, s, top, allowDef, tail)
          [] OTHER -> Application(x, s, top, tail)
Compile(x, s, top, allowDef, tail) ==
    CASE s.err -> s
      [] ~s.err /\ Type(x) \in {"syntax-rules", "vector", "null"} -> Fail(s)
      [] ~s.err /\ Type(x) = "variable" ->
            LET ready == CompileDeferred(s, top)
            IN  MaybePop(Emit(ready, <<"variable", Up(ready, x), x[3]>>), top, tail)
      [] ~s.err /\ Type(x) = "identifier-syntax" ->
            Compile(Generate(x[2], s.sc, <<>>), s, top, allowDef, tail)
      [] ~s.err /\ Type(x) = "symbol" -> Meant(x, s, top, allowDef, tail)
      [] ~s.err /\ Type(x) = "pair" -> CompilePair(x, s, top, allowDef, tail)
      [] OTHER -> MaybePop(Emit(CompileDeferred(s, top), Constant(x)), top, tail)

----------------------------------------------------------------------------
(* Texts *)

\* compileForEvaluation: datum by datum as they are read; a value is popped when another
\* datum follows.  What was compiled before a failure stays in the code.
RECURSIVE CompileFrom(_, _, _, _)
CompileFrom(text, i, s, result) ==
    LET p == Parse(text, i)
        popped == IF result THEN Emit(s, <<"pop">>) ELSE s
        piece == Compile(p.v, Fresh(popped), FALSE, TRUE, FALSE)
        whole == IF piece.out = <<>> THEN CompileDeferred(piece, TRUE) ELSE piece
        next == Back(popped, whole)
    IN  CASE p.kind = "none" -> Emit(s, IF result THEN <<"exit">> ELSE <<"lambdaexit">>)
          [] p.kind = "error" -> Fail(s)
          [] whole.err -> Leave(next, Len(s.sc))
          [] OTHER -> CompileFrom(text, p.next, EmitAll(next, whole.out), piece.out # <<>>)
CompileForEvaluation(text, scopes, code) ==
    LET begun == [Thread(scopes) EXCEPT !.out = code]
    IN  CompileFrom(text, 1, begun, FALSE)

=============================================================================
