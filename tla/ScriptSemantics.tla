-------------------------- MODULE ScriptSemantics --------------------------
(* What a script means: the value of its last expression and what it       *)
(* writes, without bytecode, stack, slices or macros.  Expressions are     *)
(* evaluated where they stand, with a store for variables; the forms that  *)
(* scm/rnrs/base.scm defines as macros are forms here.  Native procedures  *)
(* are those of ScriptGlobals.                                             *)
(*                                                                         *)
(* Two things are as the evaluator has them, not as Scheme does: only #t   *)
(* is true, and a conditional cannot stand for an operand.  Continuations  *)
(* only escape.                                                            *)
EXTENDS ScriptGlobals

\* A world: the cells of variables, and what has been written.
World(cells, out) == [cells |-> cells, out |-> out]
Result(v, w) == [v |-> v, w |-> w]

Closure(names, rest, body, env) == <<"closure", names, rest, body, env>>
Continuation(k) == <<"continuation", k>>
Thrown(k, args) == <<"thrown", k, args>>
Abrupt(v) == Type(v) \in {"raise", "thrown"}

\* Variables of a scope: cells for the values, by name.
Bind(env, names, values, w) ==
    LET at(i) == Len(w.cells) + i
        final(n) == CHOOSE i \in DOMAIN names : names[i] = n /\ \A j \in DOMAIN names : names[j] = n => j <= i
    IN  [env |-> [n \in DOMAIN env \cup ToSet(names) |->
                     IF n \in ToSet(names) THEN at(final(n)) ELSE env[n]],
         w |-> [w EXCEPT !.cells = @ \o values]]

Lookup(name, env, w) ==
    CASE name \in DOMAIN env -> w.cells[env[name]]
      [] name \notin DOMAIN env /\ name \in ToSet(GlobalNames) -> GlobalValue(name)
      [] OTHER -> Raise

\* Parts of forms.
Rest(x) == Cdr(Cdr(x))
Bound(x) == Contents(Car(Cdr(x)))
NamesOf(bindings) == [i \in DOMAIN bindings |-> Name(Car(bindings[i]))]
Inits(bindings) == [i \in DOMAIN bindings |-> Car(Cdr(bindings[i]))]
FormName(x, env) ==
    IF IsPair(x) /\ IsSymbol(Car(x)) /\ Name(Car(x)) \notin DOMAIN env THEN Name(Car(x)) ELSE ""

\* A conditional that is not inside a procedure of its own.
Branching == {"if", "cond", "when", "unless"}
RECURSIVE Leaks(_, _)
Leaks(x, env) ==
    LET parts == Contents(x)
        form == FormName(x, env)
    IN  \/ form \in Branching
        \/ form \in {"and", "or"} /\ (Len(parts) > 2 \/ (Len(parts) = 2 /\ Leaks(parts[2], env)))
        \/ form \in {"begin", "set!"} /\ \E i \in 2 .. Len(parts) : Leaks(parts[i], env)

Truth(v) == v = Boolean(TRUE)

RECURSIVE Eval(_, _, _), Body(_, _, _), ApplyTo(_, _, _), DoLoop(_, _, _, _), Quasi(_, _, _),
          And(_, _, _), Or(_, _, _), Cond(_, _, _), Nested(_, _, _, _)

\* Expressions one after the other: their values, or the one that broke off.
EvalEach(xs, env, w, Of(_, _, _)) ==
    FoldLeft(LAMBDA acc, x :
                 LET r == Of(x, env, acc.w)
                 IN  IF acc.stop # <<"go">> THEN acc
                     ELSE [vs |-> Append(acc.vs, r.v), w |-> r.w,
                           stop |-> IF Abrupt(r.v) THEN r.v ELSE <<"go">>],
             [vs |-> <<>>, w |-> w, stop |-> <<"go">>], xs)
Operand(x, env, w) == IF Leaks(x, env) THEN Result(Raise, w) ELSE Eval(x, env, w)
With(all, Then(_, _)) == IF all.stop # <<"go">> THEN Result(all.stop, all.w) ELSE Then(all.vs, all.w)
Sequence(xs, env, w) == With(EvalEach(xs, env, w, Eval), LAMBDA vs, u : Result(Last(vs), u))

\* The body of a procedure or of a form: definitions, then expressions.
Defined(x) == IF IsPair(Car(Cdr(x))) THEN Name(Car(Car(Cdr(x)))) ELSE Name(Car(Cdr(x)))
Initial(x) ==
    IF IsPair(Car(Cdr(x))) THEN Pair(Symbol("lambda"), Pair(Cdr(Car(Cdr(x))), Rest(x)))
    ELSE IF IsNull(Rest(x)) THEN List(<<Symbol("quote"), Unspecified>>) ELSE Car(Rest(x))
Assigning(env, w, names, values) ==
    [w EXCEPT !.cells = [c \in DOMAIN @ |->
        LET of == {i \in DOMAIN names : env[names[i]] = c}
        IN  IF of = {} THEN @[c] ELSE values[CHOOSE i \in of : TRUE]]]
Define1(acc, x) ==
    LET r == Eval(Initial(x), acc.env, acc.w)
    IN  IF Abrupt(acc.v) THEN acc
        ELSE [env |-> acc.env, v |-> r.v, w |-> Assigning(acc.env, r.w, <<Defined(x)>>, <<r.v>>)]
Body(xs, env, w) ==
    LET n == Cardinality({i \in DOMAIN xs : \A j \in 1 .. i : FormName(xs[j], env) = "define"})
        definitions == SubSeq(xs, 1, n)
        names == [i \in 1 .. n |-> Defined(xs[i])]
        b == Bind(env, names, [i \in 1 .. n |-> Unspecified], w)
        d == FoldLeft(Define1, [env |-> b.env, v |-> Unspecified, w |-> b.w], definitions)
    IN  IF Abrupt(d.v) THEN Result(d.v, d.w) ELSE Sequence(SubSeq(xs, n + 1, Len(xs)), b.env, d.w)

\* Calls
ApplyNative(f, args, w) ==
    LET v == Native(f, args)
    IN  CASE v # Raise /\ f \in {"put-char", "put-string", "put-datum"} ->
                Result(Unspecified, [w EXCEPT !.out = @ \o v[2]])
          [] v # Raise /\ f = "get-line" -> Result(String("hi"), w)
          [] OTHER -> Result(v, w)
ApplyClosure(f, args, w) ==
    LET names == f[2]
        firsts == Len(names) - (IF f[3] THEN 1 ELSE 0)
        values == SubSeq(args, 1, firsts)
                      \o IF f[3] THEN <<List(SubSeq(args, firsts + 1, Len(args)))>> ELSE <<>>
        b == Bind(f[5], names, values, w)
    IN  IF (f[3] /\ Len(args) >= firsts) \/ (~f[3] /\ Len(args) = firsts) THEN Body(f[4], b.env, b.w)
        ELSE Result(Raise, w)
\* What is called with the continuation may return, or throw to it later on the way.
Capture(f, w) ==
    LET k == Len(w.cells) + 1
        r == ApplyTo(f, <<Continuation(k)>>, [w EXCEPT !.cells = Append(@, Unspecified)])
    IN  IF Type(r.v) = "thrown" /\ r.v[2] = k THEN Result(r.v[3][1], r.w) ELSE r
ApplyTo(f, args, w) ==
    CASE Type(f) = "native" -> ApplyNative(f[2], args, w)
      [] Type(f) = "closure" -> ApplyClosure(f, args, w)
      [] Type(f) = "apply" /\ Len(args) >= 2 /\ IsList(Last(args)) ->
            ApplyTo(args[1], SubSeq(args, 2, Len(args) - 1) \o Contents(Last(args)), w)
      [] Type(f) = "capture" /\ Len(args) = 1 -> Capture(args[1], w)
      [] Type(f) = "continuation" -> Result(Thrown(f[2], args), w)
      [] OTHER -> Result(Raise, w)

\* Forms
And(xs, env, w) ==
    LET r == Eval(Head(xs), env, w)
    IN  CASE xs = <<>> -> Result(Boolean(TRUE), w)
          [] Len(xs) = 1 \/ (xs # <<>> /\ Abrupt(r.v)) -> r
          [] OTHER -> IF Truth(r.v) THEN And(Tail(xs), env, r.w) ELSE Result(Boolean(FALSE), r.w)
Or(xs, env, w) ==
    LET r == Eval(Head(xs), env, w)
    IN  CASE xs = <<>> -> Result(Boolean(FALSE), w)
          [] Len(xs) = 1 \/ (xs # <<>> /\ Abrupt(r.v)) -> r
          [] OTHER -> IF Truth(r.v) THEN Result(Boolean(TRUE), r.w) ELSE Or(Tail(xs), env, r.w)
If(x, env, w) ==
    LET parts == Contents(x)
        test == Eval(parts[2], env, w)
    IN  CASE Abrupt(test.v) -> test
          [] ~Abrupt(test.v) /\ Truth(test.v) -> Eval(parts[3], env, test.w)
          [] OTHER -> IF Len(parts) = 4 THEN Eval(parts[4], env, test.w) ELSE Result(Unspecified, test.w)
Cond(clauses, env, w) ==
    LET clause == Head(clauses)
        test == IF IsNamed(Car(clause), "else") THEN Result(Boolean(TRUE), w) ELSE Eval(Car(clause), env, w)
    IN  CASE clauses = <<>> -> Result(Unspecified, w)
          [] clauses # <<>> /\ Abrupt(test.v) -> test
          [] OTHER -> IF Truth(test.v) THEN Eval(Last(Contents(clause)), env, test.w)
                      ELSE Cond(Tail(clauses), env, test.w)
When(x, wanted, env, w) ==
    LET test == Eval(Car(Cdr(x)), env, w)
    IN  CASE Abrupt(test.v) -> test
          [] ~Abrupt(test.v) /\ wanted /\ Truth(test.v) -> Sequence(Contents(Rest(x)), env, test.w)
          [] ~Abrupt(test.v) /\ ~wanted /\ test.v = Boolean(FALSE) ->
                Sequence(Contents(Rest(x)), env, test.w)
          [] OTHER -> Result(Unspecified, test.w)

\* let: all at once; with a name, the procedure it stands for; let*: one inside the other;
\* letrec: definitions.
Let(bindings, body, env, w) ==
    With(EvalEach(Inits(bindings), env, w, Operand),
         LAMBDA vs, u : LET b == Bind(env, NamesOf(bindings), vs, u) IN Body(body, b.env, b.w))
NamedLet(x, env, w) ==
    LET bindings == Contents(Car(Rest(x)))
        name == Name(Car(Cdr(x)))
        b == Bind(env, <<name>>, <<Unspecified>>, w)
        f == Closure(NamesOf(bindings), FALSE, Contents(Cdr(Rest(x))), b.env)
        u == Assigning(b.env, b.w, <<name>>, <<f>>)
    IN  With(EvalEach(Inits(bindings), b.env, u, Operand), LAMBDA vs, t : ApplyTo(f, vs, t))
Nested(bindings, body, env, w) ==
    IF bindings = <<>> THEN Body(body, env, w)
    ELSE With(EvalEach(Inits(SubSeq(bindings, 1, 1)), env, w, Operand),
              LAMBDA vs, u : LET b == Bind(env, <<Name(Car(Head(bindings)))>>, vs, u)
                             IN  Nested(Tail(bindings), body, b.env, b.w))
LetRec(x, env, w) ==
    LET definitions == [i \in DOMAIN Bound(x) |-> Pair(Symbol("define"), Bound(x)[i])]
    IN  Body(definitions \o Contents(Rest(x)), env, w)

\* do: env binds the variables, which get new cells each time round.
DoLoop(x, env, outer, w) ==
    LET exit == Car(Rest(x))
        test == Eval(Car(exit), env, w)
        values == Contents(Cdr(exit))
        commands == EvalEach(Contents(Cdr(Rest(x))), env, test.w, Eval)
        steps == [i \in DOMAIN Bound(x) |-> Contents(Bound(x)[i])[3]]
    IN  CASE Abrupt(test.v) -> test
          [] ~Abrupt(test.v) /\ Truth(test.v) ->
                Sequence(<<Boolean(FALSE)>> \o values, env, test.w)
          [] OTHER -> With(commands, LAMBDA vs, u : With(EvalEach(steps, env, u, Operand),
                LAMBDA new, t : LET b == Bind(outer, NamesOf(Bound(x)), new, t)
                                IN  DoLoop(x, b.env, outer, b.w)))
Do(x, env, w) ==
    With(EvalEach(Inits(Bound(x)), env, w, Operand),
         LAMBDA vs, u : LET b == Bind(env, NamesOf(Bound(x)), vs, u) IN DoLoop(x, b.env, env, b.w))

\* A quasiquoted element stands for any number of elements.
Elements(vs) == <<"elements", vs>>
Quasi(x, env, w) ==
    LET form == FormName(x, <<>>)
        inner == IF IsPair(x) THEN Contents(x) ELSE x[2]
        Made(vs) == LET all == FlattenSeq([i \in DOMAIN vs |-> vs[i][2]])
                    IN  IF IsPair(x) THEN List(all) ELSE Vector(all)
        Spliced(v) == IF Type(v) = "vector" THEN v[2] ELSE Contents(v)
        value == EvalEach(<<Car(Cdr(x))>>, env, w, Operand)
    IN  CASE form = "unquote" -> With(value, LAMBDA vs, u : Result(Elements(vs), u))
          [] form = "unquote-splicing" ->
                With(value, LAMBDA vs, u : Result(Elements(Spliced(vs[1])), u))
          [] Type(x) \in {"pair", "vector"} /\ form \notin {"unquote", "unquote-splicing"} ->
                With(EvalEach(inner, env, w, Quasi), LAMBDA vs, u : Result(Elements(<<Made(vs)>>), u))
          [] OTHER -> Result(Elements(<<x>>), w)
Quasiquoted(x, env, w) ==
    LET r == Quasi(Car(Cdr(x)), env, w) IN IF Abrupt(r.v) THEN r ELSE Result(r.v[2][1], r.w)

LambdaOf(x, env) ==
    LET formals == Car(Cdr(x))
        names == Contents(formals) \o IF IsList(formals) THEN <<>> ELSE <<Ending(formals)>>
    IN  Closure([i \in DOMAIN names |-> Name(names[i])], ~IsList(formals), Contents(Rest(x)), env)
SetTo(x, env, w) ==
    LET r == Eval(Car(Rest(x)), env, w)
    IN  IF Name(Car(Cdr(x))) \notin DOMAIN env THEN Result(Raise, w)
        ELSE IF Abrupt(r.v) THEN r
        ELSE Result(Unspecified, Assigning(env, r.w, <<Name(Car(Cdr(x)))>>, <<r.v>>))

Forms == {"quote", "quasiquote", "if", "begin", "lambda", "set!", "let", "let*", "letrec", "letrec*",
          "and", "or", "cond", "when", "unless", "do"}
EvalForm(form, x, env, w) ==
    CASE form = "quote" -> Result(IF HasLength(x, {2}) THEN Car(Cdr(x)) ELSE Raise, w)
      [] form = "quasiquote" -> Quasiquoted(x, env, w)
      [] form = "if" -> If(x, env, w)
      [] form = "begin" -> Sequence(Contents(Cdr(x)), env, w)
      [] form = "lambda" -> Result(LambdaOf(x, env), w)
      [] form = "set!" -> SetTo(x, env, w)
      [] form = "let" /\ ~IsSymbol(Car(Cdr(x))) -> Let(Bound(x), Contents(Rest(x)), env, w)
      [] form = "let" /\ IsSymbol(Car(Cdr(x))) -> NamedLet(x, env, w)
      [] form = "let*" -> Nested(Bound(x), Contents(Rest(x)), env, w)
      [] form \in {"letrec", "letrec*"} -> LetRec(x, env, w)
      [] form = "and" -> And(Contents(Cdr(x)), env, w)
      [] form = "or" -> Or(Contents(Cdr(x)), env, w)
      [] form = "cond" -> Cond(Contents(Cdr(x)), env, w)
      [] form \in {"when", "unless"} -> When(x, form = "when", env, w)
      [] form = "do" -> Do(x, env, w)

Eval(x, env, w) ==
    CASE IsSymbol(x) -> Result(Lookup(Name(x), env, w), w)
      [] IsPair(x) /\ FormName(x, env) \in Forms -> EvalForm(FormName(x, env), x, env, w)
      [] IsPair(x) /\ FormName(x, env) \notin Forms ->
            With(EvalEach(Contents(x), env, w, Operand), LAMBDA vs, u : ApplyTo(Head(vs), Tail(vs), u))
      [] Type(x) \in {"null", "vector"} -> Result(Raise, w)
      [] OTHER -> Result(x, w)

----------------------------------------------------------------------------
(* Texts *)

\* Definitions add to the environment of the text; what ends in a definition has no value.
RECURSIVE EvalText(_, _, _, _)
EvalText(text, i, env, r) ==
    LET p == Parse(text, i)
        form == FormName(p.v, env)
        b == Bind(env, <<Defined(p.v)>>, <<Unspecified>>, r.w)
        d == Define1([env |-> b.env, v |-> Unspecified, w |-> b.w], p.v)
        value == Eval(p.v, env, r.w)
    IN  CASE p.kind = "none" -> r
          [] p.kind = "error" -> Result(Raise, r.w)
          [] p.kind = "datum" /\ form = "define-syntax" ->
                EvalText(text, p.next, env, Result(Unspecified, r.w))
          [] p.kind = "datum" /\ form = "define" ->
                IF Abrupt(d.v) THEN Result(d.v, d.w)
                ELSE EvalText(text, p.next, b.env, Result(Unspecified, d.w))
          [] OTHER -> IF Abrupt(value.v) THEN value ELSE EvalText(text, p.next, env, value)

\* What is written and shown for a text.
Meaning(text) ==
    LET r == EvalText(text, 1, [n \in {} |-> 0], Result(Unspecified, World(<<>>, "")))
    IN  <<r.w.out, IF Abrupt(r.v) THEN "error" ELSE ToText(r.v)>>

=============================================================================
