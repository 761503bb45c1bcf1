---------------------------- MODULE ScriptMacros ----------------------------
(* Scopes and the macros bound in them (script/Evaluator.cpp Scope,        *)
(* script/MacroTransformer.cpp, script/MacroTransformer.h).                *)
(*                                                                         *)
(* The scopes around a place in a script are a sequence, the global one    *)
(* first; a macro keeps how many of them its definition could see.         *)
EXTENDS ScriptData

----------------------------------------------------------------------------
(* Scopes *)

\* depth: how many scopes with variables are around it
\* syntactic: it holds macros only
\* bindings: names and what they are bound to, the last one of a name counts
\* count: its variables
\* deferred: initial expressions of its variables that are not compiled yet, or None
None == <<"none">>
NewScope(depth, syntactic) ==
    [depth |-> depth, syntactic |-> syntactic, bindings |-> <<>>, count |-> 0, deferred |-> <<>>]
Innermost(scopes) == scopes[Len(scopes)]
Opened(scopes, syntactic) ==
    Append(scopes, NewScope(Innermost(scopes).depth + (IF syntactic THEN 0 ELSE 1), syntactic))

\* Scope::nonSyntacticAncestor, by its place
Ancestor(scopes) == CHOOSE k \in 1 .. Len(scopes) :
    ~scopes[k].syntactic /\ \A j \in k + 1 .. Len(scopes) : scopes[j].syntactic

\* Scope::resolve
Resolve(scopes, name) ==
    LET all == FlattenSeq([k \in 1 .. Len(scopes) |-> scopes[k].bindings])
        found == {i \in 1 .. Len(all) : all[i][1] = name}
    IN  IF found = {} THEN None ELSE all[CHOOSE i \in found : \A j \in found : j <= i][2]

\* Scope::define, in the innermost scope
Define(scopes, name, binding) ==
    [scopes EXCEPT ![Len(scopes)].bindings = Append(@, <<name, binding>>)]

\* Scope::addVariable: a scope of macros passes it on.
AddVariable(scopes, name, init) ==
    LET k == Ancestor(scopes)
        own == SubSeq(scopes, 1, k)
        variable == Variable(own[k].depth, own[k].count)
    IN  [Define(own, name, variable) EXCEPT ![k].count = @ + 1, ![k].deferred = Append(@, init)]
            \o SubSeq(scopes, k + 1, Len(scopes))

----------------------------------------------------------------------------
(* Patterns *)

\* A pattern: a constant, anything, a variable, a literal, or a list or vector of patterns:
\* those before the one that repeats, that one with the variables in it (first, count), those
\* after it, and the one after a dot.
ConstantPattern(v) == <<"constant", v>>
AnyPattern == <<"any">>
VariablePattern(index) == <<"variable", index>>
BoundLiteralPattern(binding) == <<"bound", binding>>
UnboundLiteralPattern(name) == <<"unbound", name>>
ListPattern(s) == <<"list", s>>
VectorPattern(s) == <<"vector", s>>

\* A repeat group, by the group around it and its first variable.
Group(parent, first) == <<parent, first>>
RECURSIVE InGroup(_, _)
InGroup(g, outer) == g # None /\ (g = outer \/ InGroup(g[1], outer))

\* Where an ellipsis follows in a sequence, or 0.
Dots == Symbol("...")
EllipsisAt(items) ==
    LET at == {i \in 1 .. Len(items) - 1 : items[i + 1] = Dots}
    IN  IF at = {} THEN 0 ELSE CHOOSE i \in at : \A j \in at : i <= j

\* createPattern: the pattern of an expression, with the variables (name and group) so far;
\* those of several expressions, one after the other.
Made(p, vars, err) == [p |-> p, vars |-> vars, err |-> err]
RECURSIVE CreatePattern(_, _, _, _)
CreatePatterns(items, literals, vars, group) ==
    FoldLeft(LAMBDA acc, x :
                 LET m == CreatePattern(x, literals, acc.vars, group)
                 IN  Made(Append(acc.p, m.p), m.vars, acc.err \/ m.err),
             Made(<<>>, vars, FALSE), items)
CreateSequence(items, tail, literals, vars, group) ==
    LET k == EllipsisAt(items)
        pre == CreatePatterns(IF k = 0 THEN items ELSE SubSeq(items, 1, k - 1), literals, vars, group)
        repeat == IF k = 0 THEN Made(None, pre.vars, FALSE)
                  ELSE CreatePattern(items[k], literals, pre.vars, Group(group, Len(pre.vars)))
        post == CreatePatterns(IF k = 0 THEN <<>> ELSE SubSeq(items, k + 2, Len(items)), literals,
                               repeat.vars, group)
        rest == IF IsNull(tail) THEN Made(None, post.vars, FALSE)
                ELSE CreatePattern(tail, literals, post.vars, group)
    IN  Made([pre |-> pre.p, repeat |-> repeat.p, first |-> Len(pre.vars),
              count |-> Len(repeat.vars) - Len(pre.vars), post |-> post.p, rest |-> rest.p],
             rest.vars, pre.err \/ repeat.err \/ post.err \/ rest.err)
CreatePattern(x, literals, vars, group) ==
    CASE IsSymbol(x) /\ Name(x) \in DOMAIN literals -> Made(literals[Name(x)], vars, FALSE)
      [] IsNamed(x, "_") /\ "_" \notin DOMAIN literals -> Made(AnyPattern, vars, FALSE)
      [] IsSymbol(x) /\ Name(x) \notin DOMAIN literals \cup {"_"} ->
            Made(VariablePattern(Len(vars) + 1), Append(vars, <<Name(x), group>>),
                 \E i \in DOMAIN vars : vars[i][1] = Name(x))
      [] IsPair(x) ->
            LET s == CreateSequence(Contents(x), Ending(x), literals, vars, group)
            IN  Made(ListPattern(s.p), s.vars, s.err)
      [] Type(x) = "vector" ->
            LET s == CreateSequence(x[2], Null, literals, vars, group)
            IN  Made(VectorPattern(s.p), s.vars, s.err)
      [] OTHER -> Made(ConstantPattern(x), vars, FALSE)

----------------------------------------------------------------------------
(* Matching *)

\* Whether a form matches, and the values of the variables.
Match(ok, vs) == [ok |-> ok, vs |-> vs]

\* A variable in a repeated pattern stands for the vector of what it stood for each time.
Repeated(s, vs, lists) ==
    [i \in DOMAIN vs |-> IF i - s.first \in 1 .. s.count THEN Vector(lists[i - s.first]) ELSE vs[i]]
NoLists(s) == [j \in 1 .. s.count |-> <<>>]

RECURSIVE Matches(_, _, _, _), MatchEach(_, _, _, _, _), MatchRepeat(_, _, _, _, _, _)
MatchEach(ps, items, i, scopes, vs) ==
    IF i > Len(ps) THEN Match(TRUE, vs)
    ELSE LET m == Matches(ps[i], items[i], scopes, vs)
         IN  IF m.ok THEN MatchEach(ps, items, i + 1, scopes, m.vs) ELSE m

\* As many as there are that match the pattern which repeats.
MatchRepeat(s, items, i, scopes, vs, lists) ==
    LET m == Matches(s.repeat, items[i], scopes, vs)
        longer == [j \in 1 .. s.count |-> Append(lists[j], m.vs[s.first + j])]
    IN  IF i > Len(items) \/ ~m.ok THEN [next |-> i, vs |-> Repeated(s, vs, lists)]
        ELSE MatchRepeat(s, items, i + 1, scopes, m.vs, longer)

\* ListPattern::matches.  Nothing is a list but a pair; a form that ends early has an empty
\* repetition; and what is left over when all patterns are used is no match, so that the
\* pattern after a dot only ever stands for the end of an improper list.
MatchEnd(s, tail, used, scopes, vs) ==
    CASE ~used -> Match(FALSE, vs)
      [] used /\ IsNull(tail) -> Match(s.rest = None, vs)
      [] OTHER -> IF s.rest = None THEN Match(FALSE, vs) ELSE Matches(s.rest, tail, scopes, vs)
MatchList(s, form, scopes, vs) ==
    LET items == Contents(form)
        tail == Ending(form)
        given == Len(items)
        fixed == Len(s.pre)
        pre == MatchEach(SubSeq(s.pre, 1, IF given < fixed THEN given ELSE fixed), items, 1, scopes, vs)
        repeat == MatchRepeat(s, items, fixed + 1, scopes, pre.vs, NoLists(s))
        left == given - repeat.next + 1
        taken == IF left < Len(s.post) THEN left ELSE Len(s.post)
        post == MatchEach(SubSeq(s.post, 1, taken), SubSeq(items, repeat.next, given), 1, scopes,
                          repeat.vs)
    IN  CASE ~IsPair(form) \/ ~pre.ok -> Match(FALSE, vs)
          [] given <= fixed ->
                MatchEnd(s, tail, given = fixed /\ s.post = <<>>, scopes, Repeated(s, pre.vs, NoLists(s)))
          [] given > fixed /\ s.repeat = None -> Match(FALSE, vs)
          [] OTHER -> IF ~post.ok THEN post ELSE MatchEnd(s, tail, left = Len(s.post), scopes, post.vs)

\* VectorPattern::matches
MatchVector(s, form, scopes, vs) ==
    LET items == form[2]
        fixed == Len(s.pre)
        pre == MatchEach(s.pre, items, 1, scopes, vs)
        repeat == IF s.repeat = None THEN [next |-> fixed + 1, vs |-> pre.vs]
                  ELSE MatchRepeat(s, items, fixed + 1, scopes, pre.vs, NoLists(s))
        left == Len(items) - repeat.next + 1
    IN  IF Type(form) # "vector" \/ Len(items) < fixed + Len(s.post) \/ ~pre.ok \/ left # Len(s.post)
        THEN Match(FALSE, vs)
        ELSE MatchEach(s.post, SubSeq(items, repeat.next, Len(items)), 1, scopes, repeat.vs)

MatchBound(binding, form, scopes, vs) ==
    LET meant == IF IsSymbol(form) THEN Resolve(scopes, Name(form)) ELSE form
    IN  Match(meant # None /\ Equivalent(meant, binding), vs)
MatchUnbound(name, form, scopes, vs) == Match(IsNamed(form, name) /\ Resolve(scopes, name) = None, vs)

Matches(p, form, scopes, vs) ==
    CASE p[1] = "constant" -> Match(Equivalent(form, p[2]), vs)
      [] p[1] = "any" -> Match(TRUE, vs)
      [] p[1] = "variable" -> Match(TRUE, [vs EXCEPT ![p[2]] = form])
      [] p[1] = "bound" -> MatchBound(p[2], form, scopes, vs)
      [] p[1] = "unbound" -> MatchUnbound(p[2], form, scopes, vs)
      [] p[1] = "list" -> MatchList(p[2], form, scopes, vs)
      [] p[1] = "vector" -> MatchVector(p[2], form, scopes, vs)

----------------------------------------------------------------------------
(* Templates *)

\* A template: a datum, a symbol and the scopes it is looked up in, a variable, or a list or
\* vector of subtemplates, each repeated to a depth over the variables of a group.
DatumTemplate(v) == <<"datum", v>>
SymbolTemplate(visible, symbol) == <<"symbol", visible, symbol>>
VariableTemplate(index) == <<"variable", index>>
Subtemplate(t, first, count, depth) == [t |-> t, first |-> first, count |-> count, depth |-> depth]
ListTemplate(subs, rest) == <<"list", subs, rest>>
VectorTemplate(subs) == <<"vector", subs>>

\* The template of an expression, the repeat group its variables are in, or None.
Templ(t, g, err) == [t |-> t, g |-> g, err |-> err]

\* maybeAssignGroup
Assigned(g, new) == IF g = None THEN new ELSE g
Conflict(g, new) == None \notin {g, new} /\ g # new

IndexOf(vars, name) ==
    LET at == {i \in DOMAIN vars : vars[i][1] = name} IN IF at = {} THEN 0 ELSE CHOOSE i \in at : TRUE
CountOf(vars, g) == Len(SelectSeq(vars, LAMBDA v : InGroup(v[2], g)))

\* createTemplate: literally is set behind an ellipsis that quotes what follows.
RECURSIVE CreateTemplate(_, _, _, _), Outer(_, _)

\* The group left after as many ellipses, each of which leaves one.
Outer(g, depth) == IF depth = 0 \/ g = None THEN g ELSE Outer(g[1], depth - 1)
CreateSub(x, depth, visible, vars, literally) ==
    LET m == CreateTemplate(x, visible, vars, literally)
        over == Outer(m.g, depth - 1)
        deep == \E k \in 1 .. depth : Outer(m.g, k - 1) = None
    IN  CASE depth = 0 -> Templ(Subtemplate(m.t, 0, 0, 0), m.g, m.err)
          [] depth > 0 /\ deep -> Templ(None, None, TRUE)
          [] OTHER -> Templ(Subtemplate(m.t, over[2], CountOf(vars, over), depth), over[1], m.err)
DotsAfter(items, i) == Cardinality({j \in i + 1 .. Len(items) : \A k \in i + 1 .. j : items[k] = Dots})
CreateSubs(items, visible, vars, literally) ==
    LET Step(acc, i) ==
            LET depth == IF literally THEN 0 ELSE DotsAfter(items, i)
                m == CreateSub(items[i], depth, visible, vars, literally)
            IN  IF i < acc.next THEN acc
                ELSE [t |-> Append(acc.t, m.t), g |-> Assigned(acc.g, m.g), next |-> i + depth + 1,
                      err |-> acc.err \/ m.err \/ Conflict(acc.g, m.g)]
    IN  FoldLeft(Step, [t |-> <<>>, g |-> None, next |-> 1, err |-> FALSE], [i \in DOMAIN items |-> i])
CreateListTemplate(x, visible, vars, literally) ==
    LET subs == CreateSubs(Contents(x), visible, vars, literally)
        rest == CreateTemplate(Ending(x), visible, vars, literally)
    IN  IF IsList(x) THEN Templ(ListTemplate(subs.t, None), subs.g, subs.err)
        ELSE Templ(ListTemplate(subs.t, rest.t), Assigned(subs.g, rest.g),
                   subs.err \/ rest.err \/ Conflict(subs.g, rest.g))
CreateTemplate(x, visible, vars, literally) ==
    CASE IsSymbol(x) /\ IndexOf(vars, Name(x)) = 0 -> Templ(SymbolTemplate(visible, x), None, FALSE)
      [] IsSymbol(x) /\ IndexOf(vars, Name(x)) > 0 ->
            LET i == IndexOf(vars, Name(x)) IN Templ(VariableTemplate(i), vars[i][2], FALSE)
      [] IsPair(x) /\ Car(x) = Dots /\ ~literally ->
            IF HasLength(x, {2}) THEN CreateTemplate(Car(Cdr(x)), visible, vars, TRUE)
            ELSE Templ(None, None, TRUE)
      [] IsPair(x) /\ (Car(x) # Dots \/ literally) -> CreateListTemplate(x, visible, vars, literally)
      [] Type(x) = "vector" ->
            LET subs == CreateSubs(x[2], visible, vars, literally)
            IN  Templ(VectorTemplate(subs.t), subs.g, subs.err)
      [] OTHER -> Templ(DatumTemplate(x), None, FALSE)

\* A whole template is in no group.
WholeTemplate(x, visible, vars) ==
    LET m == CreateTemplate(x, visible, vars, FALSE) IN [m EXCEPT !.err = m.err \/ m.g # None]

----------------------------------------------------------------------------
(* Expansion *)

\* What a template stands for; a subtemplate may stand for any number of forms.
RECURSIVE Generate(_, _, _), GenerateSub(_, _, _, _)
GenerateSub(sub, depth, scopes, vs) ==
    LET Within(i) == i - sub.first \in 1 .. sub.count
        times == Len(vs[sub.first + 1][2])
        Taken(k) == [i \in DOMAIN vs |-> IF Within(i) THEN vs[i][2][k] ELSE vs[i]]
    IN  IF depth = 0 THEN <<Generate(sub.t, scopes, vs)>>
        ELSE FlattenSeq([k \in 1 .. times |-> GenerateSub(sub, depth - 1, scopes, Taken(k))])
GenerateSubs(subs, scopes, vs) ==
    FlattenSeq([i \in DOMAIN subs |-> GenerateSub(subs[i], subs[i].depth, scopes, vs)])
GenerateSymbol(visible, symbol, scopes) ==
    LET binding == Resolve(SubSeq(scopes, 1, visible), Name(symbol))
    IN  IF binding = None THEN symbol ELSE binding
Generate(t, scopes, vs) ==
    CASE t[1] = "datum" -> t[2]
      [] t[1] = "symbol" -> GenerateSymbol(t[2], t[3], scopes)
      [] t[1] = "variable" -> vs[t[2]]
      [] t[1] = "list" -> ListEnding(GenerateSubs(t[2], scopes, vs),
                                     IF t[3] = None THEN Null ELSE Generate(t[3], scopes, vs))
      [] t[1] = "vector" -> Vector(GenerateSubs(t[2], scopes, vs))

\* PatternTemplate, and its maybeTransform: None if the form does not match.
PatternTemplate(count, pattern, template) == <<"rule", count, pattern, template>>
MaybeTransform(pt, form, scopes) ==
    LET m == Matches(pt[3], form, scopes, [i \in 1 .. pt[2] |-> Null])
    IN  IF m.ok THEN Generate(pt[4], scopes, m.vs) ELSE None

\* SyntaxRules::maybeTransform: the first rule that matches.
RECURSIVE TransformRules(_, _, _)
TransformRules(templates, form, scopes) ==
    IF templates = <<>> THEN None
    ELSE LET t == MaybeTransform(Head(templates), form, scopes)
         IN  IF t = None THEN TransformRules(Tail(templates), form, scopes) ELSE t

----------------------------------------------------------------------------
(* Macro transformers *)

Transformer(v, err) == [v |-> v, err |-> err]
NoTransformer == Transformer(None, TRUE)

\* A literal is bound to what its name is bound to where the macro is defined.
LiteralsOf(names, scopes) ==
    [n \in {Name(names[i]) : i \in DOMAIN names} |->
        IF Resolve(scopes, n) = None THEN UnboundLiteralPattern(n)
        ELSE BoundLiteralPattern(Resolve(scopes, n))]

\* A rule: a pattern and a template.
CreateRule(pattern, template, literals, scopes) ==
    LET p == CreatePattern(pattern, literals, <<>>, None)
        t == WholeTemplate(template, Len(scopes), p.vars)
    IN  [v |-> PatternTemplate(Len(p.vars), p.p, t.t), err |-> p.err \/ t.err]

\* (syntax-rules (literal ...) (pattern template) ...)
CreateSyntaxRules(x, scopes) ==
    LET names == Contents(Car(Cdr(x)))
        rules == Contents(Cdr(Cdr(x)))
        made == [i \in DOMAIN rules |->
                    CreateRule(Car(rules[i]), Car(Cdr(rules[i])), LiteralsOf(names, scopes), scopes)]
    IN  IF /\ IsList(Car(Cdr(x))) /\ IsList(x)
           /\ \A i \in DOMAIN names : IsSymbol(names[i])
           /\ \A i \in DOMAIN rules : HasLength(rules[i], {2})
           /\ \A i \in DOMAIN made : ~made[i].err
        THEN Transformer(SyntaxRules([i \in DOMAIN made |-> made[i].v]), FALSE)
        ELSE NoTransformer

\* (identifier-syntax template), or with a rule for the name and one for set!
CreateIdentifierSyntax(x, scopes) ==
    LET parts == Contents(Cdr(x))
        use == parts[1]
        set == parts[2]
        plain == WholeTemplate(use, Len(scopes), <<>>)
        template == WholeTemplate(Car(Cdr(use)), Len(scopes), <<>>)
        target == Contents(Car(set))
        setter == CreateRule(target[3], Car(Cdr(set)), <<>>, scopes)
    IN  CASE HasLength(x, {2}) -> Transformer(IdentifierSyntax(plain.t, None), plain.err)
          [] HasLength(x, {3}) /\ HasLength(use, {2}) /\ HasLength(set, {2}) /\ IsSymbol(Car(use))
                /\ HasLength(Car(set), {3}) /\ target[1] = Symbol("set!") /\ IsSymbol(target[2]) ->
                    Transformer(IdentifierSyntax(template.t, setter.v), template.err \/ setter.err)
          [] OTHER -> NoTransformer

\* createMacroTransformer
CreateMacroTransformer(x, scopes) ==
    LET binding == Resolve(scopes, Name(x))
    IN  CASE IsSymbol(x) ->
                Transformer(binding, binding[1] \notin {"syntax-rules", "identifier-syntax"})
          [] IsPair(x) /\ IsPair(Cdr(x)) /\ IsNamed(Car(x), "syntax-rules") -> CreateSyntaxRules(x, scopes)
          [] IsPair(x) /\ IsPair(Cdr(x)) /\ IsNamed(Car(x), "identifier-syntax") ->
                CreateIdentifierSyntax(x, scopes)
          [] OTHER -> NoTransformer

=============================================================================
