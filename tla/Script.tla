------------------------------- MODULE Script -------------------------------
(* The evaluator against the meaning of its scripts.                       *)
EXTENDS ScriptMachine, ScriptCompiler, ScriptSemantics

\* A script has to come out as it means, a law as true.
CONSTANT Laws
Expected(text) == IF text \in Laws THEN <<"", "#t">> ELSE Meaning(text)

Answers == INSTANCE ScriptAnswers
    WITH Texts <- Scripts, Nothing <- NoScript, Meaning <- Expected, asked <- asked, told <- told

----------------------------------------------------------------------------
(* Properties *)

\* The registers point at an invocation, every invocation on the stack was called from one
\* below it, and the lowest is the evaluator's (Evaluator::execute, which follows them all
\* without looking).
Chained ==
    LET At0(k) == stack[k + 1]
        Calls == {k \in 0 .. Len(stack) - 1 : Type(At0(k)) = "invocation"}
        From(k) == frames[At0(k)[2]].regs.inv
    IN  /\ regs.count >= 0 /\ regs.pc >= 0 /\ cycles \in 0 .. Slice
        /\ At0(0) = Invocation(2)
        /\ regs.inv \in Calls
        /\ \A k \in Calls \ {0} : From(k) \in Calls /\ From(k) < k

\* An evaluator has exactly one reason to go on: it is executing, its timer is set, or it
\* sleeps and something is going to wake it; and when it has none the script is over and has
\* left nothing on the stack (evaluate, wakeUp, continueExecuting, cancel).
Tidy ==
    /\ (IF running THEN 1 ELSE 0) + (IF sleeping THEN 1 ELSE 0) + (IF timer /\ ~running THEN 1 ELSE 0)
           = (IF asked = NoScript THEN 0 ELSE 1)
    /\ sleeping <=> waker # "none"
    /\ asked = NoScript => stack = <<Invocation(2)>> /\ ~timer

\* Every script that is not given up is answered, once, with what it means: compiled, cut into
\* slices, put to sleep and woken, and after whatever was cancelled before it
\* (Evaluator::evaluate).
Implements == Answers!Spec

\* A script that is being evaluated comes to an end, or waits for a line.
Ends == asked # NoScript ~> (asked = NoScript \/ waker = "input")

=============================================================================
