--------------------------- MODULE ScriptMachine ---------------------------
(* The evaluator of a session (script/Evaluator.cpp, script/Evaluator.h,   *)
(* net/Session.cpp): scripts are compiled and run a slice at a time in the *)
(* session's thread; in between they wait for the timer, sleep, or wait    *)
(* for a line of input; the next script cancels one that has not ended.    *)
(*                                                                         *)
(* Invocations are frames of a heap, the first that of the global scope    *)
(* and the second the evaluator's; no frame is ever collected.  While a    *)
(* slice runs nothing else happens in the thread.                          *)
EXTENDS ScriptMacros, ScriptGlobals

CONSTANTS
    Scripts,    \* the texts that are evaluated
    Probes,     \* those that may follow another
    Slice,      \* maxCyclesPerSlice
    MaxScripts, \* how many are evaluated at most
    MaxLines,   \* how many lines are typed at most
    Compiled(_, _, _)   \* what compileForEvaluation makes of a text, in scopes and after code:
                        \* the machine runs whatever that is

VARIABLES
    scopes,   \* the global scope and the evaluator's
    frames,   \* [code, parent, vars, regs]: _procedure, _variables, _registers
    stack,    \* _stack
    regs,     \* _registers: [inv, pc, count]
    running,  \* a slice is being executed
    cycles,   \* what is left of it
    timer,    \* _timer is active
    sleeping, \* _sleeping
    waker,    \* _waker: "none", "timer" or "input"
    typed,    \* lines typed so far
    lines,    \* of these, how many are in the buffer of the device
    printed,  \* what the script has written
    asked,    \* the script being evaluated, or NoScript
    told,     \* scripts that have ended, with what they wrote and what was shown for them
    count     \* scripts evaluated so far

core == <<frames, stack, regs>>
waiting == <<timer, sleeping, waker>>
input == <<typed, lines>>
vars == <<scopes, core, running, cycles, waiting, input, printed, asked, told, count>>

LineText == "hi"
NoScript == ""

\* Registers
Registers(inv, pc, operands) == [inv |-> inv, pc |-> pc, count |-> operands]

\* Scope with values, as createGlobalScope and the constructor of Evaluator leave it.
GlobalScope ==
    [NewScope(0, FALSE) EXCEPT
        !.bindings = [i \in DOMAIN GlobalNames |-> <<GlobalNames[i], Variable(0, i - 1)>>],
        !.count = Len(GlobalNames)]
Frame(code, parent, values, registers) ==
    [code |-> code, parent |-> parent, vars |-> values, regs |-> registers]
GlobalFrame ==
    Frame(<<>>, 0, [i \in DOMAIN GlobalNames |-> GlobalValue(GlobalNames[i])], Registers(0, 0, 0))

Init ==
    /\ scopes = Opened(<<GlobalScope>>, FALSE)
    /\ frames = <<GlobalFrame, Frame(<<>>, 1, <<>>, Registers(0, 0, 0))>>
    /\ stack = <<Invocation(2)>>
    /\ regs = Registers(0, 0, 0)
    /\ running = FALSE /\ cycles = 0
    /\ timer = FALSE /\ sleeping = FALSE /\ waker = "none"
    /\ typed = 0 /\ lines = 0
    /\ printed = "" /\ asked = NoScript /\ told = <<>> /\ count = 0

----------------------------------------------------------------------------
(* The core of the machine as a value *)

Core(f, s, r) == [frames |-> f, stack |-> s, regs |-> r]
Now == Core(frames, stack, [regs EXCEPT !.pc = @ + 1])
Becomes(m) == frames' = m.frames /\ stack' = m.stack /\ regs' = m.regs

\* The frame that is executing, and its instruction.
Current(m) == m.frames[m.stack[m.regs.inv + 1][2]]
Op == Current(Core(frames, stack, regs)).code[regs.pc + 1]

Push(m, v) == [m EXCEPT !.stack = Append(@, v), !.regs.count = @ + 1]
Popped(m) == [m EXCEPT !.stack = Front(@), !.regs.count = @ - 1]
Jumped(m, n) == [m EXCEPT !.regs.pc = @ + n]

\* The frame so many levels up (Invocation::variable, setVariable).
RECURSIVE FrameUp(_, _, _)
FrameUp(fs, id, up) == IF up = 0 THEN id ELSE FrameUp(fs, fs[id].parent, up - 1)
Home(m, up) == FrameUp(m.frames, m.stack[m.regs.inv + 1][2], up)

\* Mutant: the registers stay those of the procedure that failed.
UnwoundLess(m) == Core(m.frames, SubSeq(m.stack, 1, 1), [m.regs EXCEPT !.count = 0])

\* throwScriptError: back to the evaluator's own frame, with nothing on the stack.
Unwound(m) == Core(m.frames, SubSeq(m.stack, 1, 1), Registers(0, m.regs.pc, 0))

----------------------------------------------------------------------------
(* Calls *)

\* The procedure called and its arguments.
Operands(m) == SubSeq(m.stack, Len(m.stack) - m.regs.count + 1, Len(m.stack))

\* Mutant: the operands there were before the call are forgotten.
CallOverForgetting(m, tail) ==
    LET below == Len(m.stack) - m.regs.count
    IN  IF tail THEN Core(m.frames, SubSeq(m.stack, 1, m.regs.inv), Current(m).regs)
        ELSE [m EXCEPT !.stack = SubSeq(@, 1, below - 1), !.regs.count = 0]

\* The machine once a call is over, but for the result: a tail call returns at once.
CallOver(m, tail) ==
    LET below == Len(m.stack) - m.regs.count
    IN  IF tail THEN Core(m.frames, SubSeq(m.stack, 1, m.regs.inv), Current(m).regs)
        ELSE [m EXCEPT !.stack = SubSeq(@, 1, below - 1), !.regs.count = m.stack[below][2]]

\* What a call leads to: the machine, and what else: nothing, an error, some text written, a
\* line taken, or a wait for the timer or for a line.
Outcome(m, effect) == [m |-> m, effect |-> effect]
Quiet == <<"none">>
Failure(m) == Outcome(Unwound(m), <<"error">>)

\* A native procedure; two of them may return nothing and put the evaluator to sleep.
CallNative(m, tail, f, args) ==
    LET v == Native(f, args)
        over == CallOver(m, tail)
    IN  CASE v = Raise -> Failure(m)
          [] v # Raise /\ f = "sleep" -> Outcome(over, <<"wait", "timer">>)
          [] v # Raise /\ f = "get-line" /\ lines = 0 -> Outcome(over, <<"wait", "input">>)
          [] v # Raise /\ f = "get-line" /\ lines > 0 ->
                Outcome(Push(over, String(LineText)), <<"take">>)
          [] v # Raise /\ f \in {"put-char", "put-string", "put-datum"} ->
                Outcome(Push(over, Unspecified), <<"write", v[2]>>)
          [] OTHER -> Outcome(Push(over, v), Quiet)

\* A procedure of the script: its arguments, the rest of them as a list, and a frame.
CallLambda(m, tail, proc, args) ==
    LET lambda == proc[2]
        firsts == lambda[2]
        rest == lambda[3]
        over == CallOver(m, tail)
        given == SubSeq(args, 1, firsts)
                    \o IF rest THEN <<List(SubSeq(args, firsts + 1, Len(args)))>> ELSE <<>>
        values == given \o [i \in 1 .. lambda[4] - Len(given) |-> Unspecified]
        frame == Frame(lambda[5], proc[3], values, over.regs)
    IN  IF ~(IF rest THEN Len(args) >= firsts ELSE Len(args) = firsts) THEN Failure(m)
        ELSE Outcome(Core(Append(m.frames, frame), Append(over.stack, Invocation(Len(m.frames) + 1)),
                          Registers(Len(over.stack), 0, 0)), Quiet)

\* apply: the arguments before its last one, and those listed there.
Spread(m, args) ==
    LET all == Front(args) \o Contents(Last(args))
    IN  [m EXCEPT !.stack = SubSeq(@, 1, Len(@) - m.regs.count) \o all, !.regs.count = Len(all)]

\* call/cc: what is called gets a procedure that brings the machine back to where it is.
WithEscape(over, proc) ==
    LET escape == EscapeProcedure(over.stack, over.regs)
    IN  [over EXCEPT !.stack = @ \o <<Integer(over.regs.count), proc, escape>>, !.regs.count = 2]
Escaped(m, escape, args) ==
    Core(m.frames, escape[2] \o args, [escape[3] EXCEPT !.count = @ + Len(args)])

\* CallOp and TailCallOp
RECURSIVE Call(_, _)
Call(m, tail) ==
    LET proc == Head(Operands(m))
        args == Tail(Operands(m))
    IN  CASE Type(proc) = "native" -> CallNative(m, tail, proc[2], args)
          [] Type(proc) = "procedure" -> CallLambda(m, tail, proc, args)
          [] Type(proc) = "apply" /\ Len(args) >= 2 /\ IsList(Last(args)) ->
                Call(Spread(m, args), tail)
          [] Type(proc) = "capture" /\ Len(args) = 1 ->
                Call(WithEscape(CallOver(m, tail), args[1]), FALSE)
          [] Type(proc) = "escape" -> Outcome(Escaped(m, proc, args), Quiet)
          [] OTHER -> Failure(m)

----------------------------------------------------------------------------
(* Instructions *)

Executing(op) == running /\ cycles > 0 /\ Op[1] = op
Quietly ==
    /\ cycles' = cycles - 1
    /\ UNCHANGED <<scopes, running, waiting, input, printed, asked, told, count>>

ConstantStep == Executing("constant") /\ Becomes(Push(Now, Op[2])) /\ Quietly
VariableStep ==
    /\ Executing("variable")
    /\ Becomes(Push(Now, frames[Home(Now, Op[2])].vars[Op[3] + 1]))
    /\ Quietly
SetVariableStep ==
    /\ Executing("set")
    /\ Becomes([Popped(Now) EXCEPT !.frames[Home(Now, Op[2])].vars[Op[3] + 1] = Last(stack)])
    /\ Quietly
ResetOperandCountStep ==
    /\ Executing("reset")
    /\ Becomes([Now EXCEPT !.stack = Append(@, Integer(regs.count)), !.regs.count = 0])
    /\ Quietly
LambdaStep ==
    /\ Executing("lambda")
    /\ Becomes(Push(Now, LambdaProcedure(Op[2], stack[regs.inv + 1][2])))
    /\ Quietly
PopStep == Executing("pop") /\ Becomes(Popped(Now)) /\ Quietly
JumpStep == Executing("jump") /\ Becomes(Jumped(Now, Op[2])) /\ Quietly

\* The condition is taken off the stack, but stays counted as an operand.
ConditionalJumpStep ==
    /\ Executing("condjump")
    /\ LET popped == [Now EXCEPT !.stack = Front(@)]
       IN  Becomes(IF Last(stack) = Boolean(TRUE) THEN popped ELSE Jumped(popped, Op[2]))
    /\ Quietly

\* The value returned takes the place of the invocation.
ReturnStep ==
    /\ Executing("return")
    /\ Becomes(Core(frames, [Front(stack) EXCEPT ![regs.inv + 1] = Last(stack)],
                    [Current(Now).regs EXCEPT !.count = @ + 1]))
    /\ Quietly

\* The script has ended: evaluatorExited or evaluatorThrewError shows how.
End(shown) ==
    /\ running' = FALSE /\ cycles' = 0 /\ timer' = FALSE
    /\ asked' = NoScript
    /\ told' = Append(told, <<asked, printed, shown>>)
    /\ UNCHANGED <<scopes, sleeping, waker, input, printed, count>>
ExitStep == Executing("exit") /\ Becomes(Popped(Now)) /\ End(ToText(Last(stack)))
LambdaExitStep == Executing("lambdaexit") /\ Becomes(Now) /\ End(ToText(Unspecified))

\* What a call leads to.
Writes(effect) ==
    /\ effect[1] = "write"
    /\ printed' = printed \o effect[2]
    /\ cycles' = cycles - 1
    /\ UNCHANGED <<scopes, running, waiting, input, asked, told, count>>
Takes(effect) ==
    /\ effect[1] = "take"
    /\ lines' = lines - 1
    /\ cycles' = cycles - 1
    /\ UNCHANGED <<scopes, running, waiting, typed, printed, asked, told, count>>
\* Mutant: what is to wake the evaluator is not set.
WaitsForNothing(effect) ==
    /\ effect[1] = "wait"
    /\ sleeping' = TRUE
    /\ running' = FALSE /\ cycles' = 0 /\ timer' = FALSE
    /\ UNCHANGED <<scopes, waker, input, printed, asked, told, count>>
Waits(effect) ==
    /\ effect[1] = "wait"
    /\ sleeping' = TRUE /\ waker' = effect[2]
    /\ running' = FALSE /\ cycles' = 0 /\ timer' = FALSE
    /\ UNCHANGED <<scopes, input, printed, asked, told, count>>
LeadsTo(outcome) ==
    /\ Becomes(outcome.m)
    /\ \/ outcome.effect = Quiet /\ Quietly
       \/ outcome.effect[1] = "error" /\ End("error")
       \/ Writes(outcome.effect)
       \/ Takes(outcome.effect)
       \/ Waits(outcome.effect)
CallStep ==
    /\ Executing("call") \/ Executing("tailcall")
    /\ LeadsTo(Call(Now, Op[1] = "tailcall"))

Instruction ==
    \/ ConstantStep \/ VariableStep \/ SetVariableStep \/ ResetOperandCountStep \/ LambdaStep
    \/ PopStep \/ JumpStep \/ ConditionalJumpStep \/ ReturnStep \/ ExitStep \/ LambdaExitStep
    \/ CallStep

----------------------------------------------------------------------------
(* Slices *)

\* Mutant: what was on the stack is left there.
CancelledKeeping == Core(frames, stack, Registers(0, regs.pc, 0))

\* cancel: only what waits for the timer or sleeps is cancelled.
CancelledCore ==
    IF timer \/ sleeping THEN Core(frames, SubSeq(stack, 1, 1), Registers(0, regs.pc, 0))
    ELSE Core(frames, stack, regs)
Cancel == timer' = FALSE /\ sleeping' = FALSE /\ waker' = "none"

\* Evaluator::evaluate, from /eval or a script that was uploaded
Evaluate(text) ==
    LET c == Compiled(text, scopes, frames[2].code)
        unset == [i \in 1 .. c.sc[2].count - Len(frames[2].vars) |-> Unspecified]
        m == [CancelledCore EXCEPT !.frames[2].code = c.out, !.frames[2].vars = @ \o unset,
                                   !.regs.pc = Len(frames[2].code)]
    IN  /\ ~running /\ count < MaxScripts /\ (count = 0 \/ text \in Probes)
        /\ count' = count + 1
        /\ Cancel
        /\ scopes' = c.sc
        /\ Becomes(m)
        /\ running' = ~c.err
        /\ cycles' = IF c.err THEN 0 ELSE Slice
        /\ printed' = ""
        /\ asked' = IF c.err THEN NoScript ELSE text
        /\ told' = IF c.err THEN Append(told, <<text, "", "error">>) ELSE told
        /\ UNCHANGED input

\* execute has done its cycles: the rest waits for the timer.
SliceEnds ==
    /\ running /\ cycles = 0
    /\ running' = FALSE /\ timer' = TRUE
    /\ UNCHANGED <<scopes, core, cycles, sleeping, waker, input, printed, asked, told, count>>

\* continueExecuting
ContinueExecuting ==
    /\ ~running /\ timer
    /\ running' = TRUE /\ cycles' = Slice
    /\ UNCHANGED <<scopes, core, waiting, input, printed, asked, told, count>>

\* wakeUp
WakeUp(v) ==
    /\ sleeping' = FALSE /\ waker' = "none"
    /\ Becomes(Push(Core(frames, stack, regs), v))
    /\ running' = TRUE /\ cycles' = Slice
    /\ UNCHANGED <<scopes, timer, printed, asked, told, count>>

\* The timer of a sleep
SleepEnds == ~running /\ waker = "timer" /\ WakeUp(Unspecified) /\ UNCHANGED input

\* maybeReadLine when it is connected to the device; otherwise the line is kept.
LineTyped ==
    /\ ~running /\ typed < MaxLines
    /\ typed' = typed + 1
    /\ \/ waker = "input" /\ WakeUp(String(LineText)) /\ UNCHANGED lines
       \/ /\ waker # "input" /\ lines' = lines + 1
          /\ UNCHANGED <<scopes, core, running, cycles, waiting, printed, asked, told, count>>

Next ==
    \/ Instruction \/ SliceEnds \/ ContinueExecuting \/ SleepEnds \/ LineTyped
    \/ \E text \in Scripts : Evaluate(text)

\* The session's thread goes on with its slice, and its timers fire.  As something can be
\* done at every point of a slice, and nothing else happens then, that the thread goes on is
\* the weak fairness of its steps.
GoesOn == []<>~running \/ []<><<running>>_vars
Fairness == GoesOn /\ WF_vars(ContinueExecuting) /\ WF_vars(SleepEnds)
Spec == Init /\ [][Next]_vars /\ Fairness

=============================================================================
