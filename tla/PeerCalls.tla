----------------------------- MODULE PeerCalls -----------------------------
(* What calling other peers promises, with no word of links, ids or who    *)
(* passes what on: a call is run by those it is for, each once, a call to  *)
(* one peer by one; a request is answered once, with who has run it, and   *)
(* nobody runs it after that.  What breaks may keep a call from being run  *)
(* or answered, never make it be so twice.                                 *)
EXTENDS Naturals, Sequences

CONSTANTS Peer, Call

VARIABLES
    calls,      \* the calls made so far
    handlers,   \* handlers[c]: who has run c
    answers     \* answers[c]: the answer to c, if there is one

vars == <<calls, handlers, answers>>

\* "one" is to a peer by name; "lead" and "host" are to whoever that turns out to be.
Made == [by : Peer, kind : {"one", "lead", "host", "others", "all"}, to : SUBSET Peer, reply : BOOLEAN]
ForAll == {"others", "all"}
ByName == {"one"} \cup ForAll

Init ==
    /\ calls = <<>>
    /\ handlers = [c \in Call |-> {}]
    /\ answers = [c \in Call |-> <<>>]

\* q runs c.
Handled(c, q) ==
    /\ answers[c] = <<>> /\ q \notin handlers[c]
    /\ calls'[c].kind \in ByName => q \in calls'[c].to
    /\ calls'[c].kind \notin ForAll => handlers[c] = {}
    /\ handlers' = [handlers EXCEPT ![c] = @ \cup {q}]

\* The caller of c is told who has run it.
Answered(c) ==
    /\ answers[c] = <<>> /\ calls'[c].reply
    /\ calls'[c].kind \in ForAll => handlers[c] = calls'[c].to
    /\ answers' = [answers EXCEPT ![c] = <<handlers[c]>>]

\* A caller may be the one who runs the call, or find that there is nobody to run it.
Make(call) ==
    LET c == Len(calls) + 1 IN
    /\ c \in Call
    /\ calls' = Append(calls, call)
    /\ \/ UNCHANGED <<handlers, answers>>
       \/ Handled(c, call.by) /\ UNCHANGED answers
       \/ Answered(c) /\ UNCHANGED handlers

Handle(c, q) == Handled(c, q) /\ UNCHANGED <<calls, answers>>

Answer(c) == Answered(c) /\ UNCHANGED <<calls, handlers>>

Next ==
    \/ \E c \in DOMAIN calls : Answer(c) \/ \E q \in Peer : Handle(c, q)
    \/ calls' # calls /\ \E call \in Made : Make(call)

Spec == Init /\ [][Next]_vars
=============================================================================
