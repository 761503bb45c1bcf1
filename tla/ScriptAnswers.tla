--------------------------- MODULE ScriptAnswers ---------------------------
(* What an evaluator promises: of the scripts it is asked for, one at a    *)
(* time, each is either given up for the next or answered with what it     *)
(* means, once.                                                            *)
EXTENDS Sequences

CONSTANTS
    Texts,      \* the scripts there are
    Nothing,    \* no script
    Meaning(_)  \* what is written and shown for one

VARIABLES
    asked,  \* the one being evaluated, or Nothing
    told    \* those that have been answered, with the answers

vars == <<asked, told>>

Init == asked = Nothing /\ told = <<>>

Told(text) == told' = Append(told, <<text>> \o Meaning(text))

Ask(text) == asked' = text /\ UNCHANGED told
Refuse(text) == asked' = Nothing /\ Told(text)
Answer == asked # Nothing /\ asked' = Nothing /\ Told(asked)

Next == Answer \/ \E text \in Texts : Ask(text) \/ Refuse(text)
Spec == Init /\ [][Next]_vars

=============================================================================
