----------------------------- MODULE LineEditor -----------------------------
(***************************************************************************)
(* What the shell promises of the line it keeps: it is what the shell was  *)
(* given since the last Enter, less what was erased, and Enter runs it.    *)
(* What the screen shows of it is another matter and not promised.         *)
(***************************************************************************)
EXTENDS Naturals, Sequences

CONSTANTS
    Printable,  \* the characters a line is made of
    LineMax     \* the longest line

VARIABLES
    line,       \* the line kept
    ran         \* the lines that were run, in order

vars == <<line, ran>>

Init == line = <<>> /\ ran = <<>>

Type(ch) ==
    /\ Len(line) < LineMax
    /\ line' = Append(line, ch)
    /\ UNCHANGED ran

Erase ==
    /\ line # <<>>
    /\ line' = SubSeq(line, 1, Len(line) - 1)
    /\ UNCHANGED ran

Run ==
    /\ ran' = Append(ran, line)
    /\ line' = <<>>

Next == (\E ch \in Printable : Type(ch)) \/ Erase \/ Run

Spec == Init /\ [][Next]_vars
==============================================================================
