------------------------------ MODULE FileStore ------------------------------
(***************************************************************************)
(* What the descriptors of the virtual file system promise about regular   *)
(* files: a file is a sequence of bytes, reading through a descriptor      *)
(* yields the bytes that follow those it has read or written before, and   *)
(* writing replaces them, at the end adding to them.                       *)
(***************************************************************************)
EXTENDS Integers, Sequences

CONSTANTS
    Files,          \* what a file may be called
    Descriptors,
    Chunks,         \* the byte sequences that are written
    Counts,         \* the numbers of bytes that are asked for
    NONE            \* a descriptor that denotes no file

VARIABLES
    content,        \* the bytes of each file there is
    open,           \* the file and the position of each descriptor
    got             \* the bytes the last read returned

vars == <<content, open, got>>

Init ==
    /\ content = [f \in {} |-> <<>>]
    /\ open = [d \in Descriptors |-> NONE]
    /\ got = <<>>

Create(f, bytes) ==
    /\ f \notin DOMAIN content
    /\ content' = [g \in DOMAIN content \cup {f} |->
                      IF g = f THEN bytes ELSE content[g]]
    /\ UNCHANGED <<open, got>>

Open(d, f) ==
    /\ open[d] = NONE
    /\ open' = [open EXCEPT ![d] = [file |-> f, at |-> 0]]
    /\ UNCHANGED <<content, got>>

Close(d) ==
    /\ open' = [open EXCEPT ![d] = NONE]
    /\ UNCHANGED <<content, got>>

Least(m, n) == IF m <= n THEN m ELSE n

Read(d, n) ==
    /\ open[d] # NONE
    /\ LET bytes == content[open[d].file]
           at    == open[d].at
       IN  /\ got' = SubSeq(bytes, at + 1, Least(at + n, Len(bytes)))
           /\ open' = [open EXCEPT ![d].at = at + Len(got')]
    /\ UNCHANGED content

Write(d, chunk) ==
    /\ open[d] # NONE
    /\ LET bytes == content[open[d].file]
           at    == open[d].at
           past  == at + Len(chunk)
       IN  /\ content' = [content EXCEPT ![open[d].file] =
                  SubSeq(bytes, 1, at) \o chunk \o SubSeq(bytes, past + 1, Len(bytes))]
           /\ open' = [open EXCEPT ![d].at = past]
    /\ UNCHANGED got

Next ==
    \/ \E f \in Files, bytes \in Chunks \cup {<<>>} : Create(f, bytes)
    \/ \E d \in Descriptors :
          \/ \E f \in DOMAIN content : Open(d, f)
          \/ Close(d)
          \/ \E n \in Counts : Read(d, n)
          \/ \E chunk \in Chunks : Write(d, chunk)

Spec == Init /\ [][Next]_vars
==============================================================================
