------------------------------ MODULE Allocator ------------------------------
(***************************************************************************)
(* What both memory managers of the kernel promise their callers, without  *)
(* saying how it is kept: the page allocator (mm/pmm.c) hands out runs of  *)
(* pages and the kernel heap (mm/heap.c) hands out runs of bytes.  One     *)
(* request is served at a time.  It is granted an aligned extent that      *)
(* nobody else owns and that is at least as long as was asked for, or it   *)
(* is refused, and it may only be refused when no place is left for it.    *)
(***************************************************************************)
EXTENDS Integers

CONSTANTS
    Extent,     \* a natural number: the arena is 0 .. Extent - 1
    Reserved,   \* the cells of the arena that are never handed out
    Overhead,   \* cells of bookkeeping kept in front of every extent
    Unit,       \* extents start at, and are as long as, a multiple of Unit
    Sizes,      \* the lengths a caller may ask for
    NONE        \* no request is pending; not a number

VARIABLES
    owned,      \* the start of each extent in use |-> its length
    want        \* the length of the pending request, or NONE

vars == <<owned, want>>

Aligned == {n \in 0 .. Extent : n % Unit = 0}

RoundUp(n) == ((n + Unit - 1) \div Unit) * Unit

(* The cells an extent takes, its bookkeeping included. *)
Span(p, len) == (p - Overhead) .. (p + len - 1)

Overlap(p, plen, q, qlen) ==
    p - Overhead < q + qlen /\ q - Overhead < p + plen

Available(p, len) ==
    /\ Overhead <= p /\ p + len <= Extent
    /\ Span(p, len) \cap Reserved = {}
    /\ \A q \in DOMAIN owned : ~Overlap(p, len, q, owned[q])

TypeOK ==
    /\ DOMAIN owned \subseteq Nat
    /\ \A p \in DOMAIN owned : owned[p] \in Nat
    /\ want \in Sizes \cup {NONE}

Init ==
    /\ owned = [p \in {} |-> 0]
    /\ want = NONE

Request(n) ==
    /\ want = NONE
    /\ want' = n
    /\ UNCHANGED owned

Grant(p, len) ==
    /\ want # NONE
    /\ p \notin DOMAIN owned
    /\ owned' = [q \in DOMAIN owned \cup {p} |->
                    IF q = p THEN len ELSE owned[q]]
    /\ len >= want
    /\ Available(p, len)
    /\ want' = NONE

Refuse ==
    /\ want # NONE
    /\ \A p \in Aligned : ~Available(p, RoundUp(want))
    /\ want' = NONE
    /\ UNCHANGED owned

Release(p) ==
    /\ want = NONE
    /\ owned' = [q \in DOMAIN owned \ {p} |-> owned[q]]
    /\ UNCHANGED want

Next ==
    \/ \E n \in Sizes : Request(n)
    \/ \E p, len \in Aligned : Grant(p, len)
    \/ Refuse
    \/ \E p \in DOMAIN owned : Release(p)

Spec == Init /\ [][Next]_vars
==============================================================================
