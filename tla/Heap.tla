-------------------------------- MODULE Heap --------------------------------
(***************************************************************************)
(* The kernel heap, src/kernel/src/mm/heap.c: a first-fit free list whose  *)
(* headers lie in the arena they describe.  Addresses are offsets from     *)
(* s_heap_start.  The walks of kmalloc and kfree are modelled one loop     *)
(* iteration a step, so that what a half-finished walk knows about the     *)
(* list can be stated (and proved) as an invariant.                        *)
(*                                                                         *)
(* The contents of the blocks are not modelled; kzalloc is a kmalloc whose *)
(* caller's bytes, all of them inside the block, are then cleared.  No     *)
(* caller in the kernel asks for more than 2^34 bytes, so sizes are plain  *)
(* numbers: nothing below reaches 2^64.                                    *)
(***************************************************************************)
EXTENDS Integers, FiniteSets

CONSTANTS
    HeapBytes,  \* initial_pages * PAGE_SIZE
    Requests,   \* the sizes callers ask for
    NULL        \* the C null pointer

(* sizeof(heap_block_t), the alignment, and the least payload worth a block. *)
Hdr   == 24
Align == 8
Slack == 32

ASSUME HeapAssumption ==
    /\ HeapBytes \in Nat
    /\ HeapBytes > Hdr
    /\ HeapBytes % Align = 0
    /\ Requests \subseteq Nat
    /\ NULL \notin Nat

VARIABLES
    hdr,        \* the header of every block reachable from s_head
    op,         \* the call in progress: "idle", "kmalloc" or "kfree"
    request,    \* kmalloc's argument as the caller passed it
    curr,       \* the cursor of the walk
    held        \* ghost: the pointers callers own |-> the bytes they asked for

vars == <<hdr, op, request, curr, held>>

Blocks == DOMAIN hdr

(* The first byte after block b. *)
End(b) == b + Hdr + hdr[b].size

(* A slip: the size is rounded down to the alignment. *)
AlignDown(n) == (n \div Align) * Align

AlignUp(n) == ((n + Align - 1) \div Align) * Align

size == AlignUp(request)

(* A slip: a block of exactly the right size is passed over. *)
FitsStrictly(b) == hdr[b].is_free /\ hdr[b].size > size

Fits(b) == hdr[b].is_free /\ hdr[b].size >= size

(* A slip: the split forgets that the rest needs a header. *)
SplittableAnyway(b) == hdr[b].size >= size

Splittable(b) == hdr[b].size >= size + Hdr + Slack

(* kfree's merge condition, for block b and the one after it. *)
Mergeable(b) ==
    /\ hdr[b].next # NULL
    /\ hdr[b].is_free
    /\ hdr[hdr[b].next].is_free

-----------------------------------------------------------------------------
(* heap_init: one free block covers the arena, and s_head is offset 0. *)
Init ==
    /\ hdr = [b \in {0} |->
                [size |-> HeapBytes - Hdr, is_free |-> TRUE, next |-> NULL]]
    /\ op = "idle"
    /\ request = 0
    /\ curr = NULL
    /\ held = [p \in {} |-> 0]

Return ==
    /\ op' = "idle"
    /\ request' = 0
    /\ curr' = NULL

KmallocCall(n) ==
    /\ op = "idle"
    /\ op' = "kmalloc"
    /\ request' = n
    /\ curr' = 0
    /\ UNCHANGED <<hdr, held>>

(* A slip: a block in use is skipped with a bare `continue`. *)
KmallocSkipStuck ==
    /\ op = "kmalloc" /\ curr # NULL
    /\ ~Fits(curr)
    /\ curr' = IF hdr[curr].is_free THEN hdr[curr].next ELSE curr
    /\ UNCHANGED <<hdr, op, request, held>>

(* The block is in use or too small: curr = curr->next. *)
KmallocSkip ==
    /\ op = "kmalloc" /\ curr # NULL
    /\ ~Fits(curr)
    /\ curr' = hdr[curr].next
    /\ UNCHANGED <<hdr, op, request, held>>

(* The caller gets the bytes behind the header of block b. *)
Hand(b) ==
    held' = [p \in DOMAIN held \cup {b + Hdr} |->
                IF p = b + Hdr THEN request ELSE held[p]]

KmallocSplit ==
    /\ op = "kmalloc" /\ curr # NULL
    /\ Fits(curr)
    /\ Splittable(curr)
    /\ LET rest == curr + Hdr + size IN
       hdr' = [b \in Blocks \cup {rest} |->
                 IF b = rest
                 THEN [size    |-> hdr[curr].size - size - Hdr,
                       is_free |-> TRUE,
                       next    |-> hdr[curr].next]
                 ELSE IF b = curr
                 THEN [size |-> size, is_free |-> FALSE, next |-> rest]
                 ELSE hdr[b]]
    /\ Hand(curr)
    /\ Return

KmallocWhole ==
    /\ op = "kmalloc" /\ curr # NULL
    /\ Fits(curr)
    /\ ~Splittable(curr)
    /\ hdr' = [hdr EXCEPT ![curr].is_free = FALSE]
    /\ Hand(curr)
    /\ Return

(* The walk fell off the list: return NULL. *)
KmallocFail ==
    /\ op = "kmalloc" /\ curr = NULL
    /\ Return
    /\ UNCHANGED <<hdr, held>>

(* A slip: merging starts at the block given back, not at s_head. *)
KfreeCallFromBlock(p) ==
    /\ op = "idle"
    /\ hdr' = [hdr EXCEPT ![p - Hdr].is_free = TRUE]
    /\ held' = [q \in DOMAIN held \ {p} |-> held[q]]
    /\ op' = "kfree"
    /\ curr' = p - Hdr
    /\ UNCHANGED request

(* kfree of a pointer kmalloc returned; kfree(NULL) changes nothing. *)
KfreeCall(p) ==
    /\ op = "idle"
    /\ hdr' = [hdr EXCEPT ![p - Hdr].is_free = TRUE]
    /\ held' = [q \in DOMAIN held \ {p} |-> held[q]]
    /\ op' = "kfree"
    /\ curr' = 0
    /\ UNCHANGED request

(* Two slips: the absorbed header's bytes are lost; the cursor moves on. *)
KfreeMergeLosesHeader ==
    /\ op = "kfree"
    /\ Mergeable(curr)
    /\ LET gone == hdr[curr].next IN
       hdr' = [b \in Blocks \ {gone} |->
                 IF b = curr
                 THEN [hdr[gone] EXCEPT !.size = @ + hdr[curr].size]
                 ELSE hdr[b]]
    /\ UNCHANGED <<op, request, curr, held>>

KfreeMergeMovesOn ==
    /\ op = "kfree"
    /\ Mergeable(curr)
    /\ LET gone == hdr[curr].next IN
       /\ hdr' = [b \in Blocks \ {gone} |->
                    IF b = curr
                    THEN [hdr[gone] EXCEPT !.size = @ + Hdr + hdr[curr].size]
                    ELSE hdr[b]]
       /\ curr' = IF hdr[gone].next = NULL THEN curr ELSE hdr[gone].next
    /\ UNCHANGED <<op, request, held>>

(* The next block is absorbed and curr stays, to look at its new neighbour. *)
KfreeMerge ==
    /\ op = "kfree"
    /\ Mergeable(curr)
    /\ LET gone == hdr[curr].next IN
       hdr' = [b \in Blocks \ {gone} |->
                 IF b = curr
                 THEN [size    |-> hdr[curr].size + Hdr + hdr[gone].size,
                       is_free |-> TRUE,
                       next    |-> hdr[gone].next]
                 ELSE hdr[b]]
    /\ UNCHANGED <<op, request, curr, held>>

KfreeAdvance ==
    /\ op = "kfree"
    /\ hdr[curr].next # NULL
    /\ ~Mergeable(curr)
    /\ curr' = hdr[curr].next
    /\ UNCHANGED <<hdr, op, request, held>>

KfreeDone ==
    /\ op = "kfree"
    /\ hdr[curr].next = NULL
    /\ Return
    /\ UNCHANGED <<hdr, held>>

Walk ==
    \/ KmallocSkip
    \/ KmallocSplit
    \/ KmallocWhole
    \/ KmallocFail
    \/ KfreeMerge
    \/ KfreeAdvance
    \/ KfreeDone

Next ==
    \/ \E n \in Requests : KmallocCall(n)
    \/ \E p \in DOMAIN held : KfreeCall(p)
    \/ Walk

(* The walks run on the processor of the caller; nothing blocks them. *)
Spec == Init /\ [][Next]_vars /\ WF_vars(Walk)

-----------------------------------------------------------------------------
Header == [size : Nat, is_free : BOOLEAN, next : Nat \cup {NULL}]

(* The headers, the walk's state and the callers' pointers have their types. *)
TypeOK ==
    /\ Blocks \subseteq Nat
    /\ hdr \in [Blocks -> Header]
    /\ op \in {"idle", "kmalloc", "kfree"}
    /\ request \in Nat
    /\ curr \in Nat \cup {NULL}
    /\ DOMAIN held \subseteq Nat
    /\ held \in [DOMAIN held -> Nat]

(* Each block ends where the next one starts, and the last ends the arena. *)
Chained ==
    /\ 0 \in Blocks
    /\ \A b \in Blocks :
          \/ End(b) = HeapBytes /\ hdr[b].next = NULL
          \/ End(b) < HeapBytes /\ hdr[b].next = End(b) /\ End(b) \in Blocks

Disjoint == \A a, b \in Blocks : a < b => End(a) <= b

Covered == \A x \in 0 .. (HeapBytes - 1) : \E b \in Blocks : b <= x /\ x < End(b)

AlignedBlocks == \A b \in Blocks : b % Align = 0 /\ hdr[b].size % Align = 0

(***************************************************************************)
(* The list is a tiling of the arena after every step of a split or of a   *)
(* merge: no byte is lost between two blocks, none is in two blocks, and   *)
(* every next pointer leads to a live header (heap.c:33-42 and 65-73).     *)
(***************************************************************************)
Tiling == Chained /\ Disjoint /\ Covered /\ AlignedBlocks

(***************************************************************************)
(* The blocks marked in use are exactly those whose payload some caller    *)
(* owns, and each is at least as long as its owner asked for, so neither   *)
(* kzalloc's memset nor a caller that keeps to its size meets a header.    *)
(***************************************************************************)
HeldBlocks ==
    /\ \A p \in DOMAIN held :
          /\ p - Hdr \in Blocks
          /\ ~hdr[p - Hdr].is_free
          /\ held[p] <= hdr[p - Hdr].size
    /\ \A b \in Blocks : ~hdr[b].is_free => b + Hdr \in DOMAIN held

(***************************************************************************)
(* Free neighbours are only ever found ahead of a running kfree's cursor:  *)
(* one pass, which stays put after a merge, is enough to merge them all.   *)
(***************************************************************************)
Coalesced ==
    \A b \in Blocks :
        (op = "kfree" => b < curr) => ~Mergeable(b)

(* A walk stands on a live block, and kmalloc's has passed no block that fits. *)
CursorOK ==
    /\ op = "idle" => curr = NULL
    /\ op = "kmalloc" => curr \in Blocks \cup {NULL}
    /\ op = "kfree" => curr \in Blocks
    /\ op = "kmalloc" =>
          \A b \in Blocks : (curr = NULL \/ b < curr) => ~Fits(b)

(***************************************************************************)
(* When every caller has returned everything, the heap is the one block    *)
(* heap_init made: a life of splits and merges leaks and fragments nothing.*)
(***************************************************************************)
DrainedIsWhole == (op = "idle" /\ DOMAIN held = {}) => Blocks = {0}

(* Every call returns. *)
CallsReturn == (op # "idle") ~> (op = "idle")

-----------------------------------------------------------------------------
(***************************************************************************)
(* The heap implements the abstract allocator: callers' blocks are the     *)
(* owned extents (with their headers as overhead), and kmalloc returns     *)
(* NULL only when no aligned place for the header and the rounded size is  *)
(* left anywhere between the blocks in use.                                *)
(***************************************************************************)
Granted == [p \in DOMAIN held |-> hdr[p - Hdr].size]

Pending == IF op = "kmalloc" THEN request ELSE NULL

A == INSTANCE Allocator WITH
        Extent <- HeapBytes, Reserved <- {}, Overhead <- Hdr, Unit <- Align,
        Sizes <- Requests, NONE <- NULL, owned <- Granted, want <- Pending

ImplementsAllocator == A!Spec
==============================================================================
