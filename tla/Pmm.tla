--------------------------------- MODULE Pmm ---------------------------------
(***************************************************************************)
(* The physical page allocator, src/kernel/src/mm/pmm.c, from the state    *)
(* pmm_init leaves.  The searches of pmm_alloc_page and pmm_alloc_pages    *)
(* are modelled one loop iteration a step.  Pages are numbers; the code's  *)
(* addresses are these times PAGE_SIZE.  A caller gives back what it was   *)
(* given, once.                                                            *)
(***************************************************************************)
EXTENDS MemMap

CONSTANTS
    Map,        \* the bootloader's memory map
    Counts,     \* the run lengths callers ask pmm_alloc_pages for
    NULL        \* the C null pointer

ASSUME PmmAssumption ==
    /\ TotalPages(Map) \in Nat
    /\ Freed(Map) \subseteq Nat
    /\ FreedCount(Map) \in Nat
    /\ FreedCount(Map) >= Cardinality((0 .. (TotalPages(Map) - 1)) \cap Freed(Map))
    /\ Counts \subseteq Nat \ {0}
    /\ NULL \notin Nat

VARIABLES
    s_bitmap,       \* the pages whose bit is set
    s_free_pages,
    op,             \* "idle", "alloc_page" or "alloc_pages"
    i,              \* the page the search is at
    count,          \* how many pages are asked for
    consecutive,    \* how many free pages in a row precede page i
    start_page,     \* the first of them
    held            \* ghost: the first page of each run in use |-> its length

vars == <<s_bitmap, s_free_pages, op, i, count, consecutive, start_page, held>>

s_total_pages == TotalPages(Map)

Pages == 0 .. (s_total_pages - 1)

Run(p, n) == p .. (p + n - 1)

(* The bits of the bitmap's bytes, all set before the usable pages are freed.*)
Bits == 0 .. (8 * BitmapBytes(Map) - 1)

Init ==
    /\ s_bitmap = Bits \ Freed(Map)
    /\ s_free_pages = FreedCount(Map)
    /\ op = "idle"
    /\ i = 0
    /\ count = 0
    /\ consecutive = 0
    /\ start_page = 0
    /\ held = [p \in {} |-> 0]

Search(name, n) ==
    /\ op = "idle"
    /\ op' = name
    /\ i' = 0
    /\ count' = n
    /\ consecutive' = 0
    /\ start_page' = 0
    /\ UNCHANGED <<s_bitmap, s_free_pages, held>>

Return ==
    /\ op' = "idle"
    /\ i' = 0
    /\ count' = 0
    /\ consecutive' = 0
    /\ start_page' = 0

(* A slip: a run is counted off as one page. *)
TakeCountsOne(p, n) ==
    /\ s_bitmap' = s_bitmap \cup Run(p, n)
    /\ s_free_pages' = s_free_pages - 1
    /\ held' = [q \in DOMAIN held \cup {p} |-> IF q = p THEN n ELSE held[q]]

(* Mark a run used, count it off and give it to the caller. *)
Take(p, n) ==
    /\ s_bitmap' = s_bitmap \cup Run(p, n)
    /\ s_free_pages' = s_free_pages - n
    /\ held' = [q \in DOMAIN held \cup {p} |-> IF q = p THEN n ELSE held[q]]

AllocPageCall == Search("alloc_page", 1)

(* A slip: the loop does not advance past a used page. *)
AllocPageSkipStuck ==
    /\ op = "alloc_page" /\ i < s_total_pages
    /\ i \in s_bitmap
    /\ UNCHANGED vars

AllocPageSkip ==
    /\ op = "alloc_page" /\ i < s_total_pages
    /\ i \in s_bitmap
    /\ i' = i + 1
    /\ UNCHANGED <<s_bitmap, s_free_pages, op, count, consecutive, start_page, held>>

AllocPageTake ==
    /\ op = "alloc_page" /\ i < s_total_pages
    /\ i \notin s_bitmap
    /\ Take(i, 1)
    /\ Return

AllocPagesCall(n) == Search("alloc_pages", n)

(* A slip: the free pages before a used one still count. *)
AllocPagesKeepsRun ==
    /\ op = "alloc_pages" /\ i < s_total_pages
    /\ i \in s_bitmap
    /\ i' = i + 1
    /\ UNCHANGED <<s_bitmap, s_free_pages, op, count, consecutive, start_page, held>>

(* A used page ends the run. *)
AllocPagesReset ==
    /\ op = "alloc_pages" /\ i < s_total_pages
    /\ i \in s_bitmap
    /\ consecutive' = 0
    /\ i' = i + 1
    /\ UNCHANGED <<s_bitmap, s_free_pages, op, count, start_page, held>>

RunStart == IF consecutive = 0 THEN i ELSE start_page

AllocPagesExtend ==
    /\ op = "alloc_pages" /\ i < s_total_pages
    /\ i \notin s_bitmap
    /\ consecutive + 1 # count
    /\ start_page' = RunStart
    /\ consecutive' = consecutive + 1
    /\ i' = i + 1
    /\ UNCHANGED <<s_bitmap, s_free_pages, op, count, held>>

AllocPagesTake ==
    /\ op = "alloc_pages" /\ i < s_total_pages
    /\ i \notin s_bitmap
    /\ consecutive + 1 = count
    /\ Take(RunStart, count)
    /\ Return

(* A slip: the last page is never looked at. *)
AllocFailEarly ==
    /\ op # "idle" /\ i >= s_total_pages - 1
    /\ Return
    /\ UNCHANGED <<s_bitmap, s_free_pages, held>>

(* The search of either call ran past the last page: return NULL. *)
AllocFail ==
    /\ op # "idle" /\ i >= s_total_pages
    /\ Return
    /\ UNCHANGED <<s_bitmap, s_free_pages, held>>

(* A slip: pages are cleared but not counted. *)
ClearUncounted(freed) ==
    /\ s_bitmap' = s_bitmap \ freed
    /\ UNCHANGED s_free_pages

Clear(freed) ==
    /\ s_bitmap' = s_bitmap \ freed
    /\ s_free_pages' = s_free_pages + Cardinality(freed)

Forget(p) == held' = [q \in DOMAIN held \ {p} |-> held[q]]

(* pmm_free_page ignores a page past the end and one that is not in use. *)
FreePage(p) ==
    /\ op = "idle"
    /\ held[p] = 1
    /\ Clear({p} \cap Pages \cap s_bitmap)
    /\ Forget(p)
    /\ UNCHANGED <<op, i, count, consecutive, start_page>>

(* A slip: the last page of the run is not given back. *)
FreePagesShort(p) ==
    /\ op = "idle"
    /\ Clear(Run(p, held[p] - 1) \cap s_bitmap)
    /\ Forget(p)
    /\ UNCHANGED <<op, i, count, consecutive, start_page>>

(* pmm_free_pages, which does not look at s_total_pages. *)
FreePages(p) ==
    /\ op = "idle"
    /\ Clear(Run(p, held[p]) \cap s_bitmap)
    /\ Forget(p)
    /\ UNCHANGED <<op, i, count, consecutive, start_page>>

SearchStep ==
    \/ AllocPageSkip
    \/ AllocPageTake
    \/ AllocPagesReset
    \/ AllocPagesExtend
    \/ AllocPagesTake
    \/ AllocFail

Next ==
    \/ AllocPageCall
    \/ \E n \in Counts : AllocPagesCall(n)
    \/ \E p \in DOMAIN held : FreePage(p) \/ FreePages(p)
    \/ SearchStep

(* The searches run on the processor of the caller; nothing blocks them. *)
Spec == Init /\ [][Next]_vars /\ WF_vars(SearchStep)

-----------------------------------------------------------------------------
(***************************************************************************)
(* Pages, counts and cursors are numbers, and runs in use have a length;   *)
(* s_free_pages, which is unsigned, is never counted below zero.           *)
(***************************************************************************)
TypeOK ==
    /\ s_bitmap \subseteq Bits
    /\ s_free_pages \in Nat
    /\ op \in {"idle", "alloc_page", "alloc_pages"}
    /\ i \in Nat /\ count \in Nat /\ consecutive \in Nat /\ start_page \in Nat
    /\ DOMAIN held \subseteq Nat
    /\ held \in [DOMAIN held -> Nat \ {0}]

FreeNow == Pages \ s_bitmap

(***************************************************************************)
(* No two runs in use share a page, every page of a run is marked used,    *)
(* and the pages pmm_init left marked (the reserved ones and the bitmap's) *)
(* are in no run: a set bit belongs to one owner and stays set for it.     *)
(***************************************************************************)
Exclusive ==
    /\ \A p \in DOMAIN held :
          /\ Run(p, held[p]) \subseteq s_bitmap \cap Pages
          /\ Run(p, held[p]) \subseteq Freed(Map)
    /\ \A p, q \in DOMAIN held :
          p # q => Run(p, held[p]) \cap Run(q, held[q]) = {}

(* A page that pmm_init freed is free again unless some run in use has it. *)
NoPageLost ==
    \A x \in Pages \cap Freed(Map) :
        x \in s_bitmap => \E p \in DOMAIN held : x \in Run(p, held[p])

(***************************************************************************)
(* The search has seen exactly `consecutive` free pages since the last     *)
(* used one, and no run of `count` pages that it has passed is free.       *)
(***************************************************************************)
SearchOK ==
    op # "idle" =>
        /\ i <= s_total_pages
        /\ consecutive <= i
        /\ consecutive < count
        /\ op = "alloc_page" => count = 1
        /\ Run(i - consecutive, consecutive) \cap s_bitmap = {}
        /\ consecutive > 0 => start_page = i - consecutive
        /\ i - consecutive > 0 => i - consecutive - 1 \in s_bitmap
        /\ \A p \in Pages : p + count <= i => Run(p, count) \cap s_bitmap # {}

(***************************************************************************)
(* s_free_pages, which only the shell's mem command and the boot messages  *)
(* show, keeps its distance from the number of free pages: each of the     *)
(* calls counts what it marks.  pmm_init sets that distance.               *)
(***************************************************************************)
Drift == FreedCount(Map) - Cardinality(Pages \cap Freed(Map))

CountKeepsUp == s_free_pages = Cardinality(FreeNow) + Drift

(* Every search ends. *)
SearchesEnd == (op # "idle") ~> (op = "idle")

(***************************************************************************)
(* ARCHITECTURE.md:66 says the allocator ignores reserved and ACPI         *)
(* regions: a page it hands out is usable.                                 *)
(***************************************************************************)
OnlyUsableHandedOut ==
    \A p \in DOMAIN held : Run(p, held[p]) \subseteq UsablePages(Map)

-----------------------------------------------------------------------------
(***************************************************************************)
(* The page allocator implements the abstract allocator: a run is granted  *)
(* from pages nobody owns, and NULL is returned only when no run of that   *)
(* many free pages exists.                                                 *)
(***************************************************************************)
Pending == IF op = "idle" THEN NULL ELSE count

A == INSTANCE Allocator WITH
        Extent <- s_total_pages, Reserved <- Pages \ Freed(Map), Overhead <- 0,
        Unit <- 1, Sizes <- Counts \cup {1}, NONE <- NULL,
        owned <- held, want <- Pending

ImplementsAllocator == A!Spec
==============================================================================
