------------------------------ MODULE PmmInit -------------------------------
(***************************************************************************)
(* pmm_init, src/kernel/src/mm/pmm.c:23-64, one loop iteration a step, for *)
(* every map of a set.  The bitmap is the set of pages whose bit is set.   *)
(* Bits past the bitmap's last byte are not part of it: clearing one       *)
(* touches the padding behind it (or the next page, when there is none).   *)
(***************************************************************************)
EXTENDS MemMap

CONSTANT MemMaps    \* the memory maps the machine may boot with

ASSUME PmmInitAssumption == \A m \in MemMaps : WellFormed(m)

VARIABLES
    booted,         \* the map as the bootloader left it
    map,            \* memmap_response, whose entries the code adjusts
    pc,             \* the loop: "highest", "host", "free" or "done"
    i,              \* its index into the entries
    addr,           \* the address of the inner free loop, or NotStarted
    s_highest_addr,
    s_bitmap,       \* the pages whose bit is set; {} until the bitmap exists
    s_free_pages

vars == <<booted, map, pc, i, addr, s_highest_addr, s_bitmap, s_free_pages>>

NotStarted == -1

s_total_pages == s_highest_addr \div PageSize

bitmap_size == (s_total_pages + 7) \div 8

Init ==
    /\ booted \in MemMaps
    /\ map = booted
    /\ pc = "highest"
    /\ i = 1
    /\ addr = NotStarted
    /\ s_highest_addr = 0
    /\ s_bitmap = {}
    /\ s_free_pages = 0

More == i <= Len(map)

(* A slip: reserved entries count as memory too. *)
HighestStepAny ==
    /\ pc = "highest" /\ More
    /\ s_highest_addr' = Top(map[i])
    /\ i' = i + 1
    /\ UNCHANGED <<booted, map, pc, addr, s_bitmap, s_free_pages>>

HighestStep ==
    /\ pc = "highest" /\ More
    /\ s_highest_addr' = IF map[i].usable /\ Top(map[i]) > s_highest_addr
                         THEN Top(map[i]) ELSE s_highest_addr
    /\ i' = i + 1
    /\ UNCHANGED <<booted, map, pc, addr, s_bitmap, s_free_pages>>

HighestDone ==
    /\ pc = "highest" /\ ~More
    /\ pc' = "host"
    /\ i' = 1
    /\ UNCHANGED <<booted, map, addr, s_highest_addr, s_bitmap, s_free_pages>>

CanHost(e) == e.usable /\ e.length >= bitmap_size

HostSkip ==
    /\ pc = "host" /\ More
    /\ ~CanHost(map[i])
    /\ i' = i + 1
    /\ UNCHANGED <<booted, map, pc, addr, s_highest_addr, s_bitmap, s_free_pages>>

(* Two slips: the entry keeps its base; the entry keeps its length. *)
HostTakeKeepsBase ==
    /\ pc = "host" /\ More
    /\ CanHost(map[i])
    /\ s_bitmap' = 0 .. (8 * bitmap_size - 1)
    /\ map' = [map EXCEPT ![i].length = @ - bitmap_size]
    /\ pc' = "free"
    /\ i' = 1
    /\ UNCHANGED <<booted, addr, s_highest_addr, s_free_pages>>

HostTakeKeepsLength ==
    /\ pc = "host" /\ More
    /\ CanHost(map[i])
    /\ s_bitmap' = 0 .. (8 * bitmap_size - 1)
    /\ map' = [map EXCEPT ![i].base = @ + PagesFor(bitmap_size) * PageSize]
    /\ pc' = "free"
    /\ i' = 1
    /\ UNCHANGED <<booted, addr, s_highest_addr, s_free_pages>>

(* Every bit is set, and the entry gives up the bitmap's room. *)
HostTake ==
    /\ pc = "host" /\ More
    /\ CanHost(map[i])
    /\ s_bitmap' = 0 .. (8 * bitmap_size - 1)
    /\ map' = [map EXCEPT ![i].base   = @ + PagesFor(bitmap_size) * PageSize,
                          ![i].length = @ - bitmap_size]
    /\ pc' = "free"
    /\ i' = 1
    /\ UNCHANGED <<booted, addr, s_highest_addr, s_free_pages>>

FreeEntry ==
    /\ pc = "free" /\ More /\ addr = NotStarted
    /\ map[i].usable
    /\ addr' = map[i].base
    /\ UNCHANGED <<booted, map, pc, i, s_highest_addr, s_bitmap, s_free_pages>>

FreePage ==
    /\ pc = "free" /\ More /\ addr # NotStarted
    /\ addr < Top(map[i])
    /\ s_bitmap' = s_bitmap \ {addr \div PageSize}
    /\ s_free_pages' = s_free_pages + 1
    /\ addr' = addr + PageSize
    /\ UNCHANGED <<booted, map, pc, i, s_highest_addr>>

FreeNext ==
    /\ pc = "free" /\ More
    /\ map[i].usable => addr # NotStarted /\ addr >= Top(map[i])
    /\ addr' = NotStarted
    /\ i' = i + 1
    /\ UNCHANGED <<booted, map, pc, s_highest_addr, s_bitmap, s_free_pages>>

FreeDone ==
    /\ pc = "free" /\ ~More
    /\ pc' = "done"
    /\ UNCHANGED <<booted, map, i, addr, s_highest_addr, s_bitmap, s_free_pages>>

Next ==
    \/ HighestStep \/ HighestDone
    \/ HostSkip \/ HostTake
    \/ FreeEntry \/ FreePage \/ FreeNext \/ FreeDone

Spec == Init /\ [][Next]_vars /\ WF_vars(Next)

-----------------------------------------------------------------------------
FreePages == (0 .. (s_total_pages - 1)) \ s_bitmap

(* The loops compute the functions of the map the page allocator starts from.*)
ComputesMap ==
    pc = "done" =>
        /\ s_total_pages = TotalPages(booted)
        /\ map = Adjusted(booted)
        /\ FreePages = Freed(booted) \cap (0 .. (TotalPages(booted) - 1))
        /\ s_free_pages = FreedCount(booted)

(* No page that holds the bitmap is ever marked free in it (pmm.c:47-57). *)
BitmapKept == s_bitmap # {} => BitmapPages(booted) \subseteq s_bitmap

(***************************************************************************)
(* Every usable page but the bitmap's own ends up free, and the excess of  *)
(* what is freed is at most the one page behind the entry that hosts the   *)
(* bitmap (pmm.c:47-48 and 59).                                            *)
(***************************************************************************)
AtMostOnePageTooMany ==
    pc = "done" =>
        LET wanted == UsablePages(booted) \ BitmapPages(booted)
            excess == IF bitmap_size % PageSize = 0 THEN 0 ELSE 1
        IN  /\ wanted \subseteq FreePages
            /\ Cardinality(FreePages \ wanted) <= excess
            /\ s_free_pages = Cardinality(wanted) + excess
==============================================================================
