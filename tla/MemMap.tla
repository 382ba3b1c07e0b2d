------------------------------- MODULE MemMap -------------------------------
(***************************************************************************)
(* What pmm_init (src/kernel/src/mm/pmm.c:23-64) computes from the         *)
(* bootloader's memory map, as functions of the map.  A map is a sequence  *)
(* of entries in bytes, as Limine gives it: the usable ones are page       *)
(* aligned and overlap nothing.                                            *)
(***************************************************************************)
EXTENDS Integers, Sequences, FiniteSets, FiniteSetsExt

CONSTANT PageSize

ASSUME MemMapAssumption == PageSize \in Nat \ {0}

Entry(base, length, usable) ==
    [base |-> base, length |-> length, usable |-> usable]

Usable(map) == {i \in DOMAIN map : map[i].usable}

Top(e) == e.base + e.length

(* The loop of pmm_init that finds s_highest_addr. *)
HighestAddr(map) == Max({Top(map[i]) : i \in Usable(map)} \cup {0})

TotalPages(map) == HighestAddr(map) \div PageSize

BitmapBytes(map) == (TotalPages(map) + 7) \div 8

PagesFor(bytes) == (bytes + PageSize - 1) \div PageSize

(* The first usable entry that is long enough keeps the bitmap. *)
Hosts(map) == {i \in Usable(map) : map[i].length >= BitmapBytes(map)}

Host(map) == Min(Hosts(map))

(***************************************************************************)
(* The map after the bitmap was placed.  The base moves by whole pages but *)
(* the length only shrinks by the bytes of the bitmap.                     *)
(***************************************************************************)
Adjusted(map) ==
    IF Hosts(map) = {} THEN map
    ELSE [map EXCEPT
            ![Host(map)].base   = @ + PagesFor(BitmapBytes(map)) * PageSize,
            ![Host(map)].length = @ - BitmapBytes(map)]

(* addr = base, base + PAGE_SIZE, ... while addr < base + length *)
PagesFreed(e) ==
    (e.base \div PageSize) .. (e.base \div PageSize + PagesFor(e.length) - 1)

(* The bits pmm_init clears, the clearings entry by entry, and how often it *)
(* so increments s_free_pages.                                             *)
Freed(map) == UNION {PagesFreed(Adjusted(map)[i]) : i \in Usable(map)}

FreedBits(map) == UNION {{i} \X PagesFreed(Adjusted(map)[i]) : i \in Usable(map)}

FreedCount(map) == Cardinality(FreedBits(map))

-----------------------------------------------------------------------------
(* What the map itself says, to compare with. *)
PagesOf(e) == (e.base \div PageSize) .. (Top(e) \div PageSize - 1)

UsablePages(map) == UNION {PagesOf(map[i]) : i \in Usable(map)}

BitmapPages(map) ==
    LET first == map[Host(map)].base \div PageSize
    IN  first .. (first + PagesFor(BitmapBytes(map)) - 1)

(* A map of the kind Limine promises, with a place for the bitmap. *)
WellFormed(map) ==
    /\ map \in Seq([base : Nat, length : Nat \ {0}, usable : BOOLEAN])
    /\ \A i \in Usable(map) :
          map[i].base % PageSize = 0 /\ map[i].length % PageSize = 0
    /\ \A i, j \in DOMAIN map : i < j => Top(map[i]) <= map[j].base
    /\ Hosts(map) # {}
==============================================================================
