--------------------------------- MODULE Vmm ---------------------------------
(***************************************************************************)
(* vmm_map_page of src/kernel/src/mm/vmm.c, one memory access a step,      *)
(* since the processor walks the tables while they are changed.  A virtual *)
(* address is its four indices.  Frames come from the page allocator (Pmm),*)
(* with whatever was last written in them, lowest first; it returns NULL   *)
(* when it has none, and the code goes on with the frame at address 0.     *)
(* What a request maps to is a frame of its caller's or a device's.        *)
(* Large pages and the writable bit are left out.                          *)
(***************************************************************************)
EXTENDS Integers

CONSTANTS
    Frames,         \* those the allocator owns
    Root,           \* the active PML4
    Devices,        \* frames that are not memory
    Indices,
    UNMAPPED, NONE

NullFrame == 0

(* A device is read as a table only when the allocator has failed. *)
Memory == Frames \cup {Root, NullFrame} \cup Devices

(* The indices into PML4, PDPT, PD and PT, in this order. *)
Virts == Indices \X Indices \X Indices \X Indices

ASSUME VmmAssumption ==
    /\ Frames \subseteq Nat /\ NullFrame \notin Frames
    /\ Root \in Nat \ (Frames \cup {NullFrame})
    /\ Devices \subseteq Nat \ (Frames \cup {Root, NullFrame})
    /\ Indices # {}
    /\ NONE \notin [virt : Virts, frame : Memory, user : BOOLEAN]

VARIABLES
    tables,         \* the memory of the frames, as page tables
    free,           \* the frames the allocator has
    call,           \* vmm_map_page: where it is and its arguments and locals
    exhausted       \* ghost: the allocator has returned NULL

vmm_vars == <<tables, free, call, exhausted>>

Entry(frame, user) == [present |-> TRUE, user |-> user, frame |-> frame]
Absent == [present |-> FALSE, user |-> FALSE, frame |-> NullFrame]
Zeroed == [n \in Indices |-> Absent]

(* What an earlier owner left. *)
Garbage == [n \in Indices |-> Entry(NullFrame, TRUE)]

Idle == [at |-> "idle"]

(* The bootloader's own mappings are under other indices. *)
VmmInit ==
    /\ tables = [f \in Memory |-> IF f = Root THEN Zeroed ELSE Garbage]
    /\ free = Frames
    /\ call = Idle
    /\ exhausted = FALSE

(* pmm_alloc_page, or a run of pages from pmm_alloc_pages taken as one. *)
Allocate(f) ==
    \/ /\ f \in free /\ \A g \in free : f <= g
       /\ free' = free \ {f}
       /\ UNCHANGED exhausted
    \/ free = {} /\ f = NullFrame /\ exhausted' = TRUE /\ UNCHANGED free

MapPage(virt, frame, user) ==
    /\ call.at = "idle"
    /\ call' = [at |-> "walk", virt |-> virt, frame |-> frame, user |-> user,
                level |-> 1, table |-> Root, fresh |-> NullFrame]
    /\ UNCHANGED <<tables, free, exhausted>>

Index == call.virt[call.level]
Slot == tables[call.table][Index]

(* A slip: the tables above a user page keep their flags. *)
Unpromoted == Slot

(* A table above a page for ring 3 is opened to ring 3. *)
Promoted == [Slot EXCEPT !.user = @ \/ call.user]

(* A slip: a frame that became a table stays in the allocator. *)
NewTableKept ==
    /\ call.at = "walk" /\ call.level < 4 /\ ~Slot.present
    /\ \E f \in free : \A g \in free : f <= g /\ call' = [call EXCEPT !.at = "zero", !.fresh = f]
    /\ UNCHANGED <<tables, free, exhausted>>

(* The next table exists ... *)
Descend ==
    /\ call.at = "walk" /\ call.level < 4 /\ Slot.present
    /\ tables' = [tables EXCEPT ![call.table][Index] = Promoted]
    /\ call' = [call EXCEPT !.table = Slot.frame, !.level = @ + 1]
    /\ UNCHANGED <<free, exhausted>>

(* ... or is asked for, ... *)
NewTable ==
    /\ call.at = "walk" /\ call.level < 4 /\ ~Slot.present
    /\ \E f \in Frames \cup {NullFrame} :
         Allocate(f) /\ call' = [call EXCEPT !.at = "zero", !.fresh = f]
    /\ UNCHANGED tables

(* ... cleared, and only then linked. *)
ZeroTable ==
    /\ call.at = "zero"
    /\ tables' = [tables EXCEPT ![call.fresh] = Zeroed]
    /\ call' = [call EXCEPT !.at = "link"]
    /\ UNCHANGED <<free, exhausted>>

LinkTable ==
    /\ call.at = "link"
    /\ tables' = [tables EXCEPT ![call.table][Index] = Entry(call.fresh, call.user)]
    /\ call' = [call EXCEPT !.at = "walk", !.table = call.fresh, !.level = @ + 1,
                            !.fresh = NullFrame]
    /\ UNCHANGED <<free, exhausted>>

MapLeaf ==
    /\ call.at = "walk" /\ call.level = 4
    /\ tables' = [tables EXCEPT ![call.table][Index] = Entry(call.frame, call.user)]
    /\ call' = Idle
    /\ UNCHANGED <<free, exhausted>>

VmmStep == Descend \/ NewTable \/ ZeroTable \/ LinkTable \/ MapLeaf

-----------------------------------------------------------------------------
(* The processor's walk: down while there is a table, and ring 3 may use a *)
(* page if every entry on the way says so.                                 *)
Entry1(v) == tables[Root][v[1]]
Entry2(v) == tables[Entry1(v).frame][v[2]]
Entry3(v) == tables[Entry2(v).frame][v[3]]
Entry4(v) == tables[Entry3(v).frame][v[4]]

Present(v) == Entry1(v).present /\ Entry2(v).present /\ Entry3(v).present /\ Entry4(v).present

Translate(v) ==
    IF Present(v)
    THEN [frame |-> Entry4(v).frame,
          user |-> Entry1(v).user /\ Entry2(v).user /\ Entry3(v).user /\ Entry4(v).user]
    ELSE UNMAPPED

(* The tables below the root, by the entry that links them. *)
Links ==
    {<<Root, v[1]>> : v \in {u \in Virts : Entry1(u).present}}
        \cup {<<Entry1(v).frame, v[2]>> : v \in
               {u \in Virts : Entry1(u).present /\ Entry2(u).present}}
        \cup {<<Entry2(v).frame, v[3]>> : v \in
               {u \in Virts : Entry1(u).present /\ Entry2(u).present /\ Entry3(u).present}}

Linked(link) == tables[link[1]][link[2]].frame

(***************************************************************************)
(* vmm_map_page implements the abstract address space: a walk in the midst *)
(* of it, through tables that are new, half linked or being opened to ring *)
(* 3, finds every page as it was before the call or as it is after         *)
(* (vmm.c:28-57).                                                          *)
(***************************************************************************)
A == INSTANCE AddressSpace WITH
    map <- [v \in Virts |-> Translate(v)],
    asked <- IF call.at = "idle" THEN NONE
             ELSE [virt |-> call.virt, frame |-> call.frame, user |-> call.user]

ImplementsAddressSpace == A!Spec
==============================================================================
