----------------------------- MODULE AddressSpace -----------------------------
(***************************************************************************)
(* What vmm_map_page promises whoever looks at the address space while it  *)
(* runs, the processor's page walker first of all: between the request and *)
(* its completion one page changes, at one instant, to what was asked for. *)
(* It promises nothing once the page allocator has returned NULL.          *)
(***************************************************************************)
CONSTANTS Virts, UNMAPPED, NONE

VARIABLES
    map,            \* per page: the frame behind it and whether ring 3 may use it
    asked,          \* the request being served, or NONE
    exhausted

Init ==
    /\ map = [v \in Virts |-> UNMAPPED]
    /\ asked = NONE
    /\ exhausted = FALSE

Ask == asked = NONE /\ asked' # NONE /\ UNCHANGED <<map, exhausted>>

Answer ==
    /\ asked # NONE /\ asked' = NONE
    /\ map' = [map EXCEPT ![asked.virt] = [frame |-> asked.frame, user |-> asked.user]]
    /\ UNCHANGED exhausted

Exhaust == exhausted'

Next == Ask \/ Answer \/ Exhaust

Spec == Init /\ [][Next]_<<map, asked, exhausted>>
==============================================================================
