------------------------------- MODULE UserMode -------------------------------
(***************************************************************************)
(* User mode, put together from the address space (Vmm), the threads       *)
(* (Threads) and the system calls (Syscall), which share the frames of the *)
(* page allocator: syscall_init and user_mode_enter_test of                *)
(* src/kernel/src/sys/syscall.c, after other calls of vmm_map_page,        *)
(* thread_create and sched_yield.  Once in ring 3 nothing leaves it but    *)
(* calls and interrupts.                                                   *)
(***************************************************************************)
EXTENDS Vmm, Threads, Syscall

CONSTANTS
    CODE, STACK,    \* the user's two pages, 0x400000 and 0x7FFFFFFFE000
    Requests,       \* what else may be mapped, all to devices
    Calls,          \* the system calls made: number and descriptor
    UserFlags,      \* the flags ring 3 may set before it calls
    MaxMaps,        \* bound: how often
    MaxThreads      \* bound: how many threads there are

ASSUME UserModeAssumption ==
    /\ CODE \in Virts /\ STACK \in Virts /\ CODE # STACK
    /\ Requests \subseteq Virts \ {CODE, STACK}
    /\ Calls \subseteq Numbers \X Fds
    /\ UserFlags \subseteq Flags \ {"IF"}
    /\ MaxMaps \in Nat /\ MaxThreads \in Nat

VARIABLES
    stage,          \* where syscall_init and user_mode_enter_test are
    owned,          \* the frames of stacks and user pages, as they were allocated
    maps            \* ghost: how many requests there were

vars == <<vmm_vars, thread_vars, syscall_vars, stage, owned, maps>>

Init ==
    /\ VmmInit /\ ThreadsInit /\ SyscallInit
    /\ stage = "kernel" /\ owned = <<>> /\ maps = 0

InKernel == UNCHANGED <<syscall_vars>>

AllocateFor == \E f \in Frames \cup {NullFrame} : Allocate(f) /\ owned' = Append(owned, f)

(* Any kernel code's vmm_map_page. *)
KernelMap ==
    /\ stage = "kernel" /\ maps < MaxMaps
    /\ \E v \in Requests, d \in Devices, user \in BOOLEAN : MapPage(v, d, user)
    /\ maps' = maps + 1
    /\ UNCHANGED <<thread_vars, stage, owned>> /\ InKernel

MapStep == VmmStep /\ UNCHANGED <<thread_vars, stage, owned, maps>> /\ InKernel

(* thread_create, with its stack *)
KernelThread ==
    /\ stage = "kernel" /\ call.at = "idle" /\ Len(next) < MaxThreads
    /\ CreateThread /\ AllocateFor
    /\ UNCHANGED <<tables, call, stage, maps>> /\ InKernel

KernelYield ==
    /\ stage = "kernel" /\ call.at = "idle"
    /\ Yield
    /\ UNCHANGED <<vmm_vars, stage, owned, maps>> /\ InKernel

(* syscall_init: the kernel's stack; then the code page, then the stack's. *)
Acquire(from, to) ==
    /\ stage = from /\ stage' = to /\ call.at = "idle"
    /\ AllocateFor
    /\ UNCHANGED <<tables, call, thread_vars, maps>> /\ InKernel

MapOwned(from, to, virt) ==
    /\ stage = from /\ stage' = to
    /\ MapPage(virt, owned[Len(owned)], TRUE)
    /\ UNCHANGED <<thread_vars, owned, maps>> /\ InKernel

StackForCalls == Acquire("kernel", "code page")
PageForCode == Acquire("code page", "map code")
MapCode == MapOwned("map code", "stack page", CODE)
PageForStack == Acquire("stack page", "map stack")
MapStack == MapOwned("map stack", "iretq", STACK)

EnterUserMode ==
    /\ stage = "iretq" /\ stage' = "user" /\ call.at = "idle"
    /\ Iretq
    /\ UNCHANGED <<vmm_vars, thread_vars, owned, maps>>

UserStep ==
    /\ SyscallStep \/ \E sc \in Calls, flags \in SUBSET UserFlags : Enter(sc[1], sc[2], flags)
    /\ UNCHANGED <<vmm_vars, thread_vars, stage, owned, maps>>

Next ==
    \/ KernelMap \/ MapStep \/ KernelThread \/ KernelYield
    \/ StackForCalls \/ PageForCode \/ MapCode \/ PageForStack \/ MapStack
    \/ EnterUserMode \/ UserStep

Spec == Init /\ [][Next]_vars

-----------------------------------------------------------------------------
TableFrames == {Linked(link) : link \in Links}

(* Every table is linked once, and neither free nor anyone's page. *)
TablesExclusive ==
    /\ \A one, other \in Links : Linked(one) = Linked(other) => one = other
    /\ TableFrames \cap (free \cup ToSet(owned) \cup {Root, NullFrame}) = {}
    /\ IsInjective(owned) /\ ToSet(owned) \cap free = {}

(* Ring 3 has its two pages and what was mapped for it, and no table. *)
UserReach ==
    /\ ring = 3 =>
         /\ Translate(CODE) = [frame |-> owned[Len(owned) - 1], user |-> TRUE]
         /\ Translate(STACK) = [frame |-> owned[Len(owned)], user |-> TRUE]
    /\ \A v \in Virts : Translate(v) # UNMAPPED => Translate(v).frame \notin TableFrames

(***************************************************************************)
(* As long as the page allocator has not returned NULL, which no caller    *)
(* looks at (vmm.c:29, sched.c:29, syscall.c:40, 128, 137), every frame    *)
(* has one use: table, stack or page; and ring 3 reaches its own pages and *)
(* no table, whatever shares the tables above them.                        *)
(***************************************************************************)
FramesExclusive == ~exhausted => TablesExclusive /\ UserReach
==============================================================================
