------------------------------- MODULE Threads -------------------------------
(***************************************************************************)
(* The ring of threads, src/kernel/src/proc/sched.c.  No code of the       *)
(* repository creates a second thread or yields: these are the calls the   *)
(* kernel offers.  sched_yield moves s_current_thread and switches nothing.*)
(***************************************************************************)
EXTENDS Integers, Sequences

VARIABLES
    next,               \* the ring: each thread's successor, by number
    s_current_thread

thread_vars == <<next, s_current_thread>>

s_thread_list == 1

(* sched_init *)
ThreadsInit == next = <<1>> /\ s_current_thread = 1

(* A slip: the current thread, not the list's first, leads to the new one. *)
LinkFromCurrent(t) == next' = Append([next EXCEPT ![s_current_thread] = t], next[s_thread_list])

Link(t) == next' = Append([next EXCEPT ![s_thread_list] = t], next[s_thread_list])

(* thread_create, but for the stack *)
CreateThread == Link(Len(next) + 1) /\ UNCHANGED s_current_thread

(* sched_yield *)
Yield == s_current_thread' = next[s_current_thread] /\ UNCHANGED next

(* The thread whose turn it is after n yields. *)
After(n) ==
    LET turn[m \in 0 .. n] == IF m = 0 THEN s_current_thread ELSE next[turn[m - 1]]
    IN  turn[n]

(***************************************************************************)
(* Whenever threads are created, and whichever is current then, as many    *)
(* yields as there are threads give each its turn (sched.c:33-34, 39-44).  *)
(***************************************************************************)
RingWhole == {After(n) : n \in 1 .. Len(next)} = DOMAIN next
==============================================================================
