----------------------------- MODULE Interrupts -----------------------------
(***************************************************************************)
(* How an interrupt reaches a driver: the two controllers as               *)
(* src/kernel/src/arch/x86_64/pic.c programs them, the gates of idt.c,     *)
(* which turn interrupts off until iretq, the stubs of isr_asm.S, which    *)
(* save and restore the registers of whatever they interrupt, and          *)
(* isr_handler, which calls the driver and then acknowledges.              *)
(*                                                                         *)
(* A line is in service from its delivery to its acknowledgement.  Between *)
(* the two no other handler runs, but devices may raise lines.  Exceptions *)
(* are left out: an unhandled one stops the machine (idt.c:52-54).         *)
(***************************************************************************)
EXTENDS Integers

CONSTANTS
    Masked,         \* the lines the firmware left masked, which stay so
    NONE            \* no handler is running; not a number

ASSUME InterruptsAssumption == Masked \subseteq 0 .. 15 /\ NONE \notin 0 .. 15

VARIABLES
    irr,            \* the lines raised and not yet delivered
    isr,            \* the lines in service
    handling        \* the line whose handler runs, or NONE

interrupt_vars == <<irr, isr, handling>>

Master == 0 .. 7
Slave == 8 .. 15
Cascade == 2        \* the line of the master the slave is wired to

(* A controller delivers a line only before those it has in service. *)
Precedes(n, controller) == \A m \in isr \cap controller : n < m

Deliverable(n) ==
    /\ n \in irr \ Masked
    /\ IF n \in Master
       THEN Precedes(n, Master)
       ELSE Precedes(n, Slave) /\ Precedes(Cascade, Master) /\ Cascade \notin Masked

(* Where a line stands among the master's: the slave's lines come at its   *)
(* cascade, in their order.                                                *)
Rank(n) == IF n \in Slave THEN 16 * Cascade + n ELSE 16 * n

First(n) == \A m \in 0 .. 15 : Deliverable(m) => Rank(n) <= Rank(m)

(* The gate is entered: interrupts are off, and isr_handler runs. *)
Enter(n) ==
    /\ handling = NONE
    /\ Deliverable(n) /\ First(n)
    /\ handling' = n
    /\ isr' = isr \cup (IF n \in Slave THEN {Cascade, n} ELSE {n})

(* The end-of-interrupt command retires the first line in service. *)
Retire(lines, controller) ==
    lines \ {m \in lines \cap controller : \A k \in lines \cap controller : m <= k}

(* A slip: only the controller the line belongs to is acknowledged. *)
SendEoiOnce(n) == Retire(isr, IF n \in Slave THEN Slave ELSE Master)

(* pic_send_eoi *)
SendEoi(n) ==
    IF n \in Slave THEN Retire(Retire(isr, Slave), Master) ELSE Retire(isr, Master)

(* The rest of isr_handler, and the stub's iretq. *)
Leave ==
    /\ handling # NONE
    /\ isr' = SendEoi(handling)
    /\ handling' = NONE

InterruptsInit == irr = {} /\ isr = {} /\ handling = NONE
==============================================================================
