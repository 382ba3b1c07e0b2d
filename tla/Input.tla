-------------------------------- MODULE Input --------------------------------
(***************************************************************************)
(* A key's way from the keyboard to the shell: the interrupt handler of    *)
(* src/kernel/src/drivers/ps2_kbd.c stores the character in a slot of one, *)
(* and the loop at the end of kmain (src/kernel/src/boot/entry.c) takes it *)
(* out, keeps what is a hotkey of the desktop, gives the rest to the shell *)
(* and halts until the next interrupt.                                     *)
(*                                                                         *)
(* The handlers run with interrupts off, so each is one step; the loop is  *)
(* interrupted anywhere, and keyboard_get_last_char reads and clears the   *)
(* slot in two steps.  Scancodes that have no character (releases, shifts) *)
(* change nothing and are left out.  What the desktop does with a hotkey   *)
(* changes nothing here.                                                   *)
(***************************************************************************)
EXTENDS Shell, Functions

CONSTANTS
    SPACE, TAB,
    Workspaces,     \* the digits that switch workspaces, '1' to '4'
    MaxKeys         \* bound: how many keys are struck

ASSUME InputAssumption ==
    /\ SPACE \in Printable
    /\ TAB \in Others
    /\ Workspaces \subseteq Printable
    /\ MaxKeys \in Nat

VARIABLES
    typed,          \* ghost: the characters struck so far
    s_last_char,    \* the number of the keystroke whose character it holds, or 0
    pc,             \* where the loop is
    c,              \* the number of the keystroke in the loop's hands, or 0
    handled         \* ghost: the keystrokes acted upon, in order

vars == <<shell_vars, typed, s_last_char, pc, c, handled>>

Init ==
    /\ ShellInit
    /\ typed = <<>>
    /\ s_last_char = 0
    /\ pc = "poll"
    /\ c = 0
    /\ handled = <<>>

(* Any interrupt ends a hlt. *)
Woken == IF pc = "asleep" THEN "poll" ELSE pc

(* keyboard_callback: the slot is overwritten, full or not. *)
KeyIrq(k) ==
    /\ Len(typed) < MaxKeys
    /\ typed' = Append(typed, k)
    /\ s_last_char' = Len(typed')
    /\ pc' = Woken
    /\ UNCHANGED <<shell_vars, c, handled>>

(* A slip: the timer's interrupts never come. *)
NoTick == FALSE /\ UNCHANGED vars

(* The timer, a thousand times a second; the mouse's interrupts do the same.*)
Tick ==
    /\ pc = "asleep"
    /\ pc' = Woken
    /\ UNCHANGED <<shell_vars, typed, s_last_char, c, handled>>

(* keyboard_get_last_char reads the slot ... *)
Poll ==
    /\ pc = "poll"
    /\ c' = s_last_char
    /\ pc' = "clear"
    /\ UNCHANGED <<shell_vars, typed, s_last_char, handled>>

AfterPoll == IF c = 0 THEN "halt" ELSE "dispatch"

(* A slip: what was read stays in the slot. *)
NoClear ==
    /\ pc = "clear"
    /\ pc' = AfterPoll
    /\ UNCHANGED <<shell_vars, typed, s_last_char, c, handled>>

(* ... and clears it, whatever is in it by now. *)
Clear ==
    /\ pc = "clear"
    /\ s_last_char' = 0
    /\ pc' = AfterPoll
    /\ UNCHANGED <<shell_vars, typed, c, handled>>

Hotkeys == Workspaces \cup {SPACE, TAB}

Acted ==
    /\ handled' = Append(handled, c)
    /\ c' = 0
    /\ pc' = "halt"
    /\ UNCHANGED <<typed, s_last_char>>

ToDesktop ==
    /\ pc = "dispatch"
    /\ typed[c] \in Hotkeys
    /\ Acted
    /\ UNCHANGED shell_vars

ToShell ==
    /\ pc = "dispatch"
    /\ typed[c] \notin Hotkeys
    /\ HandleChar(typed[c])
    /\ Acted

(* A key struck after the poll and before the hlt waits for the next Tick. *)
Halt ==
    /\ pc = "halt"
    /\ pc' = "asleep"
    /\ UNCHANGED <<shell_vars, typed, s_last_char, c, handled>>

Loop == Poll \/ Clear \/ ToDesktop \/ ToShell \/ Halt

Next ==
    \/ \E k \in Keys : KeyIrq(k)
    \/ Tick
    \/ Loop

(***************************************************************************)
(* The loop is the only thread, and the timer runs from before sti on; the *)
(* user need not strike another key.                                       *)
(***************************************************************************)
Spec == Init /\ [][Next]_vars /\ WF_vars(Loop) /\ WF_vars(Tick)

-----------------------------------------------------------------------------
(* The line stays within the buffer, and keystroke numbers are keystrokes. *)
TypeOK ==
    /\ ShellTypeOK
    /\ typed \in Seq(Keys)
    /\ s_last_char \in 0 .. Len(typed)
    /\ pc \in {"poll", "clear", "dispatch", "halt", "asleep"}
    /\ c \in 0 .. Len(typed)
    /\ handled \in Seq(1 .. Len(typed))

(***************************************************************************)
(* A keystroke is acted upon at most once and never after a later one,     *)
(* however the interrupts fall between the reading and the clearing of     *)
(* s_last_char (ps2_kbd.c:34-35).  It may be acted upon not at all.        *)
(***************************************************************************)
HandledInOrder ==
    \A m, n \in DOMAIN handled : m < n => handled[m] < handled[n]

(***************************************************************************)
(* A keystroke that finds the loop anywhere but between the reading and    *)
(* the clearing, even one that comes between the poll and the hlt, is      *)
(* acted upon unless another keystroke follows.                            *)
(***************************************************************************)
KeyServed ==
    \A n \in 1 .. MaxKeys :
        (s_last_char = n /\ pc # "clear") ~>
            (Len(typed) > n \/ n \in Range(handled))

(***************************************************************************)
(* shell.c:33 and 38 offer "cat" and "echo", whose argument follows a      *)
(* space: a word, a space, a word and Enter run a command with an argument *)
(* when the loop has acted on all four.                                    *)
(***************************************************************************)
ArgumentsReachCommands ==
    \A command, argument \in Printable \ Hotkeys :
        (typed = <<command, SPACE, argument, ENTER>> /\ handled = <<1, 2, 3, 4>>)
            => ran = <<<<command, SPACE, argument>>>>
==============================================================================
