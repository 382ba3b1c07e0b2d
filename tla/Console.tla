------------------------------- MODULE Console -------------------------------
(***************************************************************************)
(* The text console of src/kernel/src/video/fb.c and sys/kprintf.c.  Both  *)
(* the loop and the keyboard's interrupt handler print: the handler's      *)
(* kprintf is one step, the loop's fb_putc several, with the handler       *)
(* between any two.  The cursor's row, which only grows, is left out: a    *)
(* glyph below the screen is clipped (fb.c:35).                            *)
(***************************************************************************)
EXTENDS Screen

VARIABLES
    cursor_x,
    putc            \* fb_putc in the loop: where it is, the column it read,
                    \* and how many characters kprintf has yet to print

console_vars == <<cursor_x, putc>>

GlyphWidth == 8
Left == 88 + 16

(* A slip: the margin is forgotten. *)
FitsScreen(x) == x + GlyphWidth < ScreenW

Fits(x) == x + GlyphWidth < ScreenW - 40

NotPrinting == [at |-> "idle", x |-> Left, left |-> 0]

(* Somewhere in a line: kmain has just printed part of one. *)
ConsoleInit ==
    /\ cursor_x \in {x \in Left .. ScreenW : Fits(x) /\ (x - Left) % GlyphWidth = 0}
    /\ putc = NotPrinting

(* fb_putc, uninterrupted. *)
Wrapped(x) == IF Fits(x) THEN x ELSE Left
After(x) == Wrapped(x) + GlyphWidth

StartPrinting(n) == putc' = [putc EXCEPT !.at = "next", !.left = n] /\ UNCHANGED cursor_x

(* The next character: a newline ... *)
Newline ==
    /\ putc.at = "next" /\ putc.left > 0
    /\ cursor_x' = Left
    /\ putc' = [putc EXCEPT !.left = @ - 1]

(* ... or a glyph: is there room for it in the line? *)
Measure ==
    /\ putc.at = "next" /\ putc.left > 0
    /\ putc' = [putc EXCEPT !.x = cursor_x, !.at = IF Fits(cursor_x) THEN "draw" ELSE "wrap"]
    /\ UNCHANGED cursor_x

Wrap ==
    /\ putc.at = "wrap"
    /\ cursor_x' = Left
    /\ putc' = [putc EXCEPT !.x = Left, !.at = "draw"]

(* Where the glyph may go.  The Makefile's compiler keeps the column in a  *)
(* register; fb.c:95 reads as if the cursor were read again.               *)
Columns == {putc.x, cursor_x}

Draw == putc.at = "draw" /\ putc' = [putc EXCEPT !.at = "advance"] /\ UNCHANGED cursor_x

(* One addition to memory, which no interrupt divides. *)
Advance ==
    /\ putc.at = "advance"
    /\ cursor_x' = cursor_x + GlyphWidth
    /\ putc' = [at |-> "next", x |-> Left, left |-> putc.left - 1]

Printed == putc.at = "next" /\ putc.left = 0

Idle == putc' = NotPrinting
==============================================================================
