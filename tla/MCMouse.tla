------------------------------- MODULE MCMouse -------------------------------
(* A screen of 4 by 3, two moves, one key. *)
EXTENDS Mouse

MCMoves == {[dx |-> 2, dy |-> -1, buttons |-> 1], [dx |-> -3, dy |-> 2, buttons |-> 0]}
==============================================================================
