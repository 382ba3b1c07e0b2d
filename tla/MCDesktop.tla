------------------------------ MODULE MCDesktop ------------------------------
(* A small screen on which every tile has an inside, a little wider than a *)
(* whole number of glyphs; the digits 1 and 2.                             *)
EXTENDS Desktop

CONSTANTS ONE, TWO

MCWorkspaceOf == [k \in {ONE, TWO} |-> IF k = ONE THEN 1 ELSE 2]
==============================================================================
