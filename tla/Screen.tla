------------------------------- MODULE Screen -------------------------------
(* The screen of src/kernel/src/video/fb.c: g_fb.width and g_fb.height.  The *)
(* backbuffer is an array of 1920 * 1080 pixels, and on a screen much       *)
(* smaller than this the layout's unsigned subtractions wrap; the code      *)
(* checks neither.                                                          *)
EXTENDS Integers

CONSTANTS ScreenW, ScreenH

ASSUME ScreenAssumption ==
    /\ ScreenW \in Nat /\ ScreenW >= 176
    /\ ScreenH \in Nat /\ ScreenH >= 160
    /\ ScreenW * ScreenH <= 1920 * 1080
==============================================================================
