----------------------------- MODULE MCPmmInit ------------------------------
(* pmm_init on small memory maps of two or three entries. *)
EXTENDS PmmInit

(***************************************************************************)
(* A first entry of 1 to 4 pages, a hole or none, an entry of up to 7      *)
(* pages, and a last entry that is whole pages or, when it is not usable,  *)
(* may be ragged.  The pages are 2 bytes, so a bitmap is exactly a page    *)
(* for 9 to 16 pages of memory and not a whole number of pages below.      *)
(***************************************************************************)
Shapes ==
    {<<Entry(0, 2 * a, u), Entry(2 * (a + hole), 2 * b, v),
       Entry(2 * (a + hole + b), c, w)>> :
        a \in 1 .. 4, hole \in 0 .. 1, b \in {1, 3, 7}, c \in {2, 3, 6},
        u \in BOOLEAN, v \in BOOLEAN, w \in BOOLEAN}

MCMemMaps == {m \in Shapes : WellFormed(m)}
==============================================================================
