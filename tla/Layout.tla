------------------------------- MODULE Layout -------------------------------
(***************************************************************************)
(* The tiling arithmetic of src/kernel/src/compositor/layout.c: where each *)
(* of n windows goes.                                                      *)
(***************************************************************************)
EXTENDS Screen

Gap == 12
MasterPercent == 62

(* What dock and island leave, less a margin. *)
Area == [x |-> 84, y |-> 60, w |-> ScreenW - 84 - 16, h |-> ScreenH - 60 - 16]

Rect(x, y, w, h) == [x |-> x, y |-> y, w |-> w, h |-> h]

Modes == 0 .. 3
MasterStack == 0
Grid == 1
Monocle == 2
Floating == 3

MasterWidth == (Area.w * MasterPercent) \div 100 - Gap \div 2

StackHeight(n) == (Area.h - Gap * (n - 2)) \div (n - 1)

StackTop(n, i) == Area.y + (i - 2) * (StackHeight(n) + Gap)

(* A slip: the last window of the stack does not take up the remainder. *)
StackedShort(n, i) ==
    Rect(Area.x + MasterWidth + Gap, StackTop(n, i), Area.w - MasterWidth - Gap,
         StackHeight(n))

Stacked(n, i) ==
    Rect(Area.x + MasterWidth + Gap, StackTop(n, i), Area.w - MasterWidth - Gap,
         IF i = n THEN Area.y + Area.h - StackTop(n, i) ELSE StackHeight(n))

GridColumns(n) == IF n > 2 THEN 2 ELSE n
GridRows(n) == (n + GridColumns(n) - 1) \div GridColumns(n)
CellWidth(n) == (Area.w - Gap * (GridColumns(n) - 1)) \div GridColumns(n)
CellHeight(n) == (Area.h - Gap * (GridRows(n) - 1)) \div GridRows(n)

Cell(n, i) ==
    Rect(Area.x + ((i - 1) % GridColumns(n)) * (CellWidth(n) + Gap),
         Area.y + ((i - 1) \div GridColumns(n)) * (CellHeight(n) + Gap),
         CellWidth(n), CellHeight(n))

(* layout_apply: the place of the i-th of n windows, unless they float. *)
Tile(mode, n, i) ==
    IF mode = Monocle \/ n = 1 THEN Area
    ELSE IF mode = Grid THEN Cell(n, i)
    ELSE IF i = 1 THEN Rect(Area.x, Area.y, MasterWidth, Area.h)
    ELSE Stacked(n, i)

(* layout_apply moves nobody. *)
LeftAlone(mode, n) == mode = Floating /\ n # 1
==============================================================================
