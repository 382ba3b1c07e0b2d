------------------------------- MODULE Windows -------------------------------
(***************************************************************************)
(* Windows and their surfaces, src/kernel/src/compositor/window.c and      *)
(* surface.c, for the windows kmain creates.  Pixels are abstracted to     *)
(* whether the application painted them at the surface's present size.     *)
(* kzalloc may return NULL, for the surface or for its pixels, and the     *)
(* code goes on; the heap itself is in Heap.                               *)
(***************************************************************************)
EXTENDS Layout, Sequences, FiniteSets

CONSTANTS
    NONE,           \* NULL
    MaxFailures     \* bound: how often kzalloc returns NULL

Surfaces == [w : Nat, h : Nat, pixels : BOOLEAN, painted : BOOLEAN]

ASSUME WindowsAssumption == NONE \notin Surfaces /\ MaxFailures \in Nat

VARIABLES
    windows,        \* the windows there are: where, and their surfaces
    blocks,         \* the heap's blocks the windows have taken and not freed
    failures        \* ghost: how often kzalloc returned NULL

window_vars == <<windows, blocks, failures>>

TitlebarHeight == 28
BorderWidth == 1

(* kmain's three windows, in the order of their creation. *)
Requested ==
    <<Rect(828, 305, 420, 235), Rect(828, 60, 420, 230), Rect(88, 60, 720, 480)>>

WindowsInit == windows = <<>> /\ blocks = 0 /\ failures = 0

SurfaceWidth(rect) == rect.w - 2 * BorderWidth

(* A slip: the bar is taken off twice. *)
SurfaceHeightTwice(rect) == rect.h - 2 * (TitlebarHeight + BorderWidth)

SurfaceHeight(rect) == rect.h - TitlebarHeight - BorderWidth

Surface(rect, pixels) ==
    [w |-> SurfaceWidth(rect), h |-> SurfaceHeight(rect),
     pixels |-> pixels, painted |-> FALSE]

(* surface_create: what it returns, the blocks it takes, the calls that fail. *)
Created(rect) ==
    {[surface |-> NONE, blocks |-> 0, failures |-> 1],
     [surface |-> Surface(rect, FALSE), blocks |-> 1, failures |-> 1],
     [surface |-> Surface(rect, TRUE), blocks |-> 2, failures |-> 0]}

BlocksOf(surface) == IF surface = NONE THEN 0 ELSE IF surface.pixels THEN 2 ELSE 1

(* A slip: the pixels stay behind. *)
FreedHeader(surface) == IF surface = NONE THEN 0 ELSE 1

(* surface_destroy *)
Freed(surface) == BlocksOf(surface)

(* The paint callbacks: nothing without pixels. *)
Paint(surface) == IF surface = NONE THEN NONE ELSE [surface EXCEPT !.painted = @ \/ surface.pixels]

Fail(n) == failures + n <= MaxFailures /\ failures' = failures + n

(* window_create returned NULL: the window's own block was refused. *)
CreateNone == Fail(1) /\ UNCHANGED <<windows, blocks>>

(* window_create, and kmain's first call of the paint callback. *)
Create(w) ==
    \E new \in Created(Requested[w]) :
        /\ Fail(new.failures)
        /\ blocks' = blocks + 1 + new.blocks
        /\ windows' = [v \in DOMAIN windows \cup {w} |->
             IF v = w THEN [rect |-> Requested[w], surface |-> Paint(new.surface)]
             ELSE windows[v]]

Stale(surface, rect) ==
    surface = NONE \/ surface.w # SurfaceWidth(rect) \/ surface.h # SurfaceHeight(rect)

(* layout_apply's stores, and window_resize_surface: the old surface goes  *)
(* before the new one is asked for, and the callback follows.              *)
Resize(w, rect) ==
    IF Stale(windows[w].surface, rect)
    THEN \E new \in Created(rect) :
           /\ Fail(new.failures)
           /\ blocks' = blocks - Freed(windows[w].surface) + new.blocks
           /\ windows' = [windows EXCEPT ![w] =
                [rect |-> rect, surface |-> Paint(new.surface)]]
    ELSE windows' = [windows EXCEPT ![w].rect = rect] /\ UNCHANGED <<blocks, failures>>
==============================================================================
