----------------------------- MODULE DesktopProofs -----------------------------
(***************************************************************************)
(* For every size of screen, any number of keystrokes and of failed        *)
(* allocations: where windows are put, which surfaces they have, and how   *)
(* far to the right the two printers' glyphs go.                           *)
(***************************************************************************)
EXTENDS Desktop, SequenceTheorems, TLAPS

-----------------------------------------------------------------------------
(* The tiling, with the divisions done. *)
Half(n) == (n - Gap) \div 2

W == ScreenW - 100
H == ScreenH - 76
MW == (W * 62) \div 100 - 6

LEMMA Sizes ==
    /\ W \in Int /\ H \in Int /\ W >= 76 /\ H >= 84 /\ MW \in Int
    /\ Half(W) \in Int /\ Half(H) \in Int
    /\ MW >= 41 /\ W - MW - 12 >= 2
    /\ 2 * Half(W) + 12 <= W /\ Half(W) >= 32
    /\ 2 * Half(H) + 12 <= H /\ 2 * Half(H) + 13 >= H /\ Half(H) >= 36
    /\ Area = Rect(84, 60, W, H)
<1>1. ScreenW \in Int /\ ScreenW >= 176 /\ ScreenH \in Int /\ ScreenH >= 160
  BY ScreenAssumption
<1>2. W \in Int /\ H \in Int /\ W >= 76 /\ H >= 84
  BY <1>1 DEF W, H
<1>3. MW \in Int /\ 100 * (MW + 6) <= 62 * W /\ 100 * (MW + 6) + 99 >= 62 * W
  BY <1>2 DEF MW
<1>4. MW >= 41 /\ W - MW - 12 >= 2
  BY <1>2, <1>3
<1>5. /\ Half(W) \in Int /\ 2 * Half(W) + 12 <= W /\ Half(W) >= 32
      /\ Half(H) \in Int /\ 2 * Half(H) + 12 <= H /\ 2 * Half(H) + 13 >= H /\ Half(H) >= 36
  BY <1>2 DEF Half, Gap
<1>6. Area = Rect(84, 60, W, H)
  BY <1>1 DEF Area, Rect, W, H
<1> QED
  BY <1>2, <1>3, <1>4, <1>5, <1>6

Beside == 84 + MW + 12

LEMMA MasterTiles ==
    /\ Tile(MasterStack, 2, 1) = Rect(84, 60, MW, H) /\ Tile(MasterStack, 3, 1) = Rect(84, 60, MW, H)
    /\ Tile(MasterStack, 2, 2) = Rect(Beside, 60, W - MW - 12, H)
    /\ Tile(MasterStack, 3, 2) = Rect(Beside, 60, W - MW - 12, Half(H))
    /\ Tile(MasterStack, 3, 3) = Rect(Beside, 60 + Half(H) + 12, W - MW - 12, H - Half(H) - 12)
<1>1. /\ W \in Int /\ H \in Int /\ MW \in Int /\ Half(H) \in Int
      /\ Area.x = 84 /\ Area.y = 60 /\ Area.w = W /\ Area.h = H
  BY Sizes DEF Rect
<1>2. MasterWidth = MW
  BY <1>1 DEF MasterWidth, MasterPercent, Gap, MW
<1>3. StackHeight(2) = H /\ StackHeight(3) = Half(H)
  BY <1>1 DEF StackHeight, Gap, Half
<1>4. /\ StackTop(2, 2) = 60 /\ StackTop(3, 2) = 60 /\ StackTop(3, 3) = 60 + Half(H) + 12
  BY <1>1, <1>3 DEF StackTop, Gap
<1>5. /\ Stacked(2, 2) = Rect(Beside, 60, W - MW - 12, H)
      /\ Stacked(3, 2) = Rect(Beside, 60, W - MW - 12, Half(H))
      /\ Stacked(3, 3) = Rect(Beside, 60 + Half(H) + 12, W - MW - 12, H - Half(H) - 12)
  BY <1>1, <1>2, <1>3, <1>4 DEF Stacked, Gap, Beside
<1> QED
  BY <1>1, <1>2, <1>5 DEF Tile, MasterStack, Grid, Monocle

LEMMA GridTiles ==
    /\ Tile(Grid, 2, 1) = Rect(84, 60, Half(W), H)
    /\ Tile(Grid, 2, 2) = Rect(84 + Half(W) + 12, 60, Half(W), H)
    /\ Tile(Grid, 3, 1) = Rect(84, 60, Half(W), Half(H))
    /\ Tile(Grid, 3, 2) = Rect(84 + Half(W) + 12, 60, Half(W), Half(H))
    /\ Tile(Grid, 3, 3) = Rect(84, 60 + Half(H) + 12, Half(W), Half(H))
<1>1. /\ W \in Int /\ H \in Int /\ Half(W) \in Int /\ Half(H) \in Int
      /\ Area.x = 84 /\ Area.y = 60 /\ Area.w = W /\ Area.h = H
  BY Sizes DEF Rect
<1>2. GridColumns(2) = 2 /\ GridColumns(3) = 2 /\ GridRows(2) = 1 /\ GridRows(3) = 2
  BY DEF GridColumns, GridRows
<1>3. CellWidth(2) = Half(W) /\ CellWidth(3) = Half(W) /\ CellHeight(2) = H /\ CellHeight(3) = Half(H)
  BY <1>1, <1>2 DEF CellWidth, CellHeight, Gap, Half
<1>4. /\ (1 - 1) % 2 = 0 /\ (2 - 1) % 2 = 1 /\ (3 - 1) % 2 = 0
      /\ (1 - 1) \div 2 = 0 /\ (2 - 1) \div 2 = 0 /\ (3 - 1) \div 2 = 1
  OBVIOUS
<1>5. /\ Cell(2, 1) = Rect(84, 60, Half(W), H)
      /\ Cell(2, 2) = Rect(84 + Half(W) + 12, 60, Half(W), H)
      /\ Cell(3, 1) = Rect(84, 60, Half(W), Half(H))
      /\ Cell(3, 2) = Rect(84 + Half(W) + 12, 60, Half(W), Half(H))
      /\ Cell(3, 3) = Rect(84, 60 + Half(H) + 12, Half(W), Half(H))
  BY <1>1, <1>2, <1>3, <1>4 DEF Cell, Gap
<1> QED
  BY <1>5 DEF Tile, Monocle, Grid

LEMMA AreaTiles ==
    /\ \A m \in Modes : \A k : Tile(m, 1, k) = Area
    /\ \A n, k : Tile(Monocle, n, k) = Area
  BY DEF Tile

(* A place with room for a window's surface. *)
Rects == [x : Nat, y : Nat, w : Nat, h : Nat]
Roomy(r) == r \in Rects /\ r.w >= 2 /\ r.h >= 29

LEMMA RectIs ==
    ASSUME NEW x \in Int, NEW y \in Int, NEW w \in Int, NEW h \in Int
    PROVE  /\ Rect(x, y, w, h).x = x /\ Rect(x, y, w, h).y = y
           /\ Rect(x, y, w, h).w = w /\ Rect(x, y, w, h).h = h
           /\ x >= 0 /\ y >= 0 /\ w >= 2 /\ h >= 29 => Roomy(Rect(x, y, w, h))
  BY DEF Rect, Roomy, Rects

Good(r) == Roomy(r) /\ Within(r, Area)

LEMMA RectGood ==
    ASSUME NEW x \in Int, NEW y \in Int, NEW w \in Int, NEW h \in Int,
           x >= 84, y >= 60, w >= 2, h >= 29, x + w <= 84 + W, y + h <= 60 + H
    PROVE  Good(Rect(x, y, w, h))
<1>1. /\ Rect(x, y, w, h).x = x /\ Rect(x, y, w, h).y = y
      /\ Rect(x, y, w, h).w = w /\ Rect(x, y, w, h).h = h
      /\ Roomy(Rect(x, y, w, h))
  BY RectIs
<1>2. Area.x = 84 /\ Area.y = 60 /\ Area.w = W /\ Area.h = H
  BY Sizes DEF Rect
<1>3. Within(Rect(x, y, w, h), Area)
  BY <1>1, <1>2 DEF Within, Right, Bottom
<1> QED
  BY <1>1, <1>3 DEF Good

LEMMA TilesGood ==
    ASSUME NEW m \in Modes, NEW n \in 1 .. 3, NEW k \in 1 .. n, ~LeftAlone(m, n)
    PROVE  Good(Tile(m, n, k))
<1>1. Good(Area)
  BY Sizes, RectGood
<1>2. CASE n = 1 \/ m = Monocle
  BY <1>1, <1>2, AreaTiles
<1>3. CASE m = MasterStack /\ n # 1
  <2>1. Good(Rect(84, 60, MW, H))
    BY Sizes, RectGood, SMTT(30)
  <2>2. Good(Rect(Beside, 60, W - MW - 12, H)) /\ Good(Rect(Beside, 60, W - MW - 12, Half(H)))
    BY Sizes, RectGood, SMTT(30) DEF Beside
  <2>3. Good(Rect(Beside, 60 + Half(H) + 12, W - MW - 12, H - Half(H) - 12))
    BY Sizes, RectGood, SMTT(30) DEF Beside
  <2>4. (n = 2 /\ (k = 1 \/ k = 2)) \/ (n = 3 /\ (k = 1 \/ k = 2 \/ k = 3))
    BY <1>3
  <2> QED
    BY <1>3, <2>1, <2>2, <2>3, <2>4, MasterTiles, Zenon
<1>4. CASE m = Grid /\ n # 1
  <2>1. Good(Rect(84, 60, Half(W), H)) /\ Good(Rect(84 + Half(W) + 12, 60, Half(W), H))
    BY Sizes, RectGood
  <2>2. /\ Good(Rect(84, 60, Half(W), Half(H)))
        /\ Good(Rect(84 + Half(W) + 12, 60, Half(W), Half(H)))
        /\ Good(Rect(84, 60 + Half(H) + 12, Half(W), Half(H)))
    BY Sizes, RectGood, SMTT(30)
  <2>3. (n = 2 /\ (k = 1 \/ k = 2)) \/ (n = 3 /\ (k = 1 \/ k = 2 \/ k = 3))
    BY <1>4
  <2> QED
    BY <1>4, <2>1, <2>2, <2>3, GridTiles, ZenonT(40)
<1> QED
  BY <1>2, <1>3, <1>4 DEF Modes, MasterStack, Grid, Monocle, Floating, LeftAlone

Clear2(r, s) == Apart(r, s) /\ Apart(s, r)

LEMMA TilesApart ==
    ASSUME NEW m \in {MasterStack, Grid}, NEW n \in 1 .. 3, NEW j \in 1 .. n, NEW k \in 1 .. n,
           j # k
    PROVE  Apart(Tile(m, n, j), Tile(m, n, k))
<1>1. ASSUME NEW r, NEW s, Clear2(r, s) PROVE Apart(r, s) /\ Apart(s, r)
  BY <1>1 DEF Clear2
<1>2. /\ n = 2 => (j = 1 /\ k = 2) \/ (j = 2 /\ k = 1)
      /\ n = 3 => \/ (j = 1 /\ k = 2) \/ (j = 2 /\ k = 1)
                  \/ (j = 1 /\ k = 3) \/ (j = 3 /\ k = 1)
                  \/ (j = 2 /\ k = 3) \/ (j = 3 /\ k = 2)
      /\ n = 2 \/ n = 3
  OBVIOUS
<1>3. CASE m = MasterStack
  <2>5. /\ W \in Int /\ H \in Int /\ MW \in Int /\ Half(H) \in Int /\ Beside \in Int
        /\ W - MW - 12 \in Int /\ H - Half(H) - 12 \in Int /\ 60 + Half(H) + 12 \in Int
        /\ 84 + MW + 12 <= Beside /\ 60 + Half(H) + 12 <= 60 + Half(H) + 12
    BY Sizes DEF Beside
  <2>0. Clear2(Rect(84, 60, MW, H), Rect(Beside, 60, W - MW - 12, H))
    BY <2>5 DEF Clear2, Apart, Right, Bottom, Gap, Rect
  <2>1. Clear2(Rect(84, 60, MW, H), Rect(Beside, 60, W - MW - 12, Half(H)))
    BY <2>5 DEF Clear2, Apart, Right, Bottom, Gap, Rect
  <2>2. Clear2(Rect(84, 60, MW, H), Rect(Beside, 60 + Half(H) + 12, W - MW - 12, H - Half(H) - 12))
    BY <2>5 DEF Clear2, Apart, Right, Bottom, Gap, Rect
  <2>3. Clear2(Rect(Beside, 60, W - MW - 12, Half(H)),
               Rect(Beside, 60 + Half(H) + 12, W - MW - 12, H - Half(H) - 12))
    BY <2>5 DEF Clear2, Apart, Right, Bottom, Gap, Rect
  <2>4. /\ Clear2(Tile(m, 2, 1), Tile(m, 2, 2)) /\ Clear2(Tile(m, 3, 1), Tile(m, 3, 2))
        /\ Clear2(Tile(m, 3, 1), Tile(m, 3, 3)) /\ Clear2(Tile(m, 3, 2), Tile(m, 3, 3))
    BY <1>3, <2>0, <2>1, <2>2, <2>3, MasterTiles, Zenon
  <2> QED
    BY <1>1, <1>2, <2>4, Zenon
<1>4. CASE m = Grid
  <2>5. /\ W \in Int /\ H \in Int /\ Half(W) \in Int /\ Half(H) \in Int
        /\ 84 + Half(W) + 12 \in Int /\ 60 + Half(H) + 12 \in Int
        /\ 84 + Half(W) + 12 <= 84 + Half(W) + 12 /\ 60 + Half(H) + 12 <= 60 + Half(H) + 12
    BY Sizes
  <2>0. Clear2(Rect(84, 60, Half(W), H), Rect(84 + Half(W) + 12, 60, Half(W), H))
    BY <2>5 DEF Clear2, Apart, Right, Bottom, Gap, Rect
  <2>1. Clear2(Rect(84, 60, Half(W), Half(H)), Rect(84 + Half(W) + 12, 60, Half(W), Half(H)))
    BY <2>5 DEF Clear2, Apart, Right, Bottom, Gap, Rect
  <2>2. Clear2(Rect(84, 60, Half(W), Half(H)), Rect(84, 60 + Half(H) + 12, Half(W), Half(H)))
    BY <2>5 DEF Clear2, Apart, Right, Bottom, Gap, Rect
  <2>3. Clear2(Rect(84 + Half(W) + 12, 60, Half(W), Half(H)),
                  Rect(84, 60 + Half(H) + 12, Half(W), Half(H)))
    BY <2>5 DEF Clear2, Apart, Right, Bottom, Gap, Rect
  <2>4. /\ Clear2(Tile(m, 2, 1), Tile(m, 2, 2)) /\ Clear2(Tile(m, 3, 1), Tile(m, 3, 2))
        /\ Clear2(Tile(m, 3, 1), Tile(m, 3, 3)) /\ Clear2(Tile(m, 3, 2), Tile(m, 3, 3))
    BY <1>4, <2>0, <2>1, <2>2, <2>3, GridTiles, Zenon
  <2> QED
    BY <1>1, <1>2, <2>4, Zenon
<1> QED
  BY <1>3, <1>4

LEMMA TilesReach ==
    ASSUME NEW n \in 1 .. 3
    PROVE  /\ Bottom(Tile(MasterStack, n, 1)) = Bottom(Area)
           /\ Bottom(Tile(MasterStack, n, n)) = Bottom(Area)
           /\ Right(Tile(MasterStack, n, n)) = Right(Area)
<1>1. CASE n = 1
  <2>1. Tile(MasterStack, 1, 1) = Area
    BY AreaTiles DEF Modes, MasterStack
  <2> QED
    BY <1>1, <2>1
<1>2. Bottom(Area) = 60 + H /\ Right(Area) = 84 + W
  BY Sizes DEF Bottom, Right, Rect
<1>3. Bottom(Rect(84, 60, MW, H)) = 60 + H
  BY Sizes DEF Bottom, Rect
<1>4. CASE n = 2
  <2>1. /\ Bottom(Rect(Beside, 60, W - MW - 12, H)) = 60 + H
        /\ Right(Rect(Beside, 60, W - MW - 12, H)) = 84 + W
    BY Sizes DEF Bottom, Right, Beside, Rect
  <2> QED
    BY <1>2, <1>3, <1>4, <2>1, MasterTiles
<1>5. CASE n = 3
  <2>1. /\ Bottom(Rect(Beside, 60 + Half(H) + 12, W - MW - 12, H - Half(H) - 12)) = 60 + H
        /\ Right(Rect(Beside, 60 + Half(H) + 12, W - MW - 12, H - Half(H) - 12)) = 84 + W
    BY Sizes DEF Bottom, Right, Beside, Rect
  <2> QED
    BY <1>2, <1>3, <1>5, <2>1, MasterTiles
<1> QED
  BY <1>1, <1>4, <1>5

-----------------------------------------------------------------------------
(* Windows and their surfaces. *)
Fitting(surface, rect) ==
    surface = NONE \/ (~Stale(surface, rect) /\ surface.painted = surface.pixels)

WindowSet == [rect : Rects, surface : Surfaces \cup {NONE}]

WindowsOK ==
    /\ DOMAIN windows \subseteq 1 .. 3
    /\ windows \in [DOMAIN windows -> WindowSet]
    /\ \A w \in DOMAIN windows : Fitting(windows[w].surface, windows[w].rect)
    /\ blocks = Held(1) + Held(2) + Held(3)
    /\ failures \in 0 .. MaxFailures

(* What surface_create returns and the callback paints. *)
LEMMA NewSurface ==
    ASSUME NEW rect, Roomy(rect), NEW new \in Created(rect)
    PROVE  /\ Paint(new.surface) \in Surfaces \cup {NONE} /\ Fitting(Paint(new.surface), rect)
           /\ BlocksOf(Paint(new.surface)) = new.blocks
           /\ new.blocks \in Nat /\ new.failures \in Nat
<1>1. SurfaceWidth(rect) \in Nat /\ SurfaceHeight(rect) \in Nat
  BY DEF Roomy, Rects, SurfaceWidth, SurfaceHeight, TitlebarHeight, BorderWidth
<1>2. ASSUME NEW pixels \in BOOLEAN
      PROVE  /\ Paint(Surface(rect, pixels)) \in Surfaces
             /\ Paint(Surface(rect, pixels)).w = SurfaceWidth(rect)
             /\ Paint(Surface(rect, pixels)).h = SurfaceHeight(rect)
             /\ Paint(Surface(rect, pixels)).pixels = pixels
             /\ Paint(Surface(rect, pixels)).painted = pixels
             /\ Surface(rect, pixels) # NONE
  <2>1. Surface(rect, pixels) \in Surfaces
    BY <1>1 DEF Surface, Surfaces
  <2>2. Surface(rect, pixels) # NONE
    BY <2>1, WindowsAssumption
  <2> QED
    BY <1>1, <2>1, <2>2 DEF Paint, Surface, Surfaces
<1>3. CASE new = [surface |-> NONE, blocks |-> 0, failures |-> 1]
  BY <1>3 DEF Paint, Fitting, BlocksOf
<1>4. ASSUME NEW pixels \in BOOLEAN, new.surface = Surface(rect, pixels)
      PROVE  /\ Paint(new.surface) \in Surfaces \cup {NONE} /\ Fitting(Paint(new.surface), rect)
             /\ BlocksOf(Paint(new.surface)) = IF pixels THEN 2 ELSE 1
  <2> DEFINE s == Paint(Surface(rect, pixels))
  <2>1. /\ s \in Surfaces /\ s.w = SurfaceWidth(rect) /\ s.h = SurfaceHeight(rect)
        /\ s.pixels = pixels /\ s.painted = pixels /\ s # NONE
    BY <1>2, WindowsAssumption
  <2> HIDE DEF s
  <2>2. Fitting(s, rect) /\ BlocksOf(s) = IF pixels THEN 2 ELSE 1
    BY <2>1 DEF Fitting, Stale, BlocksOf
  <2> QED
    BY <1>4, <2>1, <2>2 DEF s
<1>5. CASE new = [surface |-> Surface(rect, FALSE), blocks |-> 1, failures |-> 1]
  BY <1>4, <1>5
<1>6. CASE new = [surface |-> Surface(rect, TRUE), blocks |-> 2, failures |-> 0]
  BY <1>4, <1>6
<1> QED
  BY <1>3, <1>5, <1>6 DEF Created

(* One window comes to be as it is, and the blocks are counted. *)
LEMMA OneChanged ==
    ASSUME WindowsOK, NEW w \in 1 .. 3, NEW rect, Roomy(rect),
           NEW surface \in Surfaces \cup {NONE}, Fitting(surface, rect),
           windows' \in [DOMAIN windows \cup {w} -> WindowSet],
           windows'[w].rect = rect, windows'[w].surface = surface,
           \A v \in DOMAIN windows : v # w => windows'[v] = windows[v],
           blocks' = blocks - Held(w) + 1 + BlocksOf(surface),
           failures' \in 0 .. MaxFailures
    PROVE  WindowsOK'
<1>1. DOMAIN windows' = DOMAIN windows \cup {w} /\ DOMAIN windows' \subseteq 1 .. 3
  BY DEF WindowsOK
<1>2. windows' \in [DOMAIN windows' -> WindowSet]
  BY <1>1
<1>3. ASSUME NEW v \in DOMAIN windows' PROVE Fitting(windows'[v].surface, windows'[v].rect)
  BY <1>1, Zenon DEF WindowsOK
<1>4. \A v : BlocksOf(v) \in Nat
  BY DEF BlocksOf
<1>5. ASSUME NEW v PROVE Held(v) \in Nat /\ Held(v)' = IF v = w THEN 1 + BlocksOf(surface) ELSE Held(v)
  <2>1. CASE v = w
    BY <1>1, <1>4, <2>1 DEF Held
  <2>2. CASE v # w
    <3>1. v \in DOMAIN windows' <=> v \in DOMAIN windows
      BY <1>1, <2>2
    <3>2. v \in DOMAIN windows => windows'[v] = windows[v]
      BY <2>2
    <3> QED
      BY <1>4, <2>2, <3>1, <3>2 DEF Held
  <2> QED
    BY <2>1, <2>2
<1>6. blocks' = Held(1)' + Held(2)' + Held(3)'
  <2>1. blocks = Held(1) + Held(2) + Held(3)
    BY DEF WindowsOK
  <2>2. BlocksOf(surface) \in Nat /\ Held(1) \in Nat /\ Held(2) \in Nat /\ Held(3) \in Nat
    BY <1>4, <1>5
  <2>3. CASE w = 1
    BY <1>5, <2>1, <2>2, <2>3
  <2>4. CASE w = 2
    BY <1>5, <2>1, <2>2, <2>4
  <2>5. CASE w = 3
    BY <1>5, <2>1, <2>2, <2>5
  <2> QED
    BY <2>3, <2>4, <2>5
<1> QED
  BY <1>1, <1>2, <1>3, <1>6, Zenon DEF WindowsOK

LEMMA FailOK ==
    ASSUME WindowsOK, NEW n \in Nat, Fail(n)
    PROVE  failures' \in 0 .. MaxFailures
  BY WindowsAssumption DEF WindowsOK, Fail

LEMMA RequestedRoomy == \A w \in 1 .. 3 : Roomy(Requested[w])
  BY DEF Requested, Rect, Roomy, Rects

LEMMA CreateOK ==
    ASSUME WindowsOK, NEW w \in 1 .. 3, w \notin DOMAIN windows, Create(w)
    PROVE  WindowsOK' /\ DOMAIN windows' = DOMAIN windows \cup {w}
<1> DEFINE rect == Requested[w]
<1>0. Roomy(rect)
  BY RequestedRoomy
<1>1. PICK new \in Created(rect) :
        /\ Fail(new.failures)
        /\ blocks' = blocks + 1 + new.blocks
        /\ windows' = [v \in DOMAIN windows \cup {w} |->
             IF v = w THEN [rect |-> rect, surface |-> Paint(new.surface)] ELSE windows[v]]
  BY Zenon DEF Create
<1> DEFINE surface == Paint(new.surface)
<1> HIDE DEF rect
<1>2. /\ surface \in Surfaces \cup {NONE} /\ Fitting(surface, rect)
      /\ BlocksOf(surface) = new.blocks /\ new.blocks \in Nat /\ new.failures \in Nat
  BY <1>0, NewSurface
<1>3. failures' \in 0 .. MaxFailures
  BY <1>1, <1>2, FailOK
<1> HIDE DEF surface
<1>4. DOMAIN windows' = DOMAIN windows \cup {w}
  BY <1>1
<1>5. [rect |-> rect, surface |-> surface] \in WindowSet
  BY <1>0, <1>2 DEF WindowSet, Roomy
<1>6. windows'[w] = [rect |-> rect, surface |-> surface]
      /\ \A v \in DOMAIN windows : v # w => windows'[v] = windows[v]
  BY <1>1, Zenon DEF surface
<1>7. windows' \in [DOMAIN windows \cup {w} -> WindowSet]
  <2>1. \A v \in DOMAIN windows : windows[v] \in WindowSet
    BY Zenon DEF WindowsOK
  <2> QED
    BY <1>1, <1>5, <2>1, Zenon DEF surface
<1>8. windows'[w].rect = rect /\ windows'[w].surface = surface
  BY <1>6
<1>9. blocks' = blocks - Held(w) + 1 + BlocksOf(surface)
  <2>1. Held(w) = 0
    BY DEF Held
  <2>2. blocks \in Int
    <3>1. \A v : Held(v) \in Nat
      BY DEF Held, BlocksOf
    <3> QED
      BY <3>1 DEF WindowsOK
  <2> QED
    BY <1>1, <1>2, <2>1, <2>2
<1>10. WindowsOK'
  BY <1>0, <1>2, <1>3, <1>6, <1>7, <1>8, <1>9, OneChanged
<1> QED
  BY <1>4, <1>10

LEMMA ResizeOK ==
    ASSUME WindowsOK, NEW w \in DOMAIN windows, NEW rect, Roomy(rect), Resize(w, rect)
    PROVE  /\ WindowsOK' /\ DOMAIN windows' = DOMAIN windows
           /\ windows'[w].rect = rect
           /\ \A v \in DOMAIN windows : v # w => windows'[v] = windows[v]
<1> DEFINE old == windows[w].surface
<1>1. /\ w \in 1 .. 3 /\ windows[w] \in WindowSet /\ rect \in Rects
      /\ DOMAIN windows \cup {w} = DOMAIN windows
      /\ windows \in [DOMAIN windows -> WindowSet]
      /\ Held(w) = 1 + BlocksOf(old) /\ BlocksOf(old) \in Nat
  BY DEF WindowsOK, Held, BlocksOf, Roomy
<1>2. blocks \in Int /\ failures \in 0 .. MaxFailures
  <2>1. \A v : Held(v) \in Nat
    BY DEF Held, BlocksOf
  <2> QED
    BY <2>1 DEF WindowsOK
<1>3. CASE Stale(old, rect)
  <2>1. PICK new \in Created(rect) :
          /\ Fail(new.failures)
          /\ blocks' = blocks - Freed(old) + new.blocks
          /\ windows' = [windows EXCEPT ![w] = [rect |-> rect, surface |-> Paint(new.surface)]]
    BY <1>3, Zenon DEF Resize
  <2> DEFINE surface == Paint(new.surface)
  <2>2. /\ surface \in Surfaces \cup {NONE} /\ Fitting(surface, rect)
        /\ BlocksOf(surface) = new.blocks /\ new.blocks \in Nat /\ new.failures \in Nat
    BY NewSurface
  <2>3. failures' \in 0 .. MaxFailures
    BY <2>1, <2>2, FailOK
  <2> HIDE DEF surface
  <2>4. [rect |-> rect, surface |-> surface] \in WindowSet
    BY <1>1, <2>2 DEF WindowSet
  <2>5. /\ windows' \in [DOMAIN windows \cup {w} -> WindowSet]
        /\ DOMAIN windows' = DOMAIN windows
        /\ windows'[w] = [rect |-> rect, surface |-> surface]
        /\ \A v \in DOMAIN windows : v # w => windows'[v] = windows[v]
    BY <1>1, <2>1, <2>4, Zenon DEF surface
  <2>6. windows'[w].rect = rect /\ windows'[w].surface = surface
    BY <2>5
  <2>7. blocks' = blocks - Held(w) + 1 + BlocksOf(surface)
    <3>1. blocks' = blocks - BlocksOf(old) + BlocksOf(surface)
      BY <2>1, <2>2, Zenon DEF Freed
    <3> HIDE DEF old
    <3> QED
      BY <1>1, <1>2, <2>2, <3>1
  <2>8. WindowsOK'
    BY <1>1, <2>2, <2>3, <2>5, <2>6, <2>7, OneChanged
  <2> QED
    BY <2>5, <2>6, <2>8
<1>4. CASE ~Stale(old, rect)
  <2>1. windows' = [windows EXCEPT ![w].rect = rect] /\ blocks' = blocks /\ failures' = failures
    BY <1>4, Zenon DEF Resize
  <2>2. [windows[w] EXCEPT !.rect = rect] \in WindowSet
        /\ [windows[w] EXCEPT !.rect = rect].rect = rect
        /\ [windows[w] EXCEPT !.rect = rect].surface = old
        /\ old \in Surfaces \cup {NONE}
    BY <1>1 DEF WindowSet
  <2>3. /\ windows' \in [DOMAIN windows \cup {w} -> WindowSet]
        /\ DOMAIN windows' = DOMAIN windows
        /\ windows'[w] = [windows[w] EXCEPT !.rect = rect]
        /\ \A v \in DOMAIN windows : v # w => windows'[v] = windows[v]
    BY <1>1, <2>1, <2>2, Zenon
  <2>4. windows'[w].rect = rect /\ windows'[w].surface = old
    BY <2>2, <2>3, Zenon
  <2>5. Fitting(old, rect)
    <3>1. old = NONE \/ old.painted = old.pixels
      BY Zenon DEF WindowsOK, Fitting
    <3> QED
      BY <1>4, <3>1, Zenon DEF Fitting
  <2>6. blocks' = blocks - Held(w) + 1 + BlocksOf(old)
    <3> HIDE DEF old
    <3> QED
      BY <1>1, <1>2, <2>1
  <2>7. WindowsOK'
    <3> HIDE DEF old
    <3> QED
      BY <1>1, <1>2, <2>1, <2>2, <2>3, <2>4, <2>5, <2>6, OneChanged
  <2> QED
    BY <2>3, <2>4, <2>7
<1> QED
  BY <1>3, <1>4

-----------------------------------------------------------------------------
(* The two printers. *)
ConsoleOK ==
    /\ putc \in [at : {"idle", "next", "wrap", "draw", "advance"}, x : Nat, left : 0 .. MaxText]
    /\ putc.at \in {"wrap", "draw", "advance"} => putc.left > 0
    /\ cursor_x \in Nat /\ cursor_x < ScreenW - 32
    /\ putc.at \in {"draw", "advance"} => cursor_x < ScreenW - 40
    /\ putc.at = "draw" => putc.x < ScreenW - 48 \/ putc.x = Left

LEMMA ConsoleOKGlyphs == ConsoleOK => GlyphsOnScreen
  BY ScreenAssumption DEF ConsoleOK, GlyphsOnScreen, Columns, Left, GlyphWidth

LEMMA ConsoleOKInit == ConsoleInit => ConsoleOK
  BY ScreenAssumption, DesktopAssumption
  DEF ConsoleInit, ConsoleOK, Fits, Left, GlyphWidth, NotPrinting

LEMMA KeyEcho ==
    ASSUME ConsoleOK, NEW k, cursor_x' \in Echoed(k), UNCHANGED putc
    PROVE  ConsoleOK'
<1>1. After(cursor_x) \in Nat /\ After(cursor_x) < ScreenW - 32 /\ After(cursor_x) < ScreenW - 40
  BY ScreenAssumption DEF ConsoleOK, After, Wrapped, Fits, Left, GlyphWidth
<1>2. Left \in Nat /\ Left < ScreenW - 32 /\ Left < ScreenW - 40
  BY ScreenAssumption DEF Left
<1>3. cursor_x' \in Nat /\ cursor_x' < ScreenW - 32 /\ cursor_x' < ScreenW - 40
  <2>1. cursor_x' = After(cursor_x) \/ cursor_x' = Left
    BY DEF Echoed
  <2> QED
    BY <1>1, <1>2, <2>1
<1> QED
  BY <1>3 DEF ConsoleOK

LEMMA PutcOK ==
    ASSUME ConsoleOK, Newline \/ Measure \/ Wrap \/ Draw \/ Advance
    PROVE  ConsoleOK'
<1>0. ScreenW \in Nat /\ ScreenW >= 176 /\ Left = 104 /\ GlyphWidth = 8 /\ MaxText \in Nat
  BY ScreenAssumption, DesktopAssumption DEF Left, GlyphWidth
<1>1. CASE Newline
  BY <1>0, <1>1 DEF ConsoleOK, Newline
<1>2. CASE Measure
  <2>1. /\ putc.left > 0 /\ cursor_x' = cursor_x
        /\ putc' = [putc EXCEPT !.x = cursor_x, !.at = IF Fits(cursor_x) THEN "draw" ELSE "wrap"]
    BY <1>2 DEF Measure
  <2>2. /\ putc' \in [at : {"idle", "next", "wrap", "draw", "advance"}, x : Nat, left : 0 .. MaxText]
        /\ putc'.x = cursor_x /\ putc'.left = putc.left
        /\ putc'.at = IF Fits(cursor_x) THEN "draw" ELSE "wrap"
    BY <2>1 DEF ConsoleOK
  <2>3. Fits(cursor_x) => cursor_x < ScreenW - 48
    BY <1>0 DEF ConsoleOK, Fits
  <2> QED
    BY <1>0, <2>1, <2>2, <2>3 DEF ConsoleOK
<1>3. CASE Wrap
  <2>1. /\ putc.at = "wrap" /\ cursor_x' = Left
        /\ putc' = [putc EXCEPT !.x = Left, !.at = "draw"]
    BY <1>3 DEF Wrap
  <2>2. /\ putc' \in [at : {"idle", "next", "wrap", "draw", "advance"}, x : Nat, left : 0 .. MaxText]
        /\ putc'.x = Left /\ putc'.left = putc.left /\ putc'.at = "draw"
    BY <1>0, <2>1 DEF ConsoleOK
  <2>3. putc.left > 0
    BY <2>1 DEF ConsoleOK
  <2> QED
    BY <1>0, <2>1, <2>2, <2>3 DEF ConsoleOK
<1>4. CASE Draw
  BY <1>0, <1>4 DEF ConsoleOK, Draw
<1>5. CASE Advance
  BY <1>0, <1>5 DEF ConsoleOK, Advance
<1> QED
  BY <1>1, <1>2, <1>3, <1>4, <1>5

LEMMA ConsoleNext == ConsoleOK /\ [Next]_vars => ConsoleOK'
<1> SUFFICES ASSUME ConsoleOK, [Next]_vars PROVE ConsoleOK'
  OBVIOUS
<1>1. ASSUME NEW k \in Keys, KeyIrq(k) PROVE ConsoleOK'
  BY <1>1, KeyEcho DEF KeyIrq
<1>2. ASSUME NEW n \in 1 .. MaxText, StartPrinting(n) PROVE ConsoleOK'
  <2>1. n \in 0 .. MaxText
    BY DesktopAssumption
  <2>2. putc' = [putc EXCEPT !.at = "next", !.left = n] /\ cursor_x' = cursor_x
    BY <1>2 DEF StartPrinting
  <2>3. /\ putc' \in [at : {"idle", "next", "wrap", "draw", "advance"}, x : Nat,
                        left : 0 .. MaxText]
        /\ putc'.at = "next"
    BY <2>1, <2>2 DEF ConsoleOK
  <2> QED
    BY <2>2, <2>3 DEF ConsoleOK
<1>3. CASE Putc
  BY <1>3, PutcOK DEF Putc
<1>4. CASE Printing
  <2>1. putc' = NotPrinting /\ (cursor_x' = Left \/ cursor_x' = cursor_x)
    BY <1>4 DEF Printing, Idle
  <2> QED
    BY <2>1, ScreenAssumption, DesktopAssumption DEF ConsoleOK, NotPrinting, Left
<1>5. ASSUME UNCHANGED console_vars PROVE ConsoleOK'
  BY <1>5 DEF ConsoleOK, console_vars
<1>6. CASE Tick \/ CreateWindow \/ RenderFrame \/ UNCHANGED vars
  BY <1>5, <1>6 DEF Tick, CreateWindow, RenderFrame, Clear, LayoutWindow, LayoutDone, DrawWindow,
                    DrawFocused, DrawShell, DrawPointer, Swap, Rendering, vars
<1>7. CASE Poll \/ Take \/ SetWorkspace \/ CycleMode \/ CycleFocus \/ Halt
  BY <1>5, <1>7 DEF Poll, Take, SetWorkspace, CycleMode, CycleFocus, Halt
<1>8. CASE Banner \/ ToShell
  <2>1. UNCHANGED console_vars \/ \E n \in 1 .. MaxText : StartPrinting(n)
    BY <1>8, Zenon DEF Banner, ToShell, PrintSome
  <2> QED
    BY <1>2, <1>5, <2>1
<1> QED
  BY <1>1, <1>3, <1>4, <1>6, <1>7, <1>8, Zenon DEF Next, Kmain, Loop

(* No glyph the loop draws reaches past the screen, however often the      *)
(* keyboard's handler moves the cursor meanwhile, and whichever column the *)
(* compiler has the glyph drawn at (fb.c:85-97, ps2_kbd.c:24).             *)
THEOREM GlyphsOnScreenCorrect == Spec => []GlyphsOnScreen
<1>1. Init => ConsoleOK
  BY ConsoleOKInit DEF Init
<1> QED
  BY <1>1, ConsoleNext, ConsoleOKGlyphs, PTL DEF Spec

-----------------------------------------------------------------------------
(* The list of windows, what is focused, and how far a walk of it may be. *)
ListOK ==
    /\ i \in 1 .. 4 /\ active_workspace \in 1 .. 4 /\ mode \in Modes
    /\ window_list \in Seq(DOMAIN windows) /\ Len(window_list) <= 3
    /\ \A m, n \in 1 .. Len(window_list) : window_list[m] = window_list[n] => m = n
    /\ focused_window \in ToSet(window_list) \cup {NONE}
    /\ pc = "create" => Len(window_list) < i /\ \A w \in DOMAIN windows : w < i

LEMMA ListKept ==
    ASSUME ListOK, UNCHANGED window_list, DOMAIN windows' = DOMAIN windows,
           focused_window' \in ToSet(window_list) \cup {NONE},
           active_workspace' \in 1 .. 4, mode' \in Modes, i' \in 1 .. 4,
           pc' = "create" => pc = "create" /\ i' >= i
    PROVE  ListOK'
<1>1. window_list' = window_list
  OBVIOUS
<1>2. ASSUME pc' = "create" PROVE Len(window_list) < i' /\ \A w \in DOMAIN windows' : w < i'
  <2>1. i \in Int /\ i' \in Int /\ i' >= i /\ Len(window_list) \in Int /\ Len(window_list) < i
    BY <1>2, LenProperties DEF ListOK
  <2>2. \A w \in DOMAIN windows : w < i
    BY <1>2 DEF ListOK
  <2>3. CASE i' = i
    BY <2>1, <2>2, <2>3
  <2>4. CASE i' # i
    BY <1>2, <2>1, <2>2, <2>4
  <2> QED
    BY <2>3, <2>4
<1> QED
  BY <1>1, <1>2, Zenon DEF ListOK

Early == {"create", "banner", "clear", "layout"}

PlacesOK ==
    /\ pc = "layout" /\ ~LeftAlone(mode, Len(Shown)) =>
         \A n \in 1 .. Len(Shown) : n < i => Place(n) = Tile(mode, Len(Shown), n)
    /\ LaidOut /\ ~LeftAlone(mode, Len(Shown)) =>
         \A n \in 1 .. Len(Shown) : Place(n) = Tile(mode, Len(Shown), n)
    /\ pc \in {"create", "banner"} => mode = MasterStack /\ active_workspace = 1
    /\ \/ pc \in Early /\ mode = MasterStack /\ active_workspace = 1
       \/ \A n \in 1 .. Len(window_list) : Within(windows[window_list[n]].rect, Area)

LEMMA ShownFacts ==
    ASSUME ListOK
    PROVE  /\ Shown \in Seq(DOMAIN windows) /\ Len(Shown) \in 0 .. 3 /\ DOMAIN Shown = 1 .. Len(Shown)
           /\ \A m, n \in 1 .. Len(Shown) : Shown[m] = Shown[n] => m = n
           /\ \A n \in 1 .. Len(Shown) : Shown[n] \in DOMAIN windows
<1>1. window_list \in Seq(DOMAIN windows) /\ Len(window_list) <= 3
      /\ \A m, n \in 1 .. Len(window_list) : window_list[m] = window_list[n] => m = n
  BY DEF ListOK
<1>2. CASE active_workspace = 1
  <2>1. Shown = window_list
    BY <1>2 DEF Shown
  <2>2. Len(Shown) \in Nat /\ DOMAIN Shown = 1 .. Len(Shown)
        /\ \A n \in 1 .. Len(Shown) : Shown[n] \in DOMAIN windows
    BY <1>1, <2>1, LenProperties
  <2> QED
    BY <1>1, <2>1, <2>2
<1>3. CASE active_workspace # 1
  <2>1. Shown = <<>>
    BY <1>3 DEF Shown
  <2> QED
    BY <2>1
<1> QED
  BY <1>2, <1>3

(* Nothing moves and the frame goes on, or is done with, or begins. *)
Going ==
    /\ UNCHANGED <<windows, window_list, active_workspace, mode>>
    /\ (pc' = pc /\ i' = i) \/ pc' # "layout" \/ (pc' = "layout" /\ i' = 1)
    /\ LaidOut' => LaidOut
    /\ pc' \in {"create", "banner"} => pc \in {"create", "banner"}
    /\ pc \in Early => pc' \in Early

LEMMA PlacesKept == ASSUME ListOK, PlacesOK, Going PROVE PlacesOK'
<1>1. /\ windows' = windows /\ window_list' = window_list
      /\ active_workspace' = active_workspace /\ mode' = mode
  BY DEF Going
<1>2. Shown' = Shown /\ \A n : Place(n)' = Place(n)
  BY <1>1 DEF Shown, Place
<1>3. Len(Shown) \in 0 .. 3
  BY ShownFacts
<1>4. ASSUME pc' = "layout", ~LeftAlone(mode, Len(Shown)), NEW n \in 1 .. Len(Shown), n < i'
      PROVE  Place(n) = Tile(mode, Len(Shown), n)
  <2>1. pc' = pc /\ i' = i
    BY <1>3, <1>4 DEF Going
  <2> QED
    BY <1>4, <2>1, Zenon DEF PlacesOK
<1>5. ASSUME LaidOut', ~LeftAlone(mode, Len(Shown)), NEW n \in 1 .. Len(Shown)
      PROVE  Place(n) = Tile(mode, Len(Shown), n)
  BY <1>5, Zenon DEF PlacesOK, Going
<1>6. pc' \in {"create", "banner"} => mode = MasterStack /\ active_workspace = 1
  BY Zenon DEF PlacesOK, Going
<1>7. \/ pc' \in Early /\ mode = MasterStack /\ active_workspace = 1
      \/ \A n \in 1 .. Len(window_list) : Within(windows[window_list[n]].rect, Area)
  BY Zenon DEF PlacesOK, Going
<1> QED
  BY <1>1, <1>2, <1>4, <1>5, <1>6, <1>7, Zenon DEF PlacesOK

LEMMA LayoutDoneOK == ASSUME ListOK, PlacesOK, LayoutDone PROVE PlacesOK'
<1>1. /\ windows' = windows /\ window_list' = window_list
      /\ active_workspace' = active_workspace /\ mode' = mode
      /\ pc = "layout" /\ pc' = "windows"
      /\ i > Len(Shown) \/ LeftAlone(mode, Len(Shown))
  BY DEF LayoutDone, At, Rendering, window_vars, desktop_vars
<1>2. Shown' = Shown /\ \A n : Place(n)' = Place(n)
  BY <1>1 DEF Shown, Place
<1>3. Len(Shown) \in 0 .. 3 /\ i \in Int
  BY ShownFacts DEF ListOK
<1>4. ASSUME ~LeftAlone(mode, Len(Shown)), NEW n \in 1 .. Len(Shown)
      PROVE  Place(n) = Tile(mode, Len(Shown), n)
  <2>1. n < i
    BY <1>1, <1>3, <1>4
  <2> QED
    BY <1>1, <1>4, <2>1, Zenon DEF PlacesOK
<1>5. ASSUME mode = MasterStack, active_workspace = 1, NEW n \in 1 .. Len(window_list)
      PROVE  Within(windows[window_list[n]].rect, Area)
  <2>1. Shown = window_list /\ Place(n) = windows[window_list[n]].rect
    BY <1>5 DEF Shown, Place
  <2>2. Len(Shown) \in 1 .. 3 /\ n \in 1 .. Len(Shown)
    BY <1>3, <1>5, <2>1
  <2>3. ~LeftAlone(mode, Len(Shown)) /\ mode \in Modes
    BY <1>5 DEF LeftAlone, MasterStack, Floating, Modes
  <2>4. Place(n) = Tile(mode, Len(Shown), n)
    BY <1>4, <2>2, <2>3
  <2>5. Good(Tile(mode, Len(Shown), n))
    <3> DEFINE l == Len(Shown)
    <3>1. l \in 1 .. 3 /\ n \in 1 .. l /\ ~LeftAlone(mode, l) /\ mode \in Modes
      BY <2>2, <2>3
    <3> HIDE DEF l
    <3>2. Good(Tile(mode, l, n))
      BY <3>1, TilesGood
    <3> QED
      BY <3>2 DEF l
  <2> QED
    BY <2>1, <2>4, <2>5 DEF Good
<1>6. \A n \in 1 .. Len(window_list) : Within(windows[window_list[n]].rect, Area)
  BY <1>5, Zenon DEF PlacesOK
<1>7. pc' # "layout" /\ pc' \notin {"create", "banner"}
  BY <1>1
<1> QED
  BY <1>1, <1>2, <1>4, <1>6, <1>7, Zenon DEF PlacesOK

LEMMA LayoutWindowOK ==
    ASSUME WindowsOK, ListOK, PlacesOK, LayoutWindow
    PROVE  WindowsOK' /\ ListOK' /\ PlacesOK'
<1> DEFINE l == Len(Shown)  w == Shown[i]  rect == Tile(mode, l, i)
<1>1. /\ window_list' = window_list /\ focused_window' = focused_window
      /\ active_workspace' = active_workspace /\ mode' = mode
      /\ pc = "layout" /\ pc' = "layout" /\ i' = i + 1 /\ i <= l /\ ~LeftAlone(mode, l)
      /\ Resize(w, rect)
  BY DEF LayoutWindow, Rendering, desktop_vars
<1>2. /\ l \in 0 .. 3 /\ i \in 1 .. 4 /\ mode \in Modes
      /\ \A m, n \in 1 .. l : Shown[m] = Shown[n] => m = n
      /\ \A n \in 1 .. l : Shown[n] \in DOMAIN windows
  BY ShownFacts DEF ListOK
<1>3. l \in 1 .. 3 /\ i \in 1 .. l /\ w \in DOMAIN windows
  <2>1. l \in 1 .. 3 /\ i \in 1 .. l
    BY <1>1, <1>2
  <2> QED
    BY <1>2, <2>1, Zenon
<1>4. Good(rect)
  <2> HIDE DEF l
  <2> QED
    BY <1>1, <1>2, <1>3, TilesGood
<1>5. /\ WindowsOK' /\ DOMAIN windows' = DOMAIN windows
      /\ windows'[w].rect = rect
      /\ \A v \in DOMAIN windows : v # w => windows'[v] = windows[v]
  <2> HIDE DEF l, w, rect
  <2> QED
    BY <1>1, <1>3, <1>4, ResizeOK DEF Good
<1>6. ListOK'
  <2>1. i' \in 1 .. 4
    BY <1>1, <1>3
  <2>2. /\ focused_window' \in ToSet(window_list) \cup {NONE}
        /\ active_workspace' \in 1 .. 4 /\ mode' \in Modes
    BY <1>1, Zenon DEF ListOK
  <2>3. pc' # "create"
    BY <1>1
  <2> QED
    BY <1>1, <1>5, <2>1, <2>2, <2>3, ListKept
<1>7. Shown' = Shown
  BY <1>1 DEF Shown
<1>8. ASSUME NEW n \in 1 .. l, n < i' PROVE Place(n)' = Tile(mode, l, n)
  <2>1. CASE n = i
    BY <1>5, <1>7, <2>1 DEF Place
  <2>2. CASE n # i
    <3>1. n < i
      BY <1>1, <1>3, <1>8, <2>2
    <3>2. Shown[n] # w /\ Shown[n] \in DOMAIN windows
      BY <1>2, <1>3, <2>2, Zenon
    <3>3. windows'[Shown[n]] = windows[Shown[n]]
      BY <1>5, <3>2, Zenon
    <3>4. Place(n) = Tile(mode, l, n)
      BY <1>1, <3>1, Zenon DEF PlacesOK
    <3> QED
      BY <1>7, <3>3, <3>4, Zenon DEF Place
  <2> QED
    BY <2>1, <2>2
<1>9. \/ pc \in Early /\ mode = MasterStack /\ active_workspace = 1
      \/ \A n \in 1 .. Len(window_list) : Within(windows'[window_list[n]].rect, Area)
  <2>1. CASE pc \in Early /\ mode = MasterStack /\ active_workspace = 1
    BY <2>1
  <2>2. ASSUME \A n \in 1 .. Len(window_list) : Within(windows[window_list[n]].rect, Area),
               NEW n \in 1 .. Len(window_list)
        PROVE  Within(windows'[window_list[n]].rect, Area)
    <3>1. CASE window_list[n] = w
      BY <1>4, <1>5, <3>1, Zenon DEF Good
    <3>2. CASE window_list[n] # w
      <4>1. window_list[n] \in DOMAIN windows
        BY LenProperties DEF ListOK
      <4> QED
        BY <1>5, <2>2, <3>2, <4>1, Zenon
    <3> QED
      BY <3>1, <3>2
  <2> QED
    BY <2>1, <2>2, Zenon DEF PlacesOK
<1>10. pc' \notin {"create", "banner"} /\ ~LaidOut' /\ pc' = pc
  BY <1>1 DEF LaidOut
<1>11. PlacesOK'
  <2> HIDE DEF w, rect
  <2> QED
    BY <1>1, <1>7, <1>8, <1>9, <1>10, Zenon DEF PlacesOK
<1> QED
  BY <1>5, <1>6, <1>11

(* A window is created, at the head of the list, or is not. *)
LEMMA InFront ==
    ASSUME NEW S, NEW s \in Seq(S), NEW e \in S
    PROVE  /\ <<e>> \o s \in Seq(S) /\ Len(<<e>> \o s) = Len(s) + 1 /\ Len(s) \in Nat
           /\ (<<e>> \o s)[1] = e
           /\ \A n \in 1 .. Len(s) : (<<e>> \o s)[n + 1] = s[n]
<1>1. <<e>> \in Seq(S) /\ Len(<<e>>) = 1 /\ <<e>>[1] = e /\ Len(s) \in Nat
  BY LenProperties
<1> QED
  BY <1>1, ConcatProperties

LEMMA CreateWindowOK ==
    ASSUME WindowsOK, ListOK, PlacesOK, CreateWindow
    PROVE  WindowsOK' /\ ListOK' /\ PlacesOK'
<1>1. /\ pc = "create" /\ pc' = "create" /\ i' = i + 1
      /\ active_workspace' = active_workspace /\ mode' = mode
      /\ i <= Len(Requested)
      /\ \/ CreateNone /\ window_list' = window_list /\ focused_window' = focused_window
         \/ Create(i) /\ window_list' = <<i>> \o window_list /\ focused_window' = i
  BY DEF CreateWindow
<1>2. i \in 1 .. 3 /\ i' \in 1 .. 4
  <2>1. Len(Requested) = 3
    BY DEF Requested
  <2> QED
    BY <1>1, <2>1 DEF ListOK
<1>3. mode = MasterStack /\ active_workspace = 1
  BY <1>1 DEF PlacesOK
<1>4. PlacesOK'
  <2>1. pc' # "layout" /\ ~LaidOut' /\ pc' \in Early
    BY <1>1 DEF LaidOut, Early
  <2> QED
    BY <1>1, <1>3, <2>1, Zenon DEF PlacesOK
<1>5. CASE CreateNone /\ window_list' = window_list /\ focused_window' = focused_window
  <2>1. windows' = windows /\ blocks' = blocks /\ Fail(1)
    BY <1>5 DEF CreateNone
  <2>2. failures' \in 0 .. MaxFailures
    BY <2>1, FailOK
  <2>3. WindowsOK'
    BY <2>1, <2>2, Zenon DEF WindowsOK, Held
  <2>4. ListOK'
    <3>1. i' >= i
      BY <1>1, <1>2
    <3>2. /\ focused_window' \in ToSet(window_list) \cup {NONE}
          /\ active_workspace' \in 1 .. 4 /\ mode' \in Modes
      BY <1>1, <1>5, Zenon DEF ListOK
    <3> QED
      BY <1>1, <1>2, <1>5, <2>1, <3>1, <3>2, ListKept
  <2> QED
    BY <1>4, <2>3, <2>4
<1>6. CASE Create(i) /\ window_list' = <<i>> \o window_list /\ focused_window' = i
  <2>1. /\ window_list \in Seq(DOMAIN windows) /\ Len(window_list) < i
        /\ \A w \in DOMAIN windows : w < i
        /\ \A m, n \in 1 .. Len(window_list) : window_list[m] = window_list[n] => m = n
    BY <1>1 DEF ListOK
  <2>2. i \notin DOMAIN windows
    BY <1>2, <2>1
  <2>3. WindowsOK' /\ DOMAIN windows' = DOMAIN windows \cup {i}
    BY <1>2, <1>6, <2>2, CreateOK
  <2>4. window_list \in Seq(DOMAIN windows') /\ i \in DOMAIN windows'
    BY <2>1, <2>3, SeqMonotonic
  <2>5. /\ window_list' \in Seq(DOMAIN windows') /\ Len(window_list') = Len(window_list) + 1
        /\ Len(window_list) \in Nat /\ window_list'[1] = i
        /\ \A n \in 1 .. Len(window_list) : window_list'[n + 1] = window_list[n]
    BY <1>6, <2>4, InFront
  <2>6. \A n \in 2 .. Len(window_list') : n - 1 \in 1 .. Len(window_list)
                                          /\ window_list'[n] = window_list[n - 1]
    <3>1. ASSUME NEW n \in 2 .. Len(window_list')
          PROVE  n - 1 \in 1 .. Len(window_list) /\ window_list'[n] = window_list[n - 1]
      <4>1. n - 1 \in 1 .. Len(window_list) /\ (n - 1) + 1 = n
        BY <2>5
      <4> QED
        BY <2>5, <4>1, Zenon
    <3> QED
      BY <3>1
  <2>7. \A n \in 1 .. Len(window_list) : window_list[n] \in DOMAIN windows /\ window_list[n] # i
    <3>1. \A n \in 1 .. Len(window_list) : window_list[n] \in DOMAIN windows
      BY <2>1, LenProperties
    <3> QED
      BY <2>2, <3>1
  <2>8. ASSUME NEW m \in 1 .. Len(window_list'), NEW n \in 1 .. Len(window_list'),
               window_list'[m] = window_list'[n]
        PROVE  m = n
    <3>1. CASE m = 1 /\ n # 1
      BY <2>5, <2>6, <2>7, <2>8, <3>1
    <3>2. CASE m # 1 /\ n = 1
      <4>1. m \in 2 .. Len(window_list') /\ window_list'[m] = i
        BY <2>5, <2>8, <3>2
      <4>2. m - 1 \in 1 .. Len(window_list) /\ window_list[m - 1] = i
        BY <2>6, <4>1
      <4> QED
        BY <2>7, <4>2, Zenon
    <3>3. CASE m # 1 /\ n # 1
      <4>1. m - 1 \in 1 .. Len(window_list) /\ n - 1 \in 1 .. Len(window_list)
            /\ window_list[m - 1] = window_list[n - 1]
        BY <2>5, <2>6, <2>8, <3>3
      <4>2. m - 1 = n - 1
        BY <2>1, <4>1, Zenon
      <4> QED
        BY <2>5, <4>2
    <3> QED
      BY <3>1, <3>2, <3>3
  <2>9. i \in ToSet(window_list')
    <3>1. 1 \in DOMAIN window_list'
      BY <2>5, LenProperties
    <3> QED
      BY <2>5, <3>1, Zenon DEF ToSet
  <2>10. /\ Len(window_list') <= 3 /\ Len(window_list') < i'
         /\ \A w \in DOMAIN windows' : w < i'
    <3>1. DOMAIN windows \subseteq 1 .. 3
      BY DEF WindowsOK
    <3> QED
      BY <1>1, <1>2, <2>1, <2>3, <2>5, <3>1
  <2>11. active_workspace' \in 1 .. 4 /\ mode' \in Modes
    BY <1>1 DEF ListOK
  <2>12. ListOK'
    BY <1>2, <1>6, <2>5, <2>8, <2>9, <2>10, <2>11, Zenon DEF ListOK
  <2> QED
    BY <1>4, <2>3, <2>12
<1> QED
  BY <1>1, <1>5, <1>6

(* The hotkeys. *)
LEMMA HotkeyOK ==
    ASSUME ListOK, PlacesOK, SetWorkspace \/ CycleMode \/ CycleFocus
    PROVE  ListOK' /\ PlacesOK'
<1>1. /\ windows' = windows /\ window_list' = window_list /\ i' = i
      /\ pc = "dispatch" /\ pc' = "clear"
  BY DEF SetWorkspace, CycleMode, CycleFocus, At, Dispatched, Looping, window_vars
<1>2. active_workspace' \in 1 .. 4 /\ mode' \in Modes
  <2>1. CASE SetWorkspace
    BY <2>1, DesktopAssumption DEF SetWorkspace, ListOK
  <2>2. CASE CycleMode
    BY <2>2 DEF CycleMode, ListOK, Modes
  <2>3. CASE CycleFocus
    BY <2>3 DEF CycleFocus, ListOK
  <2> QED
    BY <2>1, <2>2, <2>3
<1>3. focused_window' \in ToSet(window_list) \cup {NONE}
  <2>1. CASE focused_window' = focused_window
    BY <2>1 DEF ListOK
  <2>2. ASSUME window_list # <<>>, NEW at \in DOMAIN window_list, focused_window' = FocusAfter(at)
        PROVE  focused_window' \in ToSet(window_list)
    <3>1. Len(window_list) \in Nat /\ DOMAIN window_list = 1 .. Len(window_list)
      BY LenProperties DEF ListOK
    <3> DEFINE p == IF at < Len(window_list) THEN at + 1 ELSE 1
    <3>2. p \in DOMAIN window_list
      BY <3>1, <2>2
    <3> QED
      BY <2>2, <3>2, Zenon DEF FocusAfter, ToSet
  <2>3. SetWorkspace \/ CycleMode => focused_window' = focused_window
    BY DEF SetWorkspace, CycleMode
  <2> QED
    BY <2>1, <2>2, <2>3, Zenon DEF CycleFocus
<1>4. ListOK'
  <2>1. DOMAIN windows' = DOMAIN windows /\ i' \in 1 .. 4 /\ pc' # "create"
    BY <1>1 DEF ListOK
  <2> QED
    BY <1>1, <1>2, <1>3, <2>1, ListKept
<1>5. PlacesOK'
  <2>1. pc' # "layout" /\ ~LaidOut' /\ pc' \notin {"create", "banner"} /\ pc \notin Early
    BY <1>1 DEF LaidOut, Early
  <2> QED
    BY <1>1, <2>1, Zenon DEF PlacesOK
<1> QED
  BY <1>4, <1>5

(* Everything else moves and registers no window. *)
LEMMA OthersOK ==
    ASSUME ListOK, [Next]_vars,
           ~(CreateWindow \/ LayoutWindow \/ LayoutDone \/ SetWorkspace \/ CycleMode \/ CycleFocus)
    PROVE  /\ UNCHANGED <<windows, blocks, failures>> /\ UNCHANGED desktop_vars
           /\ i' \in 1 .. 4 /\ Going /\ (pc' = "create" => pc = "create" /\ i' >= i)
<1>0. i \in 1 .. 4 /\ Len(window_list) \in Nat /\ Len(window_list) <= 3
  BY LenProperties DEF ListOK
<1>1. ASSUME NEW k \in Keys, KeyIrq(k)
      PROVE  /\ UNCHANGED window_vars /\ UNCHANGED desktop_vars /\ i' = i
             /\ pc' = IF pc = "asleep" THEN "poll" ELSE pc
  BY <1>1 DEF KeyIrq
<1>2. ASSUME UNCHANGED window_vars, UNCHANGED desktop_vars, i' = i,
             \/ pc' = pc
             \/ pc = "asleep" /\ pc' = "poll"
             \/ pc \in {"create", "banner"} /\ pc' = "banner"
             \/ pc \in {"banner", "print", "dispatch"} /\ pc' = "clear"
             \/ pc \notin Early \cup {"print"} /\ pc' \notin Early
      PROVE  /\ UNCHANGED <<windows, blocks, failures>> /\ UNCHANGED desktop_vars
             /\ i' \in 1 .. 4 /\ Going /\ (pc' = "create" => pc = "create" /\ i' >= i)
  <2>1. /\ windows' = windows /\ blocks' = blocks /\ failures' = failures
        /\ window_list' = window_list /\ focused_window' = focused_window
        /\ active_workspace' = active_workspace /\ mode' = mode
    BY <1>2 DEF window_vars, desktop_vars
  <2>2. /\ (pc' = pc /\ i' = i) \/ pc' # "layout"
        /\ LaidOut' => LaidOut
        /\ pc' \in {"create", "banner"} => pc \in {"create", "banner"}
        /\ pc \in Early => pc' \in Early
        /\ pc' = "create" => pc = "create"
    BY <1>2 DEF LaidOut, Early
  <2>3. i' >= i /\ i' \in 1 .. 4
    BY <1>0, <1>2
  <2>4. Going
    BY <2>1, <2>2, Zenon DEF Going
  <2> QED
    BY <1>2, <2>1, <2>2, <2>3, <2>4
<1>3. ASSUME Clear \/ DrawWindow
      PROVE  /\ UNCHANGED <<windows, blocks, failures>> /\ UNCHANGED desktop_vars
             /\ i' \in 1 .. 4 /\ Going /\ (pc' = "create" => pc = "create" /\ i' >= i)
  <2>1. /\ windows' = windows /\ blocks' = blocks /\ failures' = failures
        /\ window_list' = window_list /\ focused_window' = focused_window
        /\ active_workspace' = active_workspace /\ mode' = mode
    BY <1>3 DEF Clear, DrawWindow, Rendering, window_vars, desktop_vars
  <2>2. \/ pc = "clear" /\ pc' = "layout" /\ i' = 1
        \/ pc = "windows" /\ pc' = pc /\ i <= Len(window_list) /\ i' = i + 1
    BY <1>3 DEF Clear, DrawWindow, At
  <2>3. Going /\ i' \in 1 .. 4 /\ pc' # "create"
    <3>1. i' \in 1 .. 4
      BY <1>0, <2>2
    <3>2. /\ pc' # "create" /\ (pc' # "layout" \/ (pc' = "layout" /\ i' = 1))
          /\ LaidOut' => LaidOut
          /\ pc' \notin {"create", "banner"} /\ (pc \in Early => pc' \in Early)
      BY <2>2 DEF LaidOut, Early
    <3> QED
      BY <2>1, <3>1, <3>2, Zenon DEF Going
  <2> QED
    BY <2>1, <2>3 DEF desktop_vars
<1>4. CASE \E k \in Keys : KeyIrq(k)
  <2>1. PICK k \in Keys : KeyIrq(k)
    BY <1>4
  <2> QED
    BY <1>1, <1>2, <2>1
<1>5. CASE Tick \/ Banner \/ Putc \/ Printing
  <2>1. /\ UNCHANGED window_vars /\ UNCHANGED desktop_vars /\ i' = i
        /\ \/ pc' = pc
           \/ pc = "asleep" /\ pc' = "poll"
           \/ pc = "create" /\ pc' = "banner"
           \/ pc \in {"banner", "print"} /\ pc' = "clear"
    BY <1>5 DEF Tick, Banner, Putc, Printing, PrintSome, At
  <2> QED
    BY <1>2, <2>1
<1>6. CASE DrawFocused \/ DrawShell \/ DrawPointer \/ Swap
  <2>1. /\ UNCHANGED window_vars /\ UNCHANGED desktop_vars /\ i' = i
        /\ pc \in {"windows", "shell", "pointer", "swap"}
        /\ pc' \in {"shell", "pointer", "swap", "poll"}
    BY <1>6 DEF DrawFocused, DrawShell, DrawPointer, Swap, Rendering, At
  <2> QED
    BY <1>2, <2>1 DEF Early
<1>7. CASE Poll \/ Take \/ ToShell \/ Halt
  <2>1. /\ UNCHANGED window_vars /\ UNCHANGED desktop_vars /\ i' = i
        /\ pc \in {"poll", "take", "dispatch", "halt"}
        /\ \/ pc' \in {"take", "halt", "dispatch", "print", "asleep"}
           \/ pc = "dispatch" /\ pc' = "clear"
    BY <1>7 DEF Poll, Take, ToShell, Halt, Looping, Dispatched, PrintSome, At
  <2> QED
    BY <1>2, <2>1 DEF Early
<1>8. CASE UNCHANGED vars
  <2>1. UNCHANGED window_vars /\ UNCHANGED desktop_vars /\ i' = i /\ pc' = pc
    BY <1>8 DEF vars
  <2> QED
    BY <1>2, <2>1
<1> QED
  BY <1>3, <1>4, <1>5, <1>6, <1>7, <1>8, Zenon DEF Next, Kmain, RenderFrame, Loop

-----------------------------------------------------------------------------
(* The slot between handler and loop. *)
KeysOK ==
    /\ s_last_char \in Keys \cup {NONE} /\ c \in Keys \cup {NONE}
    /\ keys \in 0 .. MaxKeys /\ unseen \in BOOLEAN

LEMMA KeysNext == KeysOK /\ [Next]_vars => KeysOK'
<1> SUFFICES ASSUME KeysOK, [Next]_vars PROVE KeysOK'
  OBVIOUS
<1>1. ASSUME NEW k \in Keys, KeyIrq(k) PROVE KeysOK'
  <2>1. /\ s_last_char' = k /\ c' = c /\ unseen' = unseen
        /\ keys' = keys + 1 /\ keys < MaxKeys
    BY <1>1 DEF KeyIrq
  <2>2. keys' \in 0 .. MaxKeys
    BY <2>1, DesktopAssumption DEF KeysOK
  <2> QED
    BY <1>1, <2>1, <2>2, Zenon DEF KeysOK
<1>2. CASE UNCHANGED <<s_last_char, c, keys>> /\ unseen' \in {unseen, FALSE}
  BY <1>2 DEF KeysOK
<1>3. CASE UNCHANGED key_vars
  BY <1>3 DEF KeysOK, key_vars
<1>4. CASE Tick \/ CreateWindow \/ Banner \/ Putc \/ Printing \/ Halt \/ UNCHANGED vars
  BY <1>3, <1>4 DEF Tick, CreateWindow, Banner, Putc, Printing, Halt, vars
<1>5. CASE RenderFrame
  BY <1>2, <1>5 DEF RenderFrame, Clear, LayoutWindow, LayoutDone, DrawWindow, DrawFocused,
                    DrawShell, DrawPointer, Swap, Rendering
<1>6. CASE Poll
  BY <1>6 DEF Poll, KeysOK
<1>7. CASE Take
  BY <1>7 DEF Take, KeysOK
<1>8. CASE SetWorkspace \/ CycleMode \/ CycleFocus \/ ToShell
  <2>1. Dispatched
    BY <1>8 DEF SetWorkspace, CycleMode, CycleFocus, ToShell
  <2> QED
    BY <2>1 DEF Dispatched, KeysOK
<1> QED
  BY <1>1, <1>4, <1>5, <1>6, <1>7, <1>8, Zenon DEF Next, Kmain, Loop

-----------------------------------------------------------------------------
(* All of it together. *)
DesktopInv == ConsoleOK /\ WindowsOK /\ ListOK /\ PlacesOK /\ KeysOK

LEMMA DesktopInvInit == Init => DesktopInv
<1> SUFFICES ASSUME Init PROVE DesktopInv
  OBVIOUS
<1>1. /\ windows = <<>> /\ blocks = 0 /\ failures = 0
      /\ window_list = <<>> /\ focused_window = NONE /\ active_workspace = 1
      /\ mode = MasterStack /\ pc = "create" /\ i = 1
      /\ s_last_char = NONE /\ c = NONE /\ keys = 0 /\ unseen = FALSE
  BY DEF Init, WindowsInit
<1>2. DOMAIN windows = {}
  BY <1>1
<1>3. ConsoleOK
  BY ConsoleOKInit DEF Init
<1>4. WindowsOK
  <2>1. windows \in [DOMAIN windows -> WindowSet]
    BY <1>1, <1>2
  <2>2. Held(1) = 0 /\ Held(2) = 0 /\ Held(3) = 0
    BY <1>2 DEF Held
  <2>3. blocks = Held(1) + Held(2) + Held(3) /\ failures \in 0 .. MaxFailures
    BY <1>1, <2>2, WindowsAssumption
  <2> QED
    BY <1>2, <2>1, <2>3 DEF WindowsOK
<1>5. ListOK
  BY <1>1, <1>2 DEF ListOK, Modes, MasterStack
<1>6. PlacesOK
  <2>1. ~LaidOut /\ pc # "layout" /\ pc \in Early
    BY <1>1 DEF LaidOut, Early
  <2> QED
    BY <1>1, <2>1 DEF PlacesOK
<1>7. KeysOK
  <2>1. keys \in 0 .. MaxKeys
    BY <1>1, DesktopAssumption
  <2> QED
    BY <1>1, <2>1, Zenon DEF KeysOK
<1> QED
  BY <1>3, <1>4, <1>5, <1>6, <1>7 DEF DesktopInv

LEMMA DesktopInvNext == DesktopInv /\ [Next]_vars => DesktopInv'
<1> SUFFICES ASSUME DesktopInv, [Next]_vars PROVE DesktopInv'
  OBVIOUS
<1>0. WindowsOK /\ ListOK /\ PlacesOK
  BY DEF DesktopInv
<1>1. ConsoleOK' /\ KeysOK'
  BY ConsoleNext, KeysNext DEF DesktopInv
<1>2. WindowsOK' /\ ListOK' /\ PlacesOK'
  <2>1. ASSUME UNCHANGED <<windows, blocks, failures>> PROVE WindowsOK'
    BY <1>0, <2>1 DEF WindowsOK, Held
  <2>2. CASE CreateWindow
    BY <1>0, <2>2, CreateWindowOK
  <2>3. CASE LayoutWindow
    BY <1>0, <2>3, LayoutWindowOK
  <2>4. CASE LayoutDone
    <3>1. /\ UNCHANGED <<windows, blocks, failures>>
          /\ window_list' = window_list /\ focused_window' = focused_window
          /\ active_workspace' = active_workspace /\ mode' = mode
          /\ i' = 1 /\ pc' # "create" /\ windows' = windows
      BY <2>4 DEF LayoutDone, At, Rendering, window_vars, desktop_vars
    <3>2. DOMAIN windows' = DOMAIN windows /\ i' \in 1 .. 4
      BY <3>1
    <3>3. /\ focused_window' \in ToSet(window_list) \cup {NONE}
          /\ active_workspace' \in 1 .. 4 /\ mode' \in Modes
      BY <1>0, <3>1, Zenon DEF ListOK
    <3>4. ListOK'
      BY <1>0, <3>1, <3>2, <3>3, ListKept
    <3>5. PlacesOK'
      BY <1>0, <2>4, LayoutDoneOK
    <3> QED
      BY <2>1, <3>1, <3>4, <3>5
  <2>5. CASE SetWorkspace \/ CycleMode \/ CycleFocus
    <3>1. UNCHANGED <<windows, blocks, failures>>
      BY <2>5 DEF SetWorkspace, CycleMode, CycleFocus, Dispatched, Looping, window_vars
    <3>2. ListOK' /\ PlacesOK'
      BY <1>0, <2>5, HotkeyOK
    <3> QED
      BY <2>1, <3>1, <3>2
  <2>6. CASE ~(CreateWindow \/ LayoutWindow \/ LayoutDone
                 \/ SetWorkspace \/ CycleMode \/ CycleFocus)
    <3>1. /\ UNCHANGED <<windows, blocks, failures>> /\ UNCHANGED desktop_vars
          /\ i' \in 1 .. 4 /\ Going /\ (pc' = "create" => pc = "create" /\ i' >= i)
      BY <1>0, <2>6, OthersOK
    <3>2. /\ DOMAIN windows' = DOMAIN windows
          /\ window_list' = window_list /\ focused_window' = focused_window
          /\ active_workspace' = active_workspace /\ mode' = mode
      BY <3>1 DEF desktop_vars
    <3>3. /\ focused_window' \in ToSet(window_list) \cup {NONE}
          /\ active_workspace' \in 1 .. 4 /\ mode' \in Modes
      BY <1>0, <3>2, Zenon DEF ListOK
    <3>4. ListOK'
      BY <1>0, <3>1, <3>2, <3>3, ListKept
    <3>5. PlacesOK'
      BY <1>0, <3>1, PlacesKept
    <3> QED
      BY <2>1, <3>1, <3>4, <3>5
  <2> QED
    BY <2>2, <2>3, <2>4, <2>5, <2>6
<1> QED
  BY <1>1, <1>2 DEF DesktopInv

LEMMA DesktopInvAlways == Spec => []DesktopInv
  BY DesktopInvInit, DesktopInvNext, PTL DEF Spec

LEMMA DesktopInvType == DesktopInv => TypeOK
<1> SUFFICES ASSUME DesktopInv PROVE TypeOK
  OBVIOUS
<1>1. Len(Requested) = 3 /\ DOMAIN Requested = 1 .. 3
  BY DEF Requested
<1>2. DOMAIN windows \subseteq DOMAIN Requested /\ failures \in 0 .. MaxFailures
  BY <1>1 DEF DesktopInv, WindowsOK
<1>3. ASSUME NEW w \in DOMAIN windows
      PROVE  /\ windows[w].rect \in [x : Nat, y : Nat, w : Nat, h : Nat]
             /\ windows[w].surface = NONE \/ windows[w].surface \in Surfaces
  <2>1. windows[w] \in WindowSet
    BY Zenon DEF DesktopInv, WindowsOK
  <2> QED
    BY <2>1 DEF WindowSet, Rects
<1>4. blocks \in Nat
  <2>1. \A v : Held(v) \in Nat
    BY DEF Held, BlocksOf
  <2> QED
    BY <2>1 DEF DesktopInv, WindowsOK
<1>5. /\ window_list \in Seq(DOMAIN windows) /\ focused_window \in ToSet(window_list) \cup {NONE}
      /\ active_workspace \in 1 .. 4 /\ mode \in Modes
  BY Zenon DEF DesktopInv, ListOK
<1>6. i \in 1 .. Len(Requested) + 1
  BY <1>1 DEF DesktopInv, ListOK
<1>7. putc \in [at : {"idle", "next", "wrap", "draw", "advance"}, x : Nat, left : 0 .. MaxText]
  BY Zenon DEF DesktopInv, ConsoleOK
<1>8. KeysOK
  BY DEF DesktopInv
<1> QED
  BY <1>2, <1>3, <1>4, <1>5, <1>6, <1>7, <1>8, Zenon DEF TypeOK, KeysOK

LEMMA DesktopInvSurfaces == DesktopInv => SurfacesKept
<1> SUFFICES ASSUME DesktopInv PROVE SurfacesKept
  OBVIOUS
<1>1. ListOK /\ WindowsOK
  BY DEF DesktopInv
<1>2. ASSUME NEW n \in DOMAIN Shown PROVE SurfaceFits(Shown[n])
  <2>1. Shown[n] \in DOMAIN windows
    BY <1>1, ShownFacts
  <2>2. Fitting(windows[Shown[n]].surface, windows[Shown[n]].rect)
    BY <1>1, <2>1, Zenon DEF WindowsOK
  <2> QED
    BY <2>2, Zenon DEF Fitting, SurfaceFits
<1>3. blocks = Held(1) + Held(2) + Held(3)
  BY <1>1 DEF WindowsOK
<1> QED
  BY <1>2, <1>3 DEF SurfacesKept

LEMMA DesktopInvTiles == DesktopInv => TilesScreen
<1> SUFFICES ASSUME DesktopInv, LaidOut PROVE
      /\ \A n \in DOMAIN Shown : Within(Place(n), Area)
      /\ mode \in {MasterStack, Grid} =>
           \A m, n \in DOMAIN Shown : m # n => Apart(Place(m), Place(n))
      /\ mode = MasterStack /\ Shown # <<>> =>
           /\ Bottom(Place(1)) = Bottom(Area)
           /\ Bottom(Place(Len(Shown))) = Bottom(Area)
           /\ Right(Place(Len(Shown))) = Right(Area)
  BY DEF TilesScreen
<1> DEFINE l == Len(Shown)
<1>1. ListOK /\ PlacesOK
  BY DEF DesktopInv
<1>2. /\ Shown \in Seq(DOMAIN windows) /\ l \in 0 .. 3 /\ DOMAIN Shown = 1 .. l
  BY <1>1, ShownFacts
<1>3. pc \notin Early
  BY DEF LaidOut, Early
<1>4. ASSUME NEW n \in DOMAIN Shown PROVE Within(Place(n), Area)
  <2>1. CASE active_workspace = 1
    <3>1. Shown = window_list
      BY <2>1 DEF Shown
    <3>2. n \in 1 .. Len(window_list)
      BY <1>2, <3>1
    <3>3. Within(windows[window_list[n]].rect, Area)
      BY <1>1, <1>3, <3>2, Zenon DEF PlacesOK
    <3> QED
      BY <3>1, <3>3, Zenon DEF Place
  <2>2. CASE active_workspace # 1
    BY <2>2 DEF Shown
  <2> QED
    BY <2>1, <2>2
<1>5. ASSUME ~LeftAlone(mode, l), NEW n \in 1 .. l PROVE Place(n) = Tile(mode, l, n)
  BY <1>1, <1>5, Zenon DEF PlacesOK
<1>6. ASSUME mode \in {MasterStack, Grid}, NEW m \in DOMAIN Shown, NEW n \in DOMAIN Shown, m # n
      PROVE  Apart(Place(m), Place(n))
  <2>1. l \in 1 .. 3 /\ m \in 1 .. l /\ n \in 1 .. l
    BY <1>2
  <2>2. ~LeftAlone(mode, l)
    BY <1>6, <2>1 DEF LeftAlone, MasterStack, Grid, Floating
  <2>3. Place(m) = Tile(mode, l, m) /\ Place(n) = Tile(mode, l, n)
    BY <1>5, <2>1, <2>2
  <2> HIDE DEF l
  <2>4. Apart(Tile(mode, l, m), Tile(mode, l, n))
    BY <1>6, <2>1, TilesApart
  <2> QED
    BY <2>3, <2>4, Zenon
<1>7. ASSUME mode = MasterStack, Shown # <<>>
      PROVE  /\ Bottom(Place(1)) = Bottom(Area)
             /\ Bottom(Place(l)) = Bottom(Area)
             /\ Right(Place(l)) = Right(Area)
  <2>1. l # 0
    BY <1>2, <1>7, EmptySeq
  <2>2. l \in 1 .. 3 /\ 1 \in 1 .. l /\ l \in 1 .. l
    BY <1>2, <2>1
  <2>3. ~LeftAlone(mode, l)
    BY <1>7, <2>2 DEF LeftAlone, MasterStack, Floating
  <2>4. Place(1) = Tile(mode, l, 1) /\ Place(l) = Tile(mode, l, l)
    BY <1>5, <2>2, <2>3
  <2> HIDE DEF l
  <2>5. /\ Bottom(Tile(MasterStack, l, 1)) = Bottom(Area)
        /\ Bottom(Tile(MasterStack, l, l)) = Bottom(Area)
        /\ Right(Tile(MasterStack, l, l)) = Right(Area)
    BY <2>2, TilesReach
  <2> QED
    BY <1>7, <2>4, <2>5, Zenon
<1> QED
  BY <1>4, <1>6, <1>7

(* The windows, the list of them, the printers and the slot are what they  *)
(* are said to be, whenever keys are struck and allocations refused.       *)
THEOREM TypeOKCorrect == Spec => []TypeOK
  BY DesktopInvAlways, DesktopInvType, PTL

(* Whatever the screen's size (ScreenAssumption), the layout's divisions   *)
(* leave the windows within what dock and island leave, the tiled ones     *)
(* with the gap between them, and master and stack at the area's edges,    *)
(* however modes, workspaces and focus were cycled (layout.c:42-96,        *)
(* entry.c:268-280).                                                       *)
THEOREM TilesScreenCorrect == Spec => []TilesScreen
  BY DesktopInvAlways, DesktopInvTiles, PTL

(* No change of mode loses a surface or leaves one at another size than    *)
(* its window's, whichever of kzalloc's calls are refused                  *)
(* (window.c:38-53, surface.c:4-28).                                       *)
THEOREM SurfacesKeptCorrect == Spec => []SurfacesKept
  BY DesktopInvAlways, DesktopInvSurfaces, PTL
===============================================================================
