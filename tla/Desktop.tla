------------------------------- MODULE Desktop -------------------------------
(***************************************************************************)
(* The desktop: kmain from compositor_init on (src/kernel/src/boot/        *)
(* entry.c:224-282), the compositor that puts a frame together in the      *)
(* backbuffer (compositor/compositor.c, shell_ui.c, video/fb.c), and the   *)
(* keyboard's handler, which prints what is struck into the same           *)
(* backbuffer and presents it whatever the compositor is doing.            *)
(*                                                                         *)
(* A buffer is the sequence of what was painted since it was last cleared. *)
(* Interrupts are on from the start.  All windows are on workspace 1 and   *)
(* none is minimised: no code changes either.  The island never shows a    *)
(* toast: nothing calls shell_ui_show_toast.                               *)
(***************************************************************************)
EXTENDS Windows, Console, SequencesExt

CONSTANTS
    SPACE, TAB,
    WorkspaceOf,    \* the digits that switch workspaces, and where to
    Letters,        \* characters for the shell
    MaxText,        \* bound: the characters the shell prints for one of them
    MaxKeys         \* bound: how many keys are struck

Keys == {SPACE, TAB} \cup DOMAIN WorkspaceOf \cup Letters

ASSUME DesktopAssumption ==
    /\ SPACE # TAB /\ NONE \notin Keys
    /\ {SPACE, TAB} \cap (DOMAIN WorkspaceOf \cup Letters) = {}
    /\ DOMAIN WorkspaceOf \cap Letters = {}
    /\ \A k \in DOMAIN WorkspaceOf : WorkspaceOf[k] \in 1 .. 4
    /\ MaxText \in Nat \ {0} /\ MaxKeys \in Nat

VARIABLES
    window_list,    \* the registered windows, the last one first
    focused_window,
    active_workspace,
    mode,           \* s_layout.mode
    back, front,    \* the two buffers
    pc,             \* where kmain is
    i,              \* the window it is at
    s_last_char,
    c,
    keys,           \* ghost: how many keys were struck
    unseen          \* ghost: the echo of a keystroke that was lost is in the buffer

desktop_vars == <<window_list, focused_window, active_workspace, mode>>
key_vars == <<s_last_char, c, keys, unseen>>
vars == <<window_vars, desktop_vars, back, front, console_vars, pc, i, key_vars>>

(* compositor_init, layout_init, shell_ui_init *)
Init ==
    /\ WindowsInit /\ ConsoleInit
    /\ window_list = <<>> /\ focused_window = NONE
    /\ active_workspace = 1 /\ mode = MasterStack
    /\ back = <<>> /\ front = <<>>
    /\ pc = "create" /\ i = 1
    /\ s_last_char = NONE /\ c = NONE
    /\ keys = 0 /\ unseen = FALSE

-----------------------------------------------------------------------------
(* What buffers are made of. *)
TEXT == <<"text">>
POINTER == <<"pointer">>

(* A window with its frame, its title, and what its surface has to show. *)
Drawn(w) ==
    <<"window", w, windows[w].rect, w = focused_window,
      IF windows[w].surface = NONE THEN FALSE ELSE windows[w].surface.painted>>

Dock == <<"dock", active_workspace>>
Island == <<"island", focused_window, mode>>

(* Text on text is text. *)
WithText(buffer) == IF buffer # <<>> /\ Last(buffer) = TEXT THEN buffer ELSE Append(buffer, TEXT)

Visible(w) == active_workspace = 1

Shown == IF active_workspace = 1 THEN window_list ELSE <<>>

-----------------------------------------------------------------------------
At(from, to) == pc = from /\ pc' = to

(* A letter may be Enter, whose echo ends the line. *)
Echoed(k) == {After(cursor_x)} \cup (IF k \in Letters THEN {Left} ELSE {})

(* keyboard_callback: the slot is filled, and the echo goes on the screen. *)
KeyIrq(k) ==
    /\ keys < MaxKeys
    /\ keys' = keys + 1
    /\ s_last_char' = k
    /\ cursor_x' \in Echoed(k)
    /\ back' = WithText(back)
    /\ front' = back'
    /\ pc' = IF pc = "asleep" THEN "poll" ELSE pc
    /\ UNCHANGED <<window_vars, desktop_vars, putc, i, c, unseen>>

Tick ==
    /\ At("asleep", "poll")
    /\ UNCHANGED <<window_vars, desktop_vars, back, front, console_vars, i, key_vars>>

(* One of the three windows, registered if there is one. *)
CreateWindow ==
    /\ pc = "create" /\ i <= Len(Requested)
    /\ \/ CreateNone /\ UNCHANGED <<window_list, focused_window>>
       \/ Create(i) /\ window_list' = <<i>> \o window_list /\ focused_window' = i
    /\ i' = i + 1
    /\ UNCHANGED <<active_workspace, mode, back, front, console_vars, pc, key_vars>>

-----------------------------------------------------------------------------
(* kmain and the shell print some text ... *)
PrintSome(from, to) == At(from, to) /\ \E n \in 1 .. MaxText : StartPrinting(n)

Banner ==
    /\ PrintSome("create", "banner")
    /\ i > Len(Requested)
    /\ UNCHANGED <<window_vars, desktop_vars, back, front, i, key_vars>>

Putc ==
    /\ pc \in {"banner", "print"}
    /\ Newline \/ Measure \/ Wrap \/ Draw \/ Advance
    /\ back' = IF putc.at = "draw" THEN WithText(back) ELSE back
    /\ UNCHANGED <<window_vars, desktop_vars, front, pc, i, key_vars>>

(* ... and present it, shortly before the frame that clears it; kmain's    *)
(* ends a line.                                                            *)
Printing ==
    /\ \/ At("banner", "clear") /\ cursor_x' = Left
       \/ At("print", "clear") /\ UNCHANGED cursor_x
    /\ Printed /\ Idle
    /\ front' = back
    /\ UNCHANGED <<window_vars, desktop_vars, back, i, key_vars>>

-----------------------------------------------------------------------------
(* compositor_render_frame, call by call. *)
Rendering == UNCHANGED <<desktop_vars, console_vars, s_last_char, c, keys>>

(* A slip: the frame is painted over the last one. *)
NoClear ==
    /\ At("clear", "layout")
    /\ i' = 1
    /\ UNCHANGED <<window_vars, back, front, unseen>> /\ Rendering

Clear ==
    /\ At("clear", "layout")
    /\ back' = <<>>
    /\ unseen' = FALSE
    /\ i' = 1
    /\ UNCHANGED <<window_vars, front>> /\ Rendering

(* layout_apply, window by window *)
LayoutWindow ==
    /\ pc = "layout" /\ i <= Len(Shown)
    /\ ~LeftAlone(mode, Len(Shown))
    /\ Resize(Shown[i], Tile(mode, Len(Shown), i))
    /\ i' = i + 1
    /\ UNCHANGED <<back, front, pc, unseen>> /\ Rendering

LayoutDone ==
    /\ At("layout", "windows")
    /\ i > Len(Shown) \/ LeftAlone(mode, Len(Shown))
    /\ i' = 1
    /\ UNCHANGED <<window_vars, back, front, unseen>> /\ Rendering

(* draw_window: nothing when the window is on another workspace. *)
WithWindow(w) == IF Visible(w) THEN Append(back, Drawn(w)) ELSE back

(* The focused window is drawn after the others. *)
DrawWindow ==
    /\ pc = "windows" /\ i <= Len(window_list)
    /\ back' = IF window_list[i] # focused_window THEN WithWindow(window_list[i]) ELSE back
    /\ i' = i + 1
    /\ UNCHANGED <<window_vars, front, pc, unseen>> /\ Rendering

DrawFocused ==
    /\ At("windows", "shell")
    /\ i > Len(window_list)
    /\ back' = IF focused_window = NONE THEN back ELSE WithWindow(focused_window)
    /\ UNCHANGED <<window_vars, front, i, unseen>> /\ Rendering

(* shell_ui_render_dock, shell_ui_render_island *)
DrawShell ==
    /\ At("shell", "pointer")
    /\ back' = back \o <<Dock, Island>>
    /\ UNCHANGED <<window_vars, front, i, unseen>> /\ Rendering

DrawPointer ==
    /\ At("pointer", "swap")
    /\ back' = Append(back, POINTER)
    /\ UNCHANGED <<window_vars, front, i, unseen>> /\ Rendering

Swap ==
    /\ At("swap", "poll")
    /\ front' = back
    /\ UNCHANGED <<window_vars, back, i, unseen>> /\ Rendering

RenderFrame ==
    Clear \/ LayoutWindow \/ LayoutDone \/ DrawWindow \/ DrawFocused \/ DrawShell
        \/ DrawPointer \/ Swap

-----------------------------------------------------------------------------
(* The loop.  Polling reads the slot and then clears it. *)
Looping == UNCHANGED <<window_vars, back, front, i>>

Poll ==
    /\ At("poll", "take")
    /\ c' = s_last_char
    /\ UNCHANGED <<desktop_vars, console_vars, s_last_char, keys, unseen>> /\ Looping

Take ==
    /\ At("take", IF c = NONE THEN "halt" ELSE "dispatch")
    /\ s_last_char' = NONE
    /\ unseen' = (unseen \/ s_last_char # c)
    /\ UNCHANGED <<desktop_vars, console_vars, c, keys>> /\ Looping

Dispatched == c' = NONE /\ UNCHANGED <<s_last_char, keys, unseen>> /\ Looping

(* compositor_set_workspace *)
SetWorkspace ==
    /\ At("dispatch", "clear")
    /\ c \in DOMAIN WorkspaceOf
    /\ active_workspace' = WorkspaceOf[c]
    /\ UNCHANGED <<window_list, focused_window, mode, console_vars>> /\ Dispatched

(* layout_cycle_mode *)
CycleMode ==
    /\ At("dispatch", "clear")
    /\ c = SPACE
    /\ mode' = (mode + 1) % 4
    /\ UNCHANGED <<window_list, focused_window, active_workspace, console_vars>> /\ Dispatched

(* compositor_cycle_focus: the next in the list, after the last the first. *)
FocusAfter(at) == window_list[IF at < Len(window_list) THEN at + 1 ELSE 1]

CycleFocus ==
    /\ At("dispatch", "clear")
    /\ c = TAB
    /\ IF window_list = <<>> THEN UNCHANGED focused_window
       ELSE \E at \in DOMAIN window_list :
              /\ window_list[at] = focused_window
              /\ focused_window' = FocusAfter(at)
    /\ UNCHANGED <<window_list, active_workspace, mode, console_vars>> /\ Dispatched

(* chef_shell_handle_char: there may be nothing to print, as when an empty *)
(* line is erased or a full one typed at; then nothing is presented either.*)
ToShell ==
    /\ \/ PrintSome("dispatch", "print")
       \/ At("dispatch", "clear") /\ UNCHANGED console_vars
    /\ c \in Letters
    /\ UNCHANGED desktop_vars /\ Dispatched

Halt ==
    /\ At("halt", "asleep")
    /\ UNCHANGED <<desktop_vars, console_vars, key_vars>> /\ Looping

Loop == Poll \/ Take \/ SetWorkspace \/ CycleMode \/ CycleFocus \/ ToShell \/ Halt

Kmain == CreateWindow \/ Banner \/ Putc \/ Printing \/ RenderFrame \/ Loop

Next == (\E k \in Keys : KeyIrq(k)) \/ Tick \/ Kmain

(* The processor runs and the timer ticks; the user need not strike a key. *)
Spec == Init /\ [][Next]_vars /\ WF_vars(Kmain) /\ WF_vars(Tick)

-----------------------------------------------------------------------------
TypeOK ==
    /\ DOMAIN windows \subseteq DOMAIN Requested
    /\ \A w \in DOMAIN windows :
         /\ windows[w].rect \in [x : Nat, y : Nat, w : Nat, h : Nat]
         /\ \/ windows[w].surface = NONE
            \/ windows[w].surface \in Surfaces
    /\ blocks \in Nat /\ failures \in 0 .. MaxFailures
    /\ window_list \in Seq(DOMAIN windows)
    /\ focused_window \in ToSet(window_list) \cup {NONE}
    /\ active_workspace \in 1 .. 4 /\ mode \in Modes
    /\ putc \in [at : {"idle", "next", "wrap", "draw", "advance"}, x : Nat, left : 0 .. MaxText]
    /\ i \in 1 .. Len(Requested) + 1
    /\ s_last_char \in Keys \cup {NONE} /\ c \in Keys \cup {NONE}
    /\ keys \in 0 .. MaxKeys /\ unseen \in BOOLEAN

Right(r) == r.x + r.w
Bottom(r) == r.y + r.h

Apart(r, s) ==
    \/ Right(r) + Gap <= s.x \/ Right(s) + Gap <= r.x
    \/ Bottom(r) + Gap <= s.y \/ Bottom(s) + Gap <= r.y

Within(r, s) == r.x >= s.x /\ r.y >= s.y /\ Right(r) <= Right(s) /\ Bottom(r) <= Bottom(s)

LaidOut == pc \notin {"create", "banner", "print", "clear", "layout"}

Place(n) == windows[Shown[n]].rect

(***************************************************************************)
(* Whatever windows there are and in whatever order modes, workspaces and  *)
(* focus were cycled, the frame's windows stay within what dock and island *)
(* leave; tiled ones keep the gap between them, and master and stack reach *)
(* the area's edges (layout.c:42-96).                                      *)
(***************************************************************************)
TilesScreen ==
    LaidOut =>
        /\ \A n \in DOMAIN Shown : Within(Place(n), Area)
        /\ mode \in {MasterStack, Grid} =>
             \A m, n \in DOMAIN Shown : m # n => Apart(Place(m), Place(n))
        /\ mode = MasterStack /\ Shown # <<>> =>
             /\ Bottom(Place(1)) = Bottom(Area)
             /\ Bottom(Place(Len(Shown))) = Bottom(Area)
             /\ Right(Place(Len(Shown))) = Right(Area)

(* The blocks of a window and its surface. *)
Held(w) == IF w \in DOMAIN windows THEN 1 + BlocksOf(windows[w].surface) ELSE 0

(* A surface has the size of its window's inside, and its application's    *)
(* picture if it has pixels at all.                                        *)
SurfaceFits(w) ==
    LET surface == windows[w].surface
    IN  surface = NONE \/
          /\ ~Stale(surface, windows[w].rect)
          /\ surface.painted = surface.pixels

(***************************************************************************)
(* Of the surfaces that every change of mode throws away and asks for anew *)
(* none is lost and none is kept at another size than its window's, though *)
(* any request may be refused (window.c:46-51).                            *)
(***************************************************************************)
SurfacesKept ==
    /\ blocks = Held(1) + Held(2) + Held(3)
    /\ LaidOut => \A n \in DOMAIN Shown : SurfaceFits(Shown[n])

(***************************************************************************)
(* No glyph of the loop's reaches past the screen, wherever the handler's  *)
(* printing falls into fb_putc and whether or not the cursor is read again *)
(* (fb.c:91-96): the margin of 40 pixels has room for what the handler's   *)
(* glyphs push it.                                                         *)
(***************************************************************************)
GlyphsOnScreen ==
    putc.at = "draw" => \A x \in Columns : x + GlyphWidth <= ScreenW

(* What should be on the screen, the focused window on top. *)
Stacking ==
    SelectSeq(window_list, LAMBDA w : w # focused_window)
        \o (IF focused_window = NONE THEN <<>> ELSE <<focused_window>>)

Frame ==
    [n \in DOMAIN SelectSeq(Stacking, Visible) |-> Drawn(Stacking[n])]
        \o <<Dock, Island, POINTER>>

(***************************************************************************)
(* When keys are no longer struck the screen comes to show the desktop as  *)
(* it is, with every window once, at its place and with the focused one on *)
(* top, and none of the text that handler and shell left.  Not so when the *)
(* last keystroke fell between reading and clearing the slot: its echo     *)
(* stays (entry.c:268-280, ps2_kbd.c:34-35).                               *)
(***************************************************************************)
DesktopReturns == <>[](unseen \/ front = Frame)

Whole(buffer) ==
    LET painted == SelectSeq(buffer, LAMBDA layer : layer # TEXT)
    IN  painted = <<>> \/ Last(painted) = POINTER

(***************************************************************************)
(* docs/ARCHITECTURE.md:86: a dedicated backbuffer prevents tearing.  What *)
(* the screen shows is never half a frame.                                 *)
(***************************************************************************)
NoTornFrame == Whole(front)
==============================================================================
