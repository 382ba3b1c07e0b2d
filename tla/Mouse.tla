-------------------------------- MODULE Mouse --------------------------------
(***************************************************************************)
(* The mouse (src/kernel/src/drivers/ps2_mouse.c) from the controller it   *)
(* shares with the keyboard to the loop of kmain that copies the pointer's *)
(* position (boot/entry.c:263-266).                                        *)
(*                                                                         *)
(* Keyboard and mouse share one port that holds one byte.  At boot         *)
(* ps2_mouse_init polls that port with interrupts off, while the           *)
(* controllers latch the interrupts of the bytes it takes.  From sti on    *)
(* both handlers read the port: the mouse's looks whose the byte is, the   *)
(* keyboard's (drivers/ps2_kbd.c:19) does not.                             *)
(*                                                                         *)
(* The port, the devices and the moves are the environment.  A reply may   *)
(* come too late: mouse_wait gives up and whatever the port held last is   *)
(* read.  What the keyboard's handler does with its byte is in Input.      *)
(***************************************************************************)
EXTENDS Interrupts, Sequences, SequencesExt, FiniteSetsExt

CONSTANTS
    ScreenW, ScreenH,
    Moves,          \* what the user may do: [dx, dy, buttons]
    Scancodes,      \* what the keyboard may send
    FirmwareConfig, \* the controller's configuration byte at boot
    MaxMoves,       \* bound: how often the mouse is moved
    MaxKeys         \* bound: how many bytes the keyboard sends

ACK == 250          \* the mouse's reply to a command

ASSUME MouseAssumption ==
    /\ ScreenW \in Nat \ {0} /\ ScreenH \in Nat \ {0}
    /\ Moves \subseteq [dx : -256 .. 255, dy : -256 .. 255, buttons : 0 .. 7]
    /\ Scancodes \subseteq 0 .. 255
    /\ FirmwareConfig \in 0 .. 255
    /\ MaxMoves \in Nat /\ MaxKeys \in Nat

VARIABLES
    port,           \* the last byte put into the port, whose, and whether unread
    queued,         \* per device: the bytes it has still to send
    config,         \* the controller's configuration byte
    s_mouse_bytes,  \* the first s_mouse_cycle bytes of a packet
    s_mouse_state,
    pc,             \* where kmain is
    seen,           \* the compositor's mouse_x and mouse_y
    todo,           \* ghost: the moves whose packets have not been decoded
    stray,          \* ghost: a byte was taken by a reader it was not for
    moves, keys     \* ghosts: how many there were

device_vars == <<queued, todo, moves, keys>>
driver_vars == <<s_mouse_bytes, s_mouse_state>>
vars == <<interrupt_vars, device_vars, driver_vars, port, config, pc, seen, stray>>

Devices == {"ctl", "kbd", "aux"}
KEYBOARD == 1
MOUSE == 12
TIMER == 0

Bit(byte, b) == (byte \div 2 ^ b) % 2 = 1

(* ps2_mouse_init up to command 0x20, which asks for the configuration. *)
Init ==
    /\ InterruptsInit
    /\ port = [from |-> "kbd", byte |-> 0, full |-> FALSE]
    /\ queued = [d \in Devices |-> IF d = "ctl" THEN <<FirmwareConfig>> ELSE <<>>]
    /\ config = FirmwareConfig
    /\ s_mouse_bytes = <<>>
    /\ s_mouse_state = [x |-> ScreenW \div 2, y |-> ScreenH \div 2, buttons |-> 0]
    /\ pc = "config"
    /\ seen = <<ScreenW \div 2, ScreenH \div 2>>
    /\ todo = <<>>
    /\ stray = FALSE
    /\ moves = 0 /\ keys = 0

-----------------------------------------------------------------------------
(* The devices.  A packet: flags with the signs, then the low bytes. *)
Encode(m) ==
    <<8 + m.buttons + (IF m.dx < 0 THEN 16 ELSE 0) + (IF m.dy < 0 THEN 32 ELSE 0),
      m.dx % 256, m.dy % 256>>

Streaming == pc \notin {"config", "defaults"}

MoveMouse(m) ==
    /\ Streaming
    /\ moves < MaxMoves
    /\ moves' = moves + 1
    /\ todo' = Append(todo, m)
    /\ queued' = [queued EXCEPT !["aux"] = @ \o Encode(m)]
    /\ UNCHANGED <<interrupt_vars, driver_vars, port, config, pc, seen, stray, keys>>

StrikeKey(scancode) ==
    /\ keys < MaxKeys
    /\ keys' = keys + 1
    /\ queued' = [queued EXCEPT !["kbd"] = Append(@, scancode)]
    /\ UNCHANGED <<interrupt_vars, driver_vars, port, config, pc, seen, todo, stray, moves>>

Line(d) == IF d = "aux" THEN MOUSE ELSE KEYBOARD

Enabled(d) == Bit(config, IF d = "aux" THEN 1 ELSE 0)

(* The controller puts a device's next byte into the empty port. *)
Load(d) ==
    /\ ~port.full
    /\ queued[d] # <<>>
    /\ port' = [from |-> d, byte |-> Head(queued[d]), full |-> TRUE]
    /\ queued' = [queued EXCEPT ![d] = Tail(@)]
    /\ irr' = IF Enabled(d) THEN irr \cup {Line(d)} ELSE irr
    /\ UNCHANGED <<isr, handling, driver_vars, config, pc, seen, todo, stray, moves, keys>>

-----------------------------------------------------------------------------
(* mouse_wait and a read of the port; nobody is awaited for ever. *)
Taken(wanted) ==
    /\ port' = [port EXCEPT !.full = FALSE]
    /\ stray' = (stray \/ ~port.full \/ port.from # wanted)

Reply(byte) == queued' = [queued EXCEPT !["aux"] = Append(@, byte)]

Polled == UNCHANGED <<interrupt_vars, driver_vars, seen, todo, moves, keys>>

SetBit1(byte) == IF Bit(byte, 1) THEN byte ELSE byte + 2

(* The configuration goes back with the mouse's interrupt enabled, and the *)
(* mouse is told to take its defaults ...                                  *)
InitConfig ==
    /\ pc = "config"
    /\ Taken("ctl")
    /\ config' = SetBit1(port.byte)
    /\ Reply(ACK)
    /\ pc' = "defaults"
    /\ Polled

(* ... and, when it has answered, to send packets. *)
InitDefaults ==
    /\ pc = "defaults"
    /\ Taken("aux")
    /\ Reply(ACK)
    /\ pc' = "stream"
    /\ UNCHANGED config
    /\ Polled

InitStream ==
    /\ pc = "stream"
    /\ Taken("aux")
    /\ pc' = "sti"
    /\ UNCHANGED <<config, queued>>
    /\ Polled

Booting == pc \in {"config", "defaults", "stream", "sti"}
Boot == InitConfig \/ InitDefaults \/ InitStream

-----------------------------------------------------------------------------
Signed(byte, negative) == IF negative THEN byte - 256 ELSE byte

(* A slip: deltas are never negative. *)
Unsigned(byte, negative) == byte

(* A slip: the pointer may stand one pixel past the edge. *)
ClampLate(v, bound) == IF v < 0 THEN 0 ELSE IF v > bound THEN bound ELSE v

Clamp(v, bound) == IF v < 0 THEN 0 ELSE IF v >= bound THEN bound - 1 ELSE v

Delta(flags, byte, b) == Signed(byte, Bit(flags, b))

Decode(flags, bx, by) ==
    [x |-> Clamp(s_mouse_state.x + Delta(flags, bx, 4), ScreenW),
     y |-> Clamp(s_mouse_state.y - Delta(flags, by, 5), ScreenH),
     buttons |-> flags % 8]

Woken == IF pc = "asleep" THEN "copy" ELSE pc

(* A slip: the handler does not ask whose the byte is. *)
AnyByte == TRUE

(* The status register says there is a byte, and that it is the mouse's. *)
MouseByte == port.full /\ port.from = "aux"

(* The third byte completes a packet. *)
Accept(byte) ==
    IF Len(s_mouse_bytes) = 2
    THEN /\ s_mouse_state' = Decode(s_mouse_bytes[1], s_mouse_bytes[2], byte)
         /\ s_mouse_bytes' = <<>>
         /\ todo' = IF todo = <<>> THEN <<>> ELSE Tail(todo)
    ELSE /\ s_mouse_bytes' = Append(s_mouse_bytes, byte)
         /\ UNCHANGED <<s_mouse_state, todo>>

Delivered(n) ==
    /\ ~Booting
    /\ Enter(n)
    /\ irr' = irr \ {n}
    /\ pc' = Woken

(* mouse_callback *)
MouseIrq ==
    /\ Delivered(MOUSE)
    /\ IF MouseByte
       THEN /\ port' = [port EXCEPT !.full = FALSE]
            /\ Accept(port.byte)
       ELSE UNCHANGED <<port, driver_vars, todo>>
    /\ UNCHANGED <<queued, config, seen, stray, moves, keys>>

(* keyboard_callback: it takes the byte whosever it is; from an empty port *)
(* it reads the last byte again.                                           *)
KeyboardIrq ==
    /\ Delivered(KEYBOARD)
    /\ port' = [port EXCEPT !.full = FALSE]
    /\ stray' = (stray \/ (port.full /\ port.from # "kbd"))
    /\ UNCHANGED <<device_vars, driver_vars, config, seen>>

TimerIrq ==
    /\ Delivered(TIMER)
    /\ UNCHANGED <<device_vars, driver_vars, port, config, seen, stray>>

(* A slip: keyboard_callback reads on as long as there is something. *)
ReturnDraining ==
    /\ Leave
    /\ port' = [port EXCEPT !.full = (@ /\ handling # KEYBOARD)]
    /\ stray' = (stray \/ (handling = KEYBOARD /\ port.full /\ port.from = "aux"))
    /\ UNCHANGED <<irr, device_vars, driver_vars, config, pc, seen>>

Return ==
    /\ Leave
    /\ UNCHANGED <<irr, device_vars, driver_vars, port, config, pc, seen, stray>>

Handlers == MouseIrq \/ KeyboardIrq \/ TimerIrq \/ Return

(* A thousand times a second; of interest when the loop sleeps. *)
Tick ==
    /\ pc = "asleep"
    /\ TIMER \notin irr
    /\ irr' = irr \cup {TIMER}
    /\ UNCHANGED <<isr, handling, device_vars, driver_vars, port, config, pc, seen, stray>>

-----------------------------------------------------------------------------
(* The loop runs while no handler does. *)
Step(from, to) ==
    /\ handling = NONE
    /\ pc = from
    /\ pc' = to
    /\ UNCHANGED <<interrupt_vars, device_vars, driver_vars, port, config, stray>>

Sti == Step("sti", "copy") /\ UNCHANGED seen

(* ps2_mouse_get_state and compositor_set_mouse: both coordinates are in   *)
(* the one word the copy loads first; the buttons follow and nobody looks. *)
CopyMouse == Step("copy", "halt") /\ seen' = <<s_mouse_state.x, s_mouse_state.y>>

Halt == Step("halt", "asleep") /\ UNCHANGED seen

Loop == Sti \/ CopyMouse \/ Halt

Next ==
    \/ \E m \in Moves : MoveMouse(m)
    \/ \E scancode \in Scancodes : StrikeKey(scancode)
    \/ \E d \in Devices : Load(d)
    \/ Boot \/ Handlers \/ Tick \/ Loop

(***************************************************************************)
(* The devices send what they have, the processor runs and the timer       *)
(* ticks; the user need do nothing.  A tick may be pending each time the   *)
(* processor looks, but a millisecond is long enough to deliver more than  *)
(* the timer's line: hence the strong fairness of the others.              *)
(***************************************************************************)
Spec ==
    /\ Init /\ [][Next]_vars
    /\ \A d \in Devices : WF_vars(Load(d))
    /\ WF_vars(Boot) /\ WF_vars(Handlers) /\ WF_vars(Tick) /\ WF_vars(Loop)
    /\ SF_vars(KeyboardIrq) /\ SF_vars(MouseIrq)

-----------------------------------------------------------------------------
(***************************************************************************)
(* The pointer never leaves the screen, whatever bytes arrive in whatever  *)
(* order (ps2_mouse.c:61-64), and no more than two bytes wait for a third. *)
(***************************************************************************)
TypeOK ==
    /\ irr \subseteq {TIMER, KEYBOARD, MOUSE}
    /\ isr \subseteq {TIMER, KEYBOARD, Cascade, MOUSE}
    /\ handling \in {NONE, TIMER, KEYBOARD, MOUSE}
    /\ port \in [from : Devices, byte : 0 .. 255, full : BOOLEAN]
    /\ queued \in [Devices -> Seq(0 .. 255)]
    /\ config \in 0 .. 255
    /\ s_mouse_bytes \in Seq(0 .. 255) /\ Len(s_mouse_bytes) <= 2
    /\ s_mouse_state \in [x : 0 .. ScreenW - 1, y : 0 .. ScreenH - 1, buttons : 0 .. 7]
    /\ pc \in {"config", "defaults", "stream", "sti", "copy", "halt", "asleep"}
    /\ seen \in (0 .. ScreenW - 1) \X (0 .. ScreenH - 1)
    /\ todo \in Seq(Moves)
    /\ stray \in BOOLEAN
    /\ moves \in 0 .. MaxMoves /\ keys \in 0 .. MaxKeys

Nearest(v, bound) == Max({0, Min({v, bound - 1})})

Moved(state, m) ==
    [x |-> Nearest(state.x + m.dx, ScreenW), y |-> Nearest(state.y - m.dy, ScreenH),
     buttons |-> m.buttons]

(***************************************************************************)
(* As long as every byte reached the reader it was for, the pointer does   *)
(* what the mouse did: move after move, none skipped, none twice, none put *)
(* together from the bytes of two (ps2_mouse.c:42-64).                     *)
(***************************************************************************)
FollowsMouse ==
    [][ stray' \/ UNCHANGED s_mouse_state
        \/ /\ todo # <<>>
           /\ s_mouse_state' = Moved(s_mouse_state, Head(todo)) ]_vars

(* No interrupt is pending whose byte is gone. *)
Settled ==
    /\ ~Booting
    /\ \A n \in irr \cap {KEYBOARD, MOUSE} :
         port.full /\ (port.from = "aux" <=> n = MOUSE)

(***************************************************************************)
(* Bytes go astray only through what boot left behind: once no interrupt   *)
(* latched by then is pending, every byte reaches its reader although      *)
(* keyboard_callback does not ask whose it is (ps2_kbd.c:19).              *)
(***************************************************************************)
OnlyBootMisroutes == [][(Settled /\ ~stray) => (Settled' /\ ~stray')]_vars

(***************************************************************************)
(* When the mouse rests, the compositor learns where it came to rest, if   *)
(* no byte went astray: every interrupt is delivered, acknowledged at both *)
(* controllers, and ends the hlt (ps2_mouse.c:96, pic.c:12-15).            *)
(***************************************************************************)
PointerCatchesUp ==
    <>[](stray \/ (todo = <<>> /\ seen = <<s_mouse_state.x, s_mouse_state.y>>))
==============================================================================
