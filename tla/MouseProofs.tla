----------------------------- MODULE MouseProofs -----------------------------
(***************************************************************************)
(* For every screen, every configuration of the controller, and any number *)
(* of moves and keystrokes: the pointer stays on the screen whatever bytes *)
(* come, once the interrupts that boot left behind are served no byte goes *)
(* astray, and as long as none did the pointer takes the moves of the      *)
(* mouse one by one.  The second needs to know that the controller's own   *)
(* byte is in the port once, before boot reads it, and never again; the    *)
(* third, which bytes of which moves are on their way (OnTheWay).          *)
(***************************************************************************)
EXTENDS Mouse, SequenceTheorems, TLAPS

Byte == 0 .. 255

(* Unless a byte went astray, the controller's answer is read at its time. *)
AnswerRead ==
    ~stray =>
        IF pc = "config"
        THEN IF port.full /\ port.from = "ctl"
             THEN queued["ctl"] = <<>> ELSE Len(queued["ctl"]) = 1
        ELSE queued["ctl"] = <<>> /\ ~(port.full /\ port.from = "ctl")

IInv == TypeOK /\ AnswerRead

-----------------------------------------------------------------------------
(* Arithmetic of bytes. *)
LEMMA BitOne == ASSUME NEW b \in Byte PROVE SetBit1(b) \in Byte
<1>1. 2 ^ 1 = 2
  BY SMT
<1> QED
  BY <1>1, SMT DEF SetBit1, Bit, Byte

LEMMA EncodeBytes ==
    ASSUME NEW m \in Moves
    PROVE  Encode(m) \in Seq(Byte)
<1>1. m.dx \in Int /\ m.dy \in Int /\ m.buttons \in 0 .. 7
  BY MouseAssumption
<1>2. m.dx % 256 \in Byte /\ m.dy % 256 \in Byte
  BY <1>1, SMT DEF Byte
<1>3. 8 + m.buttons + (IF m.dx < 0 THEN 16 ELSE 0) + (IF m.dy < 0 THEN 32 ELSE 0) \in Byte
  BY <1>1, SMT DEF Byte
<1> QED
  BY <1>2, <1>3 DEF Encode

LEMMA OneElement ==
    ASSUME NEW q \in Seq(Byte), Len(q) = 1
    PROVE  Tail(q) = <<>>
<1>1. Tail(q) \in Seq(Byte) /\ Len(Tail(q)) = 0
  BY SMT
<1> QED
  BY <1>1, EmptySeq

LEMMA DeltaInt == ASSUME NEW f \in Byte, NEW b \in Byte, NEW k PROVE Delta(f, b, k) \in Int
  BY SMT DEF Delta, Signed, Byte

LEMMA ClampOnScreen ==
    ASSUME NEW v \in Int, NEW bound \in Nat \ {0}
    PROVE  Clamp(v, bound) \in 0 .. bound - 1
  BY SMT DEF Clamp

Position == [x : 0 .. ScreenW - 1, y : 0 .. ScreenH - 1, buttons : 0 .. 7]

LEMMA DecodeOnScreen ==
    ASSUME s_mouse_state \in Position, NEW f \in Byte, NEW bx \in Byte, NEW by \in Byte
    PROVE  Decode(f, bx, by) \in Position
<1>1. ScreenW \in Nat \ {0} /\ ScreenH \in Nat \ {0}
  BY MouseAssumption
<1>2. s_mouse_state.x \in Int /\ s_mouse_state.y \in Int
  BY <1>1, SMT DEF Position
<1>3. Delta(f, bx, 4) \in Int /\ Delta(f, by, 5) \in Int
  BY DeltaInt
<1>4. /\ s_mouse_state.x + Delta(f, bx, 4) \in Int
      /\ s_mouse_state.y - Delta(f, by, 5) \in Int
  BY <1>2, <1>3, SMT
<1>5. Clamp(s_mouse_state.x + Delta(f, bx, 4), ScreenW) \in 0 .. ScreenW - 1
  BY <1>1, <1>4, ClampOnScreen
<1>6. Clamp(s_mouse_state.y - Delta(f, by, 5), ScreenH) \in 0 .. ScreenH - 1
  BY <1>1, <1>4, ClampOnScreen
<1>7. f % 8 \in 0 .. 7
  BY SMT DEF Byte
<1> QED
  BY <1>5, <1>6, <1>7, Zenon DEF Decode, Position

-----------------------------------------------------------------------------
(* What no operation looks into. *)
LinesOK ==
    /\ irr \subseteq {TIMER, KEYBOARD, MOUSE}
    /\ isr \subseteq {TIMER, KEYBOARD, Cascade, MOUSE}
    /\ handling \in {NONE, TIMER, KEYBOARD, MOUSE}

PortOK ==
    /\ port \in [from : Devices, byte : Byte, full : BOOLEAN]
    /\ queued \in [Devices -> Seq(Byte)]
    /\ config \in Byte

DriverOK ==
    /\ s_mouse_bytes \in Seq(Byte) /\ Len(s_mouse_bytes) <= 2
    /\ s_mouse_state \in Position
    /\ todo \in Seq(Moves)

LoopOK ==
    /\ pc \in {"config", "defaults", "stream", "sti", "copy", "halt", "asleep"}
    /\ seen \in (0 .. ScreenW - 1) \X (0 .. ScreenH - 1)

GhostsOK == stray \in BOOLEAN /\ moves \in 0 .. MaxMoves /\ keys \in 0 .. MaxKeys

LEMMA TypeParts == TypeOK <=> LinesOK /\ PortOK /\ DriverOK /\ LoopOK /\ GhostsOK
  BY Zenon DEF TypeOK, LinesOK, PortOK, DriverOK, LoopOK, GhostsOK, Position, Byte

LEMMA TypePartsNext ==
    (LinesOK /\ PortOK /\ DriverOK /\ LoopOK /\ GhostsOK)' => TypeOK'
  BY Zenon DEF TypeOK, LinesOK, PortOK, DriverOK, LoopOK, GhostsOK, Position, Byte

LEMMA InitOK == Init => IInv
<1> SUFFICES ASSUME Init PROVE IInv
  OBVIOUS
<1> USE DEF Init
<1>1. LinesOK
  BY DEF InterruptsInit, LinesOK
<1>2. PortOK
  BY MouseAssumption DEF PortOK, Devices, Byte
<1>3. ScreenW \div 2 \in 0 .. ScreenW - 1 /\ ScreenH \div 2 \in 0 .. ScreenH - 1
  BY MouseAssumption, SMT
<1>4. DriverOK
  <2>1. 0 \in 0 .. 7
    BY SMT
  <2>2. s_mouse_state \in Position
    BY <1>3, <2>1, Zenon DEF Position
  <2> QED
    BY <2>2, SMT DEF DriverOK
<1>5. LoopOK
  BY <1>3, Zenon DEF LoopOK
<1>6. GhostsOK
  <2>1. moves \in 0 .. MaxMoves /\ keys \in 0 .. MaxKeys
    BY MouseAssumption, SMT
  <2> QED
    BY <2>1, Zenon DEF GhostsOK
<1>7. AnswerRead
  BY SMT DEF AnswerRead, Devices
<1> QED
  BY <1>1, <1>2, <1>4, <1>5, <1>6, <1>7, TypeParts DEF IInv

(* The environment. *)
LEMMA MoveMouseOK == ASSUME IInv, NEW m \in Moves, MoveMouse(m) PROVE IInv'
<1> USE DEF MoveMouse
<1>1. LinesOK /\ PortOK /\ DriverOK /\ LoopOK /\ GhostsOK
  BY TypeParts DEF IInv
<1>2. Encode(m) \in Seq(Byte)
  BY EncodeBytes
<1>3. "aux" \in Devices /\ queued["aux"] \o Encode(m) \in Seq(Byte)
  BY <1>1, <1>2 DEF PortOK, Devices
<1>4. PortOK'
  BY <1>1, <1>3, Zenon DEF PortOK
<1>5. DriverOK'
  <2>1. todo' \in Seq(Moves)
    BY <1>1, SMT DEF DriverOK
  <2> QED
    BY <1>1, <2>1, Zenon DEF DriverOK, driver_vars
<1>6. LinesOK' /\ LoopOK'
  BY <1>1, Zenon DEF LinesOK, LoopOK, interrupt_vars
<1>7. GhostsOK'
  BY <1>1, MouseAssumption, SMT DEF GhostsOK
<1>8. queued'["ctl"] = queued["ctl"]
  BY <1>1, Zenon DEF PortOK, Devices
<1>9. AnswerRead'
  BY <1>8, Zenon DEF IInv, AnswerRead
<1> QED
  BY <1>4, <1>5, <1>6, <1>7, <1>9, TypePartsNext DEF IInv

LEMMA StrikeKeyOK == ASSUME IInv, NEW k \in Scancodes, StrikeKey(k) PROVE IInv'
<1> USE DEF StrikeKey
<1>1. LinesOK /\ PortOK /\ DriverOK /\ LoopOK /\ GhostsOK
  BY TypeParts DEF IInv
<1>2. k \in Byte
  BY MouseAssumption DEF Byte
<1>3. "kbd" \in Devices /\ Append(queued["kbd"], k) \in Seq(Byte)
  BY <1>1, <1>2 DEF PortOK, Devices
<1>4. PortOK'
  BY <1>1, <1>3, Zenon DEF PortOK
<1>5. DriverOK' /\ LinesOK' /\ LoopOK'
  BY <1>1, Zenon DEF DriverOK, driver_vars, LinesOK, LoopOK, interrupt_vars
<1>6. GhostsOK'
  BY <1>1, MouseAssumption, SMT DEF GhostsOK
<1>7. queued'["ctl"] = queued["ctl"]
  BY <1>1, Zenon DEF PortOK, Devices
<1>8. AnswerRead'
  BY <1>7, Zenon DEF IInv, AnswerRead
<1> QED
  BY <1>4, <1>5, <1>6, <1>8, TypePartsNext DEF IInv

LEMMA LoadOK == ASSUME IInv, NEW d \in Devices, Load(d) PROVE IInv'
<1> USE DEF Load
<1>1. LinesOK /\ PortOK /\ DriverOK /\ LoopOK /\ GhostsOK
  BY TypeParts DEF IInv
<1>2. queued[d] \in Seq(Byte) /\ queued[d] # <<>>
  BY <1>1, Zenon DEF PortOK
<1>3. Head(queued[d]) \in Byte /\ Tail(queued[d]) \in Seq(Byte)
      /\ Len(Tail(queued[d])) = Len(queued[d]) - 1
  BY <1>2, SMT
<1>4. PortOK'
  BY <1>1, <1>3, Zenon DEF PortOK
<1>5. Line(d) \in {KEYBOARD, MOUSE}
  BY Zenon DEF Line
<1>6. LinesOK'
  BY <1>1, <1>5, Zenon DEF LinesOK
<1>7. DriverOK' /\ LoopOK' /\ GhostsOK'
  BY <1>1, Zenon DEF DriverOK, driver_vars, LoopOK, GhostsOK
<1>8. AnswerRead'
  <2> SUFFICES ASSUME ~stray PROVE AnswerRead'
    BY Zenon DEF AnswerRead
  <2>1. port' = [from |-> d, byte |-> Head(queued[d]), full |-> TRUE]
        /\ queued' = [queued EXCEPT ![d] = Tail(@)] /\ pc' = pc /\ ~port.full
    OBVIOUS
  <2>2. CASE d = "ctl"
    <3>1. queued["ctl"] # <<>> /\ queued["ctl"] \in Seq(Byte)
      BY <1>2, <2>2
    <3>2. pc = "config" /\ Len(queued["ctl"]) = 1
      BY <2>1, <3>1, Zenon DEF IInv, AnswerRead
    <3>3. queued'["ctl"] = Tail(queued["ctl"])
      BY <1>1, <2>1, <2>2, Zenon DEF PortOK
    <3>4. Tail(queued["ctl"]) = <<>>
      BY <3>1, <3>2, OneElement
    <3>5. port'.full /\ port'.from = "ctl" /\ pc' = "config"
      BY <2>1, <2>2, <3>2
    <3> QED
      BY <3>3, <3>4, <3>5, Zenon DEF AnswerRead
  <2>3. CASE d # "ctl"
    <3>1. queued'["ctl"] = queued["ctl"]
      BY <1>1, <2>1, <2>3, Zenon DEF PortOK, Devices
    <3>2. port'.from = d
      BY <2>1
    <3> QED
      BY <2>1, <2>3, <3>1, <3>2, Zenon DEF IInv, AnswerRead
  <2> QED
    BY <2>2, <2>3
<1> QED
  BY <1>4, <1>6, <1>7, <1>8, TypePartsNext DEF IInv

-----------------------------------------------------------------------------
(* A read of the port leaves it empty. *)
LEMMA TakenOK ==
    ASSUME PortOK, port' = [port EXCEPT !.full = FALSE]
    PROVE  port' \in [from : Devices, byte : Byte, full : BOOLEAN] /\ ~port'.full
  BY Zenon DEF PortOK

LEMMA ReplyOK ==
    ASSUME PortOK, Reply(ACK)
    PROVE  queued' \in [Devices -> Seq(Byte)] /\ queued'["ctl"] = queued["ctl"]
<1>1. "aux" \in Devices /\ Append(queued["aux"], ACK) \in Seq(Byte)
  BY DEF PortOK, Devices, ACK, Byte
<1> QED
  BY <1>1, Zenon DEF PortOK, Reply, Devices

LEMMA PolledOK ==
    ASSUME IInv, Polled, stray' \in BOOLEAN
    PROVE  LinesOK' /\ DriverOK' /\ GhostsOK' /\ seen' = seen
<1>1. LinesOK /\ DriverOK /\ GhostsOK
  BY TypeParts DEF IInv
<1> QED
  BY <1>1, Zenon DEF Polled, LinesOK, DriverOK, GhostsOK, interrupt_vars, driver_vars

(* The controller's answer is read: from here on its line is quiet. *)
LEMMA BootOK == ASSUME IInv, Boot PROVE IInv'
<1>1. PortOK /\ LoopOK /\ GhostsOK
  BY TypeParts DEF IInv
<1>2. ASSUME NEW d \in Devices, Taken(d) PROVE stray' \in BOOLEAN
  BY <1>2, Zenon DEF Taken
<1>3. CASE InitConfig
  <2> USE <1>3 DEF InitConfig
  <2>1. port' \in [from : Devices, byte : Byte, full : BOOLEAN] /\ ~port'.full
    BY <1>1, TakenOK DEF Taken
  <2>2. config' \in Byte
    BY <1>1, BitOne DEF PortOK
  <2>3. queued' \in [Devices -> Seq(Byte)] /\ queued'["ctl"] = queued["ctl"]
    BY <1>1, ReplyOK
  <2>4. stray' \in BOOLEAN
    BY <1>2 DEF Devices
  <2>5. LinesOK' /\ DriverOK' /\ GhostsOK' /\ seen' = seen
    BY <2>4, PolledOK
  <2>6. AnswerRead'
    BY <2>1, <2>3, Zenon DEF IInv, AnswerRead, Taken
  <2> QED
    BY <1>1, <2>1, <2>2, <2>3, <2>5, <2>6, TypePartsNext DEF IInv, PortOK, LoopOK
<1>4. CASE InitDefaults
  <2> USE <1>4 DEF InitDefaults
  <2>1. port' \in [from : Devices, byte : Byte, full : BOOLEAN] /\ ~port'.full
    BY <1>1, TakenOK DEF Taken
  <2>3. queued' \in [Devices -> Seq(Byte)] /\ queued'["ctl"] = queued["ctl"]
    BY <1>1, ReplyOK
  <2>4. stray' \in BOOLEAN
    BY <1>2 DEF Devices
  <2>5. LinesOK' /\ DriverOK' /\ GhostsOK' /\ seen' = seen
    BY <2>4, PolledOK
  <2>6. AnswerRead'
    BY <2>1, <2>3, Zenon DEF IInv, AnswerRead, Taken
  <2> QED
    BY <1>1, <2>1, <2>3, <2>5, <2>6, TypePartsNext DEF IInv, PortOK, LoopOK
<1>5. CASE InitStream
  <2> USE <1>5 DEF InitStream
  <2>1. port' \in [from : Devices, byte : Byte, full : BOOLEAN] /\ ~port'.full
    BY <1>1, TakenOK DEF Taken
  <2>4. stray' \in BOOLEAN
    BY <1>2 DEF Devices
  <2>5. LinesOK' /\ DriverOK' /\ GhostsOK' /\ seen' = seen
    BY <2>4, PolledOK
  <2>6. AnswerRead'
    BY <2>1, Zenon DEF IInv, AnswerRead, Taken
  <2> QED
    BY <1>1, <2>1, <2>5, <2>6, TypePartsNext DEF IInv, PortOK, LoopOK
<1> QED
  BY <1>3, <1>4, <1>5 DEF Boot

-----------------------------------------------------------------------------
(* The gate and iretq. *)
LEMMA DeliveredOK ==
    ASSUME IInv, NEW n \in {TIMER, KEYBOARD, MOUSE}, Delivered(n), UNCHANGED seen
    PROVE  LinesOK' /\ LoopOK' /\ pc # "config" /\ pc' # "config"
<1>1. LinesOK /\ LoopOK
  BY TypeParts DEF IInv
<1>2. LinesOK'
  BY <1>1, Zenon DEF Delivered, Enter, LinesOK
<1>3. pc # "config" /\ pc' \in {"copy", pc}
  BY Zenon DEF Delivered, Booting, Woken
<1> QED
  BY <1>1, <1>2, <1>3 DEF LoopOK

(* While the configuration is not being read, an empty port keeps the answer read. *)
LEMMA AnswerStaysRead ==
    ASSUME IInv, pc # "config", pc' # "config", UNCHANGED queued,
           ~stray' => ~stray, ~port'.full \/ UNCHANGED port
    PROVE  AnswerRead'
  BY Zenon DEF IInv, AnswerRead

LEMMA AcceptOK ==
    ASSUME DriverOK, NEW byte \in Byte, Accept(byte)
    PROVE  DriverOK'
<1>1. CASE Len(s_mouse_bytes) = 2
  <2>1. s_mouse_bytes[1] \in Byte /\ s_mouse_bytes[2] \in Byte
    BY <1>1, SMTT(30) DEF DriverOK
  <2>2. Decode(s_mouse_bytes[1], s_mouse_bytes[2], byte) \in Position
    BY <2>1, DecodeOnScreen DEF DriverOK
  <2>3. todo' \in Seq(Moves)
    BY <1>1, SMT DEF Accept, DriverOK
  <2>4. s_mouse_bytes' \in Seq(Byte) /\ Len(s_mouse_bytes') <= 2
    BY <1>1, EmptySeq, SMT DEF Accept
  <2> QED
    BY <1>1, <2>2, <2>3, <2>4, Zenon DEF Accept, DriverOK
<1>2. CASE Len(s_mouse_bytes) # 2
  <2>1. s_mouse_bytes' = Append(s_mouse_bytes, byte) /\ UNCHANGED <<s_mouse_state, todo>>
    BY <1>2, Zenon DEF Accept
  <2>2. s_mouse_bytes \in Seq(Byte) /\ Len(s_mouse_bytes) <= 2
    BY DEF DriverOK
  <2>3. Len(s_mouse_bytes) \in Nat
    BY <2>2, LenProperties
  <2>4. \A n \in Nat : n <= 2 /\ n # 2 => n + 1 <= 2
    BY SMT
  <2>5. s_mouse_bytes' \in Seq(Byte) /\ Len(s_mouse_bytes') <= 2
    <3>1. /\ Append(s_mouse_bytes, byte) \in Seq(Byte)
          /\ Len(Append(s_mouse_bytes, byte)) = Len(s_mouse_bytes) + 1
      BY <2>2, AppendProperties
    <3>2. Len(s_mouse_bytes) + 1 <= 2
      BY <1>2, <2>2, <2>3, <2>4
    <3> QED
      BY <2>1, <3>1, <3>2
  <2> QED
    BY <2>1, <2>5, Zenon DEF DriverOK
<1> QED
  BY <1>1, <1>2

LEMMA HandlersOK == ASSUME IInv, Handlers PROVE IInv'
<1>1. LinesOK /\ PortOK /\ DriverOK /\ LoopOK /\ GhostsOK
  BY TypeParts DEF IInv
<1>2. CASE MouseIrq
  <2> USE <1>2 DEF MouseIrq
  <2>1. LinesOK' /\ LoopOK' /\ pc # "config" /\ pc' # "config"
    BY DeliveredOK
  <2>2. PortOK' /\ (~port'.full \/ UNCHANGED port)
    BY <1>1, TakenOK, Zenon DEF PortOK
  <2>3. DriverOK'
    <3>1. CASE MouseByte
      BY <1>1, <3>1, AcceptOK DEF PortOK
    <3>2. CASE ~MouseByte
      BY <1>1, <3>2, Zenon DEF DriverOK, driver_vars
    <3> QED
      BY <3>1, <3>2
  <2>4. GhostsOK'
    BY <1>1, Zenon DEF GhostsOK
  <2>5. AnswerRead'
    BY <2>1, <2>2, AnswerStaysRead
  <2> QED
    BY <2>1, <2>2, <2>3, <2>4, <2>5, TypePartsNext DEF IInv
<1>3. CASE KeyboardIrq
  <2> USE <1>3 DEF KeyboardIrq
  <2>1. LinesOK' /\ LoopOK' /\ pc # "config" /\ pc' # "config"
    BY DeliveredOK
  <2>2. PortOK' /\ ~port'.full
    BY <1>1, TakenOK, Zenon DEF PortOK, device_vars
  <2>3. DriverOK' /\ GhostsOK'
    BY <1>1, Zenon DEF DriverOK, GhostsOK, driver_vars, device_vars
  <2>4. AnswerRead'
    BY <2>1, <2>2, AnswerStaysRead, Zenon DEF device_vars
  <2> QED
    BY <2>1, <2>2, <2>3, <2>4, TypePartsNext DEF IInv
<1>4. CASE TimerIrq
  <2> USE <1>4 DEF TimerIrq
  <2>1. LinesOK' /\ LoopOK' /\ pc # "config" /\ pc' # "config"
    BY DeliveredOK
  <2>2. PortOK' /\ DriverOK' /\ GhostsOK'
    BY <1>1, Zenon DEF PortOK, DriverOK, GhostsOK, driver_vars, device_vars
  <2>3. AnswerRead'
    BY <2>1, AnswerStaysRead, Zenon DEF device_vars
  <2> QED
    BY <2>1, <2>2, <2>3, TypePartsNext DEF IInv
<1>5. CASE Return
  <2> USE <1>5 DEF Return
  <2>1. LinesOK'
    BY <1>1, Zenon DEF Leave, SendEoi, Retire, LinesOK
  <2>2. PortOK' /\ DriverOK' /\ LoopOK' /\ GhostsOK'
    BY <1>1, Zenon DEF PortOK, DriverOK, LoopOK, GhostsOK, driver_vars, device_vars
  <2>3. AnswerRead'
    BY Zenon DEF IInv, AnswerRead, device_vars
  <2> QED
    BY <2>1, <2>2, <2>3, TypePartsNext DEF IInv
<1> QED
  BY <1>2, <1>3, <1>4, <1>5 DEF Handlers

LEMMA TickOK == ASSUME IInv, Tick PROVE IInv'
<1> USE DEF Tick
<1>1. LinesOK /\ PortOK /\ DriverOK /\ LoopOK /\ GhostsOK
  BY TypeParts DEF IInv
<1>2. LinesOK' /\ PortOK' /\ DriverOK' /\ LoopOK' /\ GhostsOK'
  BY <1>1, Zenon DEF LinesOK, PortOK, DriverOK, LoopOK, GhostsOK, driver_vars, device_vars
<1>3. AnswerRead'
  BY Zenon DEF IInv, AnswerRead, device_vars
<1> QED
  BY <1>2, <1>3, TypePartsNext DEF IInv

(* The loop copies what the driver keeps on the screen. *)
LEMMA LoopStepOK == ASSUME IInv, Loop PROVE IInv'
<1>1. LinesOK /\ PortOK /\ DriverOK /\ LoopOK /\ GhostsOK
  BY TypeParts DEF IInv
<1>2. /\ UNCHANGED <<interrupt_vars, device_vars, driver_vars, port, config, stray>>
      /\ pc # "config" /\ pc' \in {"copy", "halt", "asleep"}
  BY DEF Loop, Sti, CopyMouse, Halt, Step
<1>3. seen' \in (0 .. ScreenW - 1) \X (0 .. ScreenH - 1)
  <2>1. s_mouse_state.x \in 0 .. ScreenW - 1 /\ s_mouse_state.y \in 0 .. ScreenH - 1
    BY <1>1, Zenon DEF DriverOK, Position
  <2>2. seen' = seen \/ seen' = <<s_mouse_state.x, s_mouse_state.y>>
    BY Zenon DEF Loop, Sti, CopyMouse, Halt
  <2> QED
    BY <1>1, <2>1, <2>2 DEF LoopOK
<1>4. LoopOK'
  BY <1>2, <1>3, Zenon DEF LoopOK
<1>5. LinesOK' /\ PortOK' /\ DriverOK' /\ GhostsOK'
  BY <1>1, <1>2, Zenon DEF LinesOK, PortOK, DriverOK, GhostsOK,
     interrupt_vars, driver_vars, device_vars
<1>6. AnswerRead'
  BY <1>2, Zenon DEF IInv, AnswerRead, device_vars
<1> QED
  BY <1>4, <1>5, <1>6, TypePartsNext DEF IInv

LEMMA StutterOK == ASSUME IInv, UNCHANGED vars PROVE IInv'
<1>1. LinesOK /\ PortOK /\ DriverOK /\ LoopOK /\ GhostsOK
  BY TypeParts DEF IInv
<1>2. /\ UNCHANGED <<irr, isr, handling, port, queued, config, s_mouse_bytes, s_mouse_state>>
      /\ UNCHANGED <<pc, seen, todo, stray, moves, keys>>
  BY Zenon DEF vars, interrupt_vars, device_vars, driver_vars
<1>3. LinesOK' /\ PortOK' /\ DriverOK' /\ LoopOK' /\ GhostsOK'
  BY <1>1, <1>2, Zenon DEF LinesOK, PortOK, DriverOK, LoopOK, GhostsOK
<1>4. AnswerRead'
  BY <1>2, Zenon DEF IInv, AnswerRead
<1> QED
  BY <1>3, <1>4, TypePartsNext DEF IInv

LEMMA StepOK == IInv /\ [Next]_vars => IInv'
<1> SUFFICES ASSUME IInv, [Next]_vars PROVE IInv'
  OBVIOUS
<1> QED
  BY MoveMouseOK, StrikeKeyOK, LoadOK, BootOK, HandlersOK, TickOK, LoopStepOK, StutterOK, Zenon
     DEF Next

LEMMA InvariantHolds == Spec => []IInv
<1> QED
  BY InitOK, StepOK, PTL DEF Spec

(***************************************************************************)
(* The pointer never leaves the screen, whatever bytes arrive in whatever  *)
(* order, and no more than two wait for a third (ps2_mouse.c:42-64).       *)
(***************************************************************************)
THEOREM TypeCorrect == Spec => []TypeOK
<1>1. IInv => TypeOK
  BY DEF IInv
<1> QED
  BY <1>1, InvariantHolds, PTL

-----------------------------------------------------------------------------
(* Reads that take a byte for the reader it is for. *)
LEMMA LoadSettled ==
    ASSUME IInv, NEW d \in Devices, Load(d), Settled, ~stray
    PROVE  Settled' /\ ~stray'
<1> USE DEF Load
<1>1. queued["ctl"] = <<>>
  BY Zenon DEF IInv, AnswerRead, Settled, Booting
<1>2. d # "ctl"
  BY <1>1
<1>3. port'.full /\ port'.from = d
  OBVIOUS
<1>4. irr \cap {KEYBOARD, MOUSE} = {}
  BY Zenon DEF Settled
<1>5. irr' \cap {KEYBOARD, MOUSE} \subseteq {Line(d)}
  BY <1>4, Zenon
<1>6. d = "aux" <=> Line(d) = MOUSE
  BY SMT DEF Line, KEYBOARD, MOUSE
<1>7. ~Booting'
  BY Zenon DEF Settled, Booting
<1> QED
  BY <1>3, <1>5, <1>6, <1>7, Zenon DEF Settled

(* A handler that found its own byte leaves the port empty and no other line pending. *)
LEMMA HandledSettled ==
    ASSUME Settled, NEW n \in {KEYBOARD, MOUSE}, Delivered(n), ~port'.full
    PROVE  Settled' /\ port.full /\ (port.from = "aux" <=> n = MOUSE)
<1>1. n \in irr /\ irr' = irr \ {n}
  BY Zenon DEF Delivered, Enter, Deliverable
<1>2. port.full /\ (port.from = "aux" <=> n = MOUSE)
  BY <1>1, Zenon DEF Settled
<1>3. \A k \in irr \cap {KEYBOARD, MOUSE} : k = n
  <2>1. \A k \in irr \cap {KEYBOARD, MOUSE} : k = MOUSE <=> n = MOUSE
    BY <1>2, Zenon DEF Settled
  <2> QED
    BY <2>1
<1>4. irr' \cap {KEYBOARD, MOUSE} = {}
  BY <1>1, <1>3, Zenon
<1>5. ~Booting'
  BY Zenon DEF Delivered, Booting, Woken
<1> QED
  BY <1>2, <1>4, <1>5, Zenon DEF Settled

LEMMA HandlersSettled ==
    ASSUME IInv, Handlers, Settled, ~stray
    PROVE  Settled' /\ ~stray'
<1>0. MOUSE # KEYBOARD /\ TIMER \notin {MOUSE, KEYBOARD}
  BY DEF MOUSE, KEYBOARD, TIMER
<1>1. PortOK
  BY TypeParts DEF IInv
<1>2. CASE MouseIrq
  <2> USE <1>2 DEF MouseIrq
  <2>1. MOUSE \in irr
    BY Zenon DEF Delivered, Enter, Deliverable
  <2>2. MouseByte
    BY <2>1, Zenon DEF Settled, MouseByte
  <2>3. ~port'.full
    BY <1>1, <2>2, TakenOK
  <2> QED
    BY <2>3, HandledSettled
<1>3. CASE KeyboardIrq
  <2> USE <1>3 DEF KeyboardIrq
  <2>1. ~port'.full
    BY <1>1, TakenOK
  <2>2. Settled' /\ port.full /\ port.from # "aux"
    BY <1>0, <2>1, HandledSettled
  <2>3. port.from = "kbd"
    BY <1>1, <2>2 DEF IInv, AnswerRead, PortOK, Devices, Settled, Booting
  <2> QED
    BY <2>2, <2>3
<1>4. CASE TimerIrq
  <2> USE <1>4 DEF TimerIrq
  <2>1. irr' \subseteq irr /\ ~Booting'
    BY Zenon DEF Delivered, Booting, Woken
  <2> QED
    BY <2>1, Zenon DEF Settled
<1>5. CASE Return
  BY <1>5, Zenon DEF Return, Settled, Booting
<1> QED
  BY <1>2, <1>3, <1>4, <1>5 DEF Handlers

(* What neither touches the port nor raises the line of a device. *)
LEMMA OthersSettled ==
    ASSUME Settled, ~stray, UNCHANGED <<port, stray>>, irr' \subseteq irr \cup {TIMER},
           ~Booting'
    PROVE  Settled' /\ ~stray'
<1>1. irr' \cap {KEYBOARD, MOUSE} \subseteq irr \cap {KEYBOARD, MOUSE}
  BY DEF KEYBOARD, MOUSE, TIMER
<1> QED
  BY <1>1, Zenon DEF Settled

LEMMA StepSettled ==
    ASSUME IInv, [Next]_vars, Settled, ~stray
    PROVE  Settled' /\ ~stray'
<1>0. pc \notin {"config", "defaults", "stream", "sti"}
  BY Zenon DEF Settled, Booting
<1>1. ASSUME NEW m \in Moves, MoveMouse(m) PROVE Settled' /\ ~stray'
  BY <1>1, OthersSettled, Zenon DEF MoveMouse, interrupt_vars, Settled, Booting
<1>2. ASSUME NEW k \in Scancodes, StrikeKey(k) PROVE Settled' /\ ~stray'
  BY <1>2, OthersSettled, Zenon DEF StrikeKey, interrupt_vars, Settled, Booting
<1>3. ASSUME Boot PROVE FALSE
  BY <1>0, <1>3, Zenon DEF Boot, InitConfig, InitDefaults, InitStream
<1>4. CASE Tick
  BY <1>4, OthersSettled, Zenon DEF Tick, Settled, Booting
<1>5. CASE Loop
  <2>1. pc' \in {"copy", "halt", "asleep"} /\ UNCHANGED <<irr, port, stray>>
    BY <1>5 DEF Loop, Sti, CopyMouse, Halt, Step, interrupt_vars
  <2>2. ~Booting'
    BY <2>1 DEF Booting
  <2> QED
    BY <2>1, <2>2, OthersSettled
<1>6. CASE UNCHANGED vars
  BY <1>6, OthersSettled, Zenon DEF vars, interrupt_vars, Settled, Booting
<1> QED
  BY <1>1, <1>2, <1>3, <1>4, <1>5, <1>6, LoadSettled, HandlersSettled, Zenon DEF Next

(***************************************************************************)
(* Bytes go astray only through what boot left behind: once no interrupt   *)
(* latched by then is pending, every byte reaches its reader, although     *)
(* keyboard_callback does not ask whose it is (ps2_kbd.c:19).              *)
(***************************************************************************)
THEOREM OnlyBootMisroutesCorrect == Spec => OnlyBootMisroutes
<1>1. IInv /\ [Next]_vars => [(Settled /\ ~stray) => (Settled' /\ ~stray')]_vars
  BY StepSettled
<1> QED
  BY <1>1, InvariantHolds, PTL DEF Spec, OnlyBootMisroutes

-----------------------------------------------------------------------------
(***************************************************************************)
(* The bytes of the mouse on their way to the pointer: those the handler   *)
(* keeps, the one in the port and those the mouse has still to send.  They *)
(* are the packets of the moves to be decoded, behind the answer to a      *)
(* command of boot's if one was given.                                     *)
(***************************************************************************)
Flow(b, h, q) == (b \o h) \o q

Packets(c, a, t) ==
    /\ Len(c) = a + 3 * Len(t)
    /\ \A k \in 1 .. Len(t) : \A j \in 1 .. 3 : c[a + 3 * (k - 1) + j] = Encode(t[k])[j]

Held == IF port.full /\ port.from = "aux" THEN <<port.byte>> ELSE <<>>

Coming == Flow(s_mouse_bytes, Held, queued["aux"])

Answers == IF pc \in {"defaults", "stream"} THEN 1 ELSE 0

OnTheWay ==
    ~stray =>
        /\ Packets(Coming, Answers, todo)
        /\ Booting => s_mouse_bytes = <<>>
        /\ pc \in {"config", "defaults"} => todo = <<>>

LEMMA FlowIs ==
    ASSUME NEW b \in Seq(Byte), NEW h \in Seq(Byte), NEW q \in Seq(Byte)
    PROVE  /\ Flow(b, h, q) \in Seq(Byte)
           /\ Len(Flow(b, h, q)) = Len(b) + Len(h) + Len(q)
           /\ Len(b) \in Nat /\ Len(h) \in Nat /\ Len(q) \in Nat
           /\ \A n \in 1 .. Len(b) + Len(h) + Len(q) :
                Flow(b, h, q)[n] = IF n <= Len(b) THEN b[n]
                                   ELSE IF n <= Len(b) + Len(h) THEN h[n - Len(b)]
                                   ELSE q[n - Len(b) - Len(h)]
<1> DEFINE d == b \o h
<1>1. Len(b) \in Nat /\ Len(h) \in Nat /\ Len(q) \in Nat
  BY LenProperties
<1>2. /\ d \in Seq(Byte) /\ Len(d) = Len(b) + Len(h)
      /\ \A n \in 1 .. Len(b) + Len(h) : d[n] = IF n <= Len(b) THEN b[n] ELSE h[n - Len(b)]
  BY ConcatProperties
<1>3. /\ d \o q \in Seq(Byte) /\ Len(d \o q) = Len(d) + Len(q)
      /\ \A n \in 1 .. Len(d) + Len(q) : (d \o q)[n] = IF n <= Len(d) THEN d[n] ELSE q[n - Len(d)]
  BY <1>2, ConcatProperties
<1>4. Flow(b, h, q) = d \o q
  BY DEF Flow
<1> HIDE DEF d
<1>5. ASSUME NEW n \in 1 .. Len(b) + Len(h) + Len(q)
      PROVE  (d \o q)[n] = IF n <= Len(b) THEN b[n]
                           ELSE IF n <= Len(b) + Len(h) THEN h[n - Len(b)]
                           ELSE q[n - Len(b) - Len(h)]
  <2>1. n \in 1 .. Len(d) + Len(q)
    BY <1>1, <1>2
  <2>2. (d \o q)[n] = IF n <= Len(d) THEN d[n] ELSE q[n - Len(d)]
    BY <1>3, <2>1
  <2>3. CASE n <= Len(d)
    <3>1. n \in 1 .. Len(b) + Len(h) /\ n \in Int
      BY <1>1, <1>2, <2>3
    <3>2. d[n] = IF n <= Len(b) THEN b[n] ELSE h[n - Len(b)]
      BY <1>2, <3>1
    <3>3. n <= Len(b) + Len(h)
      BY <1>2, <2>3
    <3>4. n <= Len(b) => (d \o q)[n] = b[n]
      BY <2>2, <2>3, <3>2
    <3>5. ~(n <= Len(b)) => (d \o q)[n] = h[n - Len(b)]
      BY <2>2, <2>3, <3>2
    <3> QED
      BY <3>3, <3>4, <3>5, Zenon
  <2>4. CASE ~(n <= Len(d))
    <3>1. ~(n <= Len(b)) /\ ~(n <= Len(b) + Len(h)) /\ n - Len(d) = n - Len(b) - Len(h)
      BY <1>1, <1>2, <2>4
    <3> QED
      BY <2>2, <2>4, <3>1
  <2> QED
    BY <2>3, <2>4
<1> QED
  BY <1>1, <1>2, <1>3, <1>4, <1>5

(* How many bytes there are before those the mouse has still to send. *)
Before(b, h, n) == n \in Nat /\ n = Len(b) + Len(h)

Consists(f, b, h, q, n) ==
    /\ Len(f) = Len(q) + n
    /\ \A i \in 1 .. Len(q) : f[i + n] = q[i]
    /\ \A i \in 1 .. Len(b) : f[i] = b[i]
    /\ \A i \in 1 .. Len(h) : f[Len(b) + i] = h[i]

LEMMA FlowParts ==
    ASSUME NEW b \in Seq(Byte), NEW h \in Seq(Byte), NEW q \in Seq(Byte), NEW n, Before(b, h, n)
    PROVE  Consists(Flow(b, h, q), b, h, q, n)
<1> DEFINE f == Flow(b, h, q)
<1>0. n \in Nat /\ n = Len(b) + Len(h)
  BY DEF Before
<1>1. /\ Len(f) = Len(b) + Len(h) + Len(q)
      /\ Len(b) \in Nat /\ Len(h) \in Nat /\ Len(q) \in Nat
      /\ \A i \in 1 .. Len(b) + Len(h) + Len(q) :
           f[i] = IF i <= Len(b) THEN b[i]
                  ELSE IF i <= Len(b) + Len(h) THEN h[i - Len(b)] ELSE q[i - Len(b) - Len(h)]
  BY FlowIs
<1> HIDE DEF f
<1>2. ASSUME NEW i \in 1 .. Len(q) PROVE f[i + n] = q[i]
  <2> DEFINE k == i + n
  <2>1. /\ k \in 1 .. Len(b) + Len(h) + Len(q) /\ ~(k <= Len(b)) /\ ~(k <= Len(b) + Len(h))
        /\ k - Len(b) - Len(h) = i
    BY <1>0, <1>1
  <2> HIDE DEF k
  <2>2. f[k] = q[k - Len(b) - Len(h)]
    BY <1>1, <2>1
  <2> QED
    BY <2>1, <2>2 DEF k
<1>3. ASSUME NEW i \in 1 .. Len(h) PROVE f[Len(b) + i] = h[i]
  <2> DEFINE k == Len(b) + i
  <2>1. /\ k \in 1 .. Len(b) + Len(h) + Len(q) /\ ~(k <= Len(b)) /\ k <= Len(b) + Len(h)
        /\ k - Len(b) = i
    BY <1>0, <1>1
  <2> HIDE DEF k
  <2>2. f[k] = h[k - Len(b)]
    BY <1>1, <2>1
  <2> QED
    BY <2>1, <2>2 DEF k
<1>4. ASSUME NEW i \in 1 .. Len(b) PROVE f[i] = b[i]
  BY <1>1
<1>5. Len(f) = Len(q) + n
  BY <1>0, <1>1
<1> QED
  BY <1>2, <1>3, <1>4, <1>5 DEF f, Consists

(* The port takes a byte from the mouse, and the handler takes it from there. *)
LEMMA FlowLoaded ==
    ASSUME NEW b \in Seq(Byte), NEW q \in Seq(Byte), q # <<>>
    PROVE  Flow(b, <<Head(q)>>, Tail(q)) = Flow(b, <<>>, q)
<1>1. /\ Head(q) \in Byte /\ Tail(q) \in Seq(Byte) /\ q = <<Head(q)>> \o Tail(q)
      /\ <<Head(q)>> \in Seq(Byte)
  <2>1. Head(q) \in Byte /\ Tail(q) \in Seq(Byte) /\ q = <<Head(q)>> \o Tail(q)
    BY HeadTailProperties, SMT
  <2> QED
    BY <2>1
<1>2. (b \o <<Head(q)>>) \o Tail(q) = b \o (<<Head(q)>> \o Tail(q))
  BY <1>1, ConcatAssociative
<1>3. b \o <<>> = b
  BY ConcatEmptySeq
<1> QED
  BY <1>1, <1>2, <1>3 DEF Flow

LEMMA FlowTaken ==
    ASSUME NEW b \in Seq(Byte), NEW q \in Seq(Byte), NEW x \in Byte
    PROVE  Flow(Append(b, x), <<>>, q) = Flow(b, <<x>>, q)
<1>1. Append(b, x) \in Seq(Byte) /\ Append(b, x) = b \o <<x>>
  BY AppendProperties, AppendIsConcat
<1>2. Append(b, x) \o <<>> = Append(b, x)
  BY <1>1, ConcatEmptySeq
<1> QED
  BY <1>1, <1>2 DEF Flow

(* A sequence, and another after it. *)
Extended(f, c, e) ==
    /\ Len(f) = Len(c) + Len(e)
    /\ \A i \in 1 .. Len(c) + Len(e) : f[i] = IF i <= Len(c) THEN c[i] ELSE e[i - Len(c)]

LEMMA FlowMore ==
    ASSUME NEW b \in Seq(Byte), NEW h \in Seq(Byte), NEW q \in Seq(Byte), NEW r \in Seq(Byte),
           NEW e \in Seq(Byte), Extended(r, q, e)
    PROVE  Extended(Flow(b, h, r), Flow(b, h, q), e)
<1> DEFINE c == Flow(b, h, q)  f == Flow(b, h, r)
<1>1. /\ Len(c) = Len(b) + Len(h) + Len(q)
      /\ \A i \in 1 .. Len(b) + Len(h) + Len(q) :
           c[i] = IF i <= Len(b) THEN b[i]
                  ELSE IF i <= Len(b) + Len(h) THEN h[i - Len(b)] ELSE q[i - Len(b) - Len(h)]
  BY FlowIs
<1>2. /\ Len(f) = Len(b) + Len(h) + Len(r)
      /\ \A i \in 1 .. Len(b) + Len(h) + Len(r) :
           f[i] = IF i <= Len(b) THEN b[i]
                  ELSE IF i <= Len(b) + Len(h) THEN h[i - Len(b)] ELSE r[i - Len(b) - Len(h)]
  BY FlowIs
<1>3. /\ Len(b) \in Nat /\ Len(h) \in Nat /\ Len(q) \in Nat /\ Len(e) \in Nat
      /\ Len(r) = Len(q) + Len(e)
      /\ \A i \in 1 .. Len(q) + Len(e) : r[i] = IF i <= Len(q) THEN q[i] ELSE e[i - Len(q)]
  BY LenProperties DEF Extended
<1> HIDE DEF c, f
<1>4. Len(f) = Len(c) + Len(e)
  BY <1>1, <1>2, <1>3
<1>5. ASSUME NEW i \in 1 .. Len(c) + Len(e)
      PROVE  f[i] = IF i <= Len(c) THEN c[i] ELSE e[i - Len(c)]
  <2>1. CASE i <= Len(b) + Len(h)
    <3>1. i <= Len(c) /\ i \in 1 .. Len(b) + Len(h) + Len(q) /\ i \in 1 .. Len(b) + Len(h) + Len(r)
      BY <1>1, <1>3, <2>1
    <3>2. f[i] = c[i]
      BY <1>1, <1>2, <2>1, <3>1
    <3> QED
      BY <3>1, <3>2
  <2>2. CASE ~(i <= Len(b) + Len(h))
    <3> DEFINE k == i - Len(b) - Len(h)
    <3>1. k \in 1 .. Len(q) + Len(e) /\ ~(i <= Len(b)) /\ i \in 1 .. Len(b) + Len(h) + Len(r)
      BY <1>1, <1>3, <2>2
    <3>2. f[i] = r[k]
      BY <1>2, <2>2, <3>1
    <3>3. i <= Len(c) <=> k <= Len(q)
      BY <1>1, <1>3
    <3>4. k - Len(q) = i - Len(c)
      BY <1>1, <1>3
    <3>5. i <= Len(c) => c[i] = q[k]
      BY <1>1, <1>3, <2>2, <3>1
    <3> HIDE DEF k
    <3>6. r[k] = IF k <= Len(q) THEN q[k] ELSE e[k - Len(q)]
      BY <1>3, <3>1
    <3> QED
      BY <3>2, <3>3, <3>4, <3>5, <3>6, Zenon
  <2> QED
    BY <2>1, <2>2
<1> QED
  BY <1>4, <1>5 DEF Extended, c, f

LEMMA MoreBytes ==
    ASSUME NEW t \in Seq(Moves), NEW m \in Moves, NEW c \in Seq(Byte), NEW a \in {0, 1},
           Packets(c, a, t), NEW f, Extended(f, c, Encode(m))
    PROVE  Packets(f, a, Append(t, m))
<1> DEFINE e == Encode(m)  u == Append(t, m)  n == Len(t)
<1>1. e \in Seq(Byte) /\ Len(e) = 3
  <2>1. Len(Encode(m)) = 3
    BY DEF Encode
  <2> QED
    BY <2>1, EncodeBytes
<1>2. /\ n \in Nat /\ Len(u) = n + 1 /\ u[n + 1] = m
      /\ \A k \in 1 .. n : u[k] = t[k]
  BY AppendProperties, LenProperties
<1>3. Len(c) = a + 3 * n /\ \A k \in 1 .. n : \A j \in 1 .. 3 : c[a + 3 * (k - 1) + j] = Encode(t[k])[j]
  BY DEF Packets
<1> HIDE DEF e, u
<1>4. /\ Len(f) = Len(c) + 3
      /\ \A i \in 1 .. Len(c) + 3 : f[i] = IF i <= Len(c) THEN c[i] ELSE e[i - Len(c)]
  BY <1>1 DEF Extended, e
<1> HIDE DEF n
<1>5. Len(f) = a + 3 * Len(u)
  BY <1>2, <1>3, <1>4
<1>6. ASSUME NEW k \in 1 .. Len(u), NEW j \in 1 .. 3
      PROVE  f[a + 3 * (k - 1) + j] = Encode(u[k])[j]
  <2> DEFINE i == a + 3 * (k - 1) + j
  <2>1. CASE k <= n
    <3>1. k \in 1 .. n /\ i \in 1 .. Len(c) + 3 /\ i <= Len(c)
      BY <1>2, <1>3, <2>1
    <3>2. c[i] = Encode(t[k])[j] /\ u[k] = t[k]
      BY <1>2, <1>3, <3>1
    <3> HIDE DEF i
    <3>3. f[i] = c[i]
      BY <1>4, <3>1
    <3> QED
      BY <3>2, <3>3 DEF i
  <2>2. CASE ~(k <= n)
    <3>1. k = n + 1 /\ i = Len(c) + j /\ j \in Int /\ Len(c) \in Nat
      BY <1>2, <1>3, <2>2
    <3>2. u[k] = m
      BY <1>2, <3>1
    <3> HIDE DEF i
    <3>3. i \in 1 .. Len(c) + 3 /\ ~(i <= Len(c)) /\ i - Len(c) = j
      BY <3>1
    <3>4. f[i] = e[j]
      BY <1>4, <3>3
    <3> QED
      BY <3>2, <3>4 DEF i, e
  <2> QED
    BY <2>1, <2>2
<1> QED
  BY <1>5, <1>6 DEF Packets, e, u

(* The answer is taken, or the first packet. *)
LEMMA FewerBytes ==
    ASSUME NEW c, NEW d, NEW t \in Seq(Moves), Packets(c, 1, t),
           Len(c) \in Nat, Len(d) = Len(c) - 1, \A i \in 1 .. Len(d) : d[i] = c[i + 1]
    PROVE  Packets(d, 0, t)
<1>1. Len(t) \in Nat
  BY LenProperties
<1>2. Len(d) = 0 + 3 * Len(t)
  BY <1>1 DEF Packets
<1>3. ASSUME NEW k \in 1 .. Len(t), NEW j \in 1 .. 3
      PROVE  d[0 + 3 * (k - 1) + j] = Encode(t[k])[j]
  <2> DEFINE i == 0 + 3 * (k - 1) + j
  <2>1. i \in 1 .. Len(d) /\ i + 1 = 1 + 3 * (k - 1) + j
    BY <1>1, <1>2
  <2>2. c[1 + 3 * (k - 1) + j] = Encode(t[k])[j]
    BY DEF Packets
  <2> HIDE DEF i
  <2>3. d[i] = c[i + 1]
    BY <2>1
  <2> QED
    BY <2>1, <2>2, <2>3 DEF i
<1> QED
  BY <1>2, <1>3 DEF Packets

LEMMA PacketTaken ==
    ASSUME NEW c, NEW d, NEW t \in Seq(Moves), Packets(c, 0, t),
           Len(c) \in Nat, Len(c) >= 1,
           Len(d) = Len(c) - 3, \A i \in 1 .. Len(d) : d[i] = c[i + 3]
    PROVE  /\ t # <<>> /\ Head(t) \in Moves
           /\ \A j \in 1 .. 3 : c[j] = Encode(Head(t))[j]
           /\ Packets(d, 0, Tail(t))
<1>1. Len(t) \in Nat /\ Len(c) = 3 * Len(t)
  BY LenProperties DEF Packets
<1>2. Len(t) >= 1 /\ t # <<>>
  <2>1. Len(t) >= 1
    BY <1>1
  <2> QED
    BY <2>1
<1> DEFINE u == Tail(t)
<1>3. /\ Head(t) \in Moves /\ u \in Seq(Moves) /\ Len(u) = Len(t) - 1
      /\ \A k \in 1 .. Len(u) : u[k] = t[k + 1]
  BY <1>2, HeadTailProperties
<1>4. Head(t) = t[1]
  BY <1>2
<1> HIDE DEF u
<1>5. ASSUME NEW j \in 1 .. 3 PROVE c[j] = Encode(Head(t))[j]
  <2>1. 1 \in 1 .. Len(t) /\ 0 + 3 * (1 - 1) + j = j
    BY <1>1, <1>2
  <2>2. c[0 + 3 * (1 - 1) + j] = Encode(t[1])[j]
    BY <2>1, Zenon DEF Packets
  <2> QED
    BY <1>4, <2>1, <2>2
<1>6. Len(d) = 0 + 3 * Len(u)
  BY <1>1, <1>3
<1>7. ASSUME NEW k \in 1 .. Len(u), NEW j \in 1 .. 3
      PROVE  d[0 + 3 * (k - 1) + j] = Encode(u[k])[j]
  <2> DEFINE i == 0 + 3 * (k - 1) + j
  <2>1. i \in 1 .. Len(d) /\ i + 3 = 0 + 3 * ((k + 1) - 1) + j /\ k + 1 \in 1 .. Len(t)
    BY <1>1, <1>3, <1>6
  <2>2. c[0 + 3 * ((k + 1) - 1) + j] = Encode(t[k + 1])[j]
    BY <2>1, Zenon DEF Packets
  <2> HIDE DEF i
  <2>3. d[i] = c[i + 3]
    BY <2>1
  <2> QED
    BY <1>3, <2>1, <2>2, <2>3 DEF i
<1> QED
  BY <1>2, <1>3, <1>5, <1>6, <1>7 DEF Packets, u

(* What the driver makes of the packet of a move is the move. *)
LEMMA ClampIsNearest ==
    ASSUME NEW v \in Int, NEW bound \in Nat \ {0}
    PROVE  Clamp(v, bound) = Nearest(v, bound)
<1> DEFINE w == IF v <= bound - 1 THEN v ELSE bound - 1
<1>1. Min({v, bound - 1}) = w
  <2>1. w \in {v, bound - 1} /\ \A y \in {v, bound - 1} : w <= y
    OBVIOUS
  <2>2. \A x \in {v, bound - 1} : (\A y \in {v, bound - 1} : x <= y) => x = w
    OBVIOUS
  <2> HIDE DEF w
  <2> QED
    BY <2>1, <2>2, Zenon DEF Min
<1> DEFINE z == IF w <= 0 THEN 0 ELSE w
<1>2. Max({0, w}) = z
  <2>0. w \in Int
    OBVIOUS
  <2> HIDE DEF w
  <2>1. z \in {0, w} /\ \A y \in {0, w} : z >= y
    BY <2>0
  <2>2. \A x \in {0, w} : (\A y \in {0, w} : x >= y) => x = z
    BY <2>0
  <2> HIDE DEF z
  <2> QED
    BY <2>1, <2>2, Zenon DEF Max
<1>3. Clamp(v, bound) = z
  BY DEF Clamp
<1> HIDE DEF w, z
<1> QED
  BY <1>1, <1>2, <1>3 DEF Nearest

LEMMA DecodeEncoded ==
    ASSUME NEW m \in Moves, s_mouse_state \in Position
    PROVE  Decode(Encode(m)[1], Encode(m)[2], Encode(m)[3]) = Moved(s_mouse_state, m)
<1> DEFINE dx == m.dx  dy == m.dy  b == m.buttons
           flags == 8 + b + (IF dx < 0 THEN 16 ELSE 0) + (IF dy < 0 THEN 32 ELSE 0)
<1>1. dx \in -256 .. 255 /\ dy \in -256 .. 255 /\ b \in 0 .. 7
  BY MouseAssumption
<1>2. Encode(m)[1] = flags /\ Encode(m)[2] = dx % 256 /\ Encode(m)[3] = dy % 256
  BY DEF Encode
<1>3. /\ s_mouse_state.x \in Int /\ s_mouse_state.y \in Int
      /\ ScreenW \in Nat \ {0} /\ ScreenH \in Nat \ {0}
  BY MouseAssumption DEF Position
<1> HIDE DEF dx, dy, b
<1>4. 2 ^ 4 = 16 /\ 2 ^ 5 = 32
  BY SMT
<1>5. /\ (flags \div 16) % 2 = 1 <=> dx < 0
      /\ (flags \div 32) % 2 = 1 <=> dy < 0
      /\ flags % 8 = b
  BY <1>1, SMT
<1>6. Bit(flags, 4) <=> dx < 0
  BY <1>4, <1>5 DEF Bit
<1>7. Bit(flags, 5) <=> dy < 0
  BY <1>4, <1>5 DEF Bit
<1>8. (IF dx < 0 THEN (dx % 256) - 256 ELSE dx % 256) = dx
  BY <1>1
<1>9. (IF dy < 0 THEN (dy % 256) - 256 ELSE dy % 256) = dy
  BY <1>1
<1> HIDE DEF flags
<1>10. Delta(flags, dx % 256, 4) = dx /\ Delta(flags, dy % 256, 5) = dy
  BY <1>6, <1>7, <1>8, <1>9, ZenonT(40) DEF Delta, Signed
<1>11. /\ Clamp(s_mouse_state.x + dx, ScreenW) = Nearest(s_mouse_state.x + dx, ScreenW)
       /\ Clamp(s_mouse_state.y - dy, ScreenH) = Nearest(s_mouse_state.y - dy, ScreenH)
  <2>1. s_mouse_state.x + dx \in Int /\ s_mouse_state.y - dy \in Int
    BY <1>1, <1>3
  <2> QED
    BY <1>3, <2>1, ClampIsNearest
<1>12. Decode(flags, dx % 256, dy % 256) = Moved(s_mouse_state, m)
  BY <1>5, <1>10, <1>11, Zenon DEF Decode, Moved, dx, dy, b
<1> QED
  BY <1>2, <1>12, Zenon

-----------------------------------------------------------------------------
(* What is on its way through every action. *)
LEMMA PortTypes ==
    ASSUME IInv
    PROVE  /\ s_mouse_bytes \in Seq(Byte) /\ Held \in Seq(Byte) /\ queued["aux"] \in Seq(Byte)
           /\ todo \in Seq(Moves) /\ s_mouse_state \in Position
           /\ port.byte \in Byte /\ port.full \in BOOLEAN /\ stray \in BOOLEAN
           /\ Len(s_mouse_bytes) \in 0 .. 2
           /\ Answers \in {0, 1}
<1>1. PortOK /\ DriverOK /\ GhostsOK
  BY TypeParts DEF IInv
<1>2. port.byte \in Byte /\ port.full \in BOOLEAN /\ queued["aux"] \in Seq(Byte)
  BY <1>1, Zenon DEF PortOK, Devices
<1>3. <<port.byte>> \in Seq(Byte) /\ <<>> \in Seq(Byte)
  BY <1>2
<1>4. Held \in Seq(Byte)
  BY <1>3, Zenon DEF Held
<1>5. s_mouse_bytes \in Seq(Byte) /\ Len(s_mouse_bytes) <= 2 /\ todo \in Seq(Moves) /\ s_mouse_state \in Position
  BY <1>1 DEF DriverOK
<1>6. Len(s_mouse_bytes) \in Nat
  BY <1>5, LenProperties
<1>7. stray \in BOOLEAN
  BY <1>1 DEF GhostsOK
<1>8. Len(s_mouse_bytes) \in 0 .. 2
  <2>1. \A n \in Nat : n <= 2 => n \in 0 .. 2
    OBVIOUS
  <2> QED
    BY <1>5, <1>6, <2>1, Zenon
<1> QED
  BY <1>2, <1>4, <1>5, <1>7, <1>8, Zenon DEF Answers

LEMMA InitOnTheWay == Init => OnTheWay
<1> SUFFICES ASSUME Init PROVE OnTheWay
  OBVIOUS
<1>1. /\ s_mouse_bytes = <<>> /\ Held = <<>> /\ queued["aux"] = <<>>
      /\ todo = <<>> /\ Answers = 0
  BY DEF Init, Held, Answers, Devices
<1>2. Coming = <<>>
  BY <1>1 DEF Coming, Flow
<1>3. Len(Coming) = 0 /\ Len(todo) = 0
  BY <1>1, <1>2
<1>4. Packets(Coming, Answers, todo)
  BY <1>1, <1>3 DEF Packets
<1> QED
  BY <1>1, <1>4 DEF OnTheWay

(* What touches none of it. *)
LEMMA NothingMoves ==
    ASSUME OnTheWay, stray => stray', UNCHANGED <<s_mouse_bytes, todo>>,
           queued'["aux"] = queued["aux"], stray' \/ Held' = Held,
           Answers' = Answers, Booting' => Booting,
           pc' \in {"config", "defaults"} => pc \in {"config", "defaults"}
    PROVE  OnTheWay'
<1> SUFFICES ASSUME ~stray'
             PROVE  /\ Packets(Coming', Answers', todo')
                    /\ Booting' => s_mouse_bytes' = <<>>
                    /\ pc' \in {"config", "defaults"} => todo' = <<>>
  BY DEF OnTheWay
<1>1. Held' = Held /\ ~stray /\ s_mouse_bytes' = s_mouse_bytes /\ todo' = todo
  OBVIOUS
<1>2. Coming' = Coming
  BY <1>1 DEF Coming
<1> QED
  BY <1>1, <1>2, Zenon DEF OnTheWay

LEMMA MoveOnTheWay == ASSUME IInv, OnTheWay, NEW m \in Moves, MoveMouse(m) PROVE OnTheWay'
<1> SUFFICES ASSUME ~stray
             PROVE  /\ Packets(Coming', Answers', todo')
                    /\ Booting' => s_mouse_bytes' = <<>>
                    /\ pc' \in {"config", "defaults"} => todo' = <<>>
  BY DEF OnTheWay, MoveMouse
<1>1. /\ s_mouse_bytes' = s_mouse_bytes /\ port' = port /\ pc' = pc
      /\ todo' = Append(todo, m) /\ pc \notin {"config", "defaults"}
  BY Zenon DEF MoveMouse, driver_vars, Streaming
<1>2. queued'["aux"] = queued["aux"] \o Encode(m)
  <2>1. PortOK
    BY TypeParts DEF IInv
  <2> QED
    BY <2>1, Zenon DEF MoveMouse, PortOK, Devices
<1>3. Held' = Held /\ Answers' = Answers
  BY <1>1 DEF Held, Answers
<1>4. Extended(Coming', Coming, Encode(m))
  <2> DEFINE b == s_mouse_bytes  h == Held  q == queued["aux"]  r == queued'["aux"]
             e == Encode(m)
  <2>1. b \in Seq(Byte) /\ h \in Seq(Byte) /\ q \in Seq(Byte) /\ e \in Seq(Byte)
    BY PortTypes, EncodeBytes, Zenon
  <2>2. Coming = Flow(b, h, q) /\ Coming' = Flow(b, h, r)
    BY <1>1, <1>3, Zenon DEF Coming
  <2>3. r = q \o e
    BY <1>2
  <2> HIDE DEF b, h, q, r, e
  <2>4. r \in Seq(Byte) /\ Extended(r, q, e)
    BY <2>1, <2>3, ConcatProperties DEF Extended
  <2>5. Extended(Flow(b, h, r), Flow(b, h, q), e)
    BY <2>1, <2>4, FlowMore
  <2> QED
    BY <2>2, <2>5, Zenon DEF e
<1>5. Packets(Coming', Answers, Append(todo, m))
  <2>1. Coming \in Seq(Byte)
    BY PortTypes, FlowIs, Zenon DEF Coming
  <2> QED
    BY <1>4, <2>1, PortTypes, MoreBytes, Zenon DEF OnTheWay
<1> QED
  BY <1>1, <1>3, <1>5, Zenon DEF OnTheWay, Booting

LEMMA LoadOnTheWay == ASSUME IInv, OnTheWay, NEW d \in Devices, Load(d) PROVE OnTheWay'
<1>1. /\ UNCHANGED <<s_mouse_bytes, todo, pc, stray>> /\ ~port.full /\ queued[d] # <<>>
      /\ port' = [from |-> d, byte |-> Head(queued[d]), full |-> TRUE]
      /\ queued' = [queued EXCEPT ![d] = Tail(@)]
  BY Zenon DEF Load, driver_vars
<1>2. Held = <<>>
  BY <1>1 DEF Held
<1>3. Answers' = Answers /\ (Booting' <=> Booting) /\ pc' = pc
  BY <1>1 DEF Answers, Booting
<1>4. CASE d # "aux"
  <2>1. Held' = <<>> /\ queued'["aux"] = queued["aux"]
    BY <1>1, <1>4 DEF Held
  <2> QED
    BY <1>1, <1>2, <1>3, <2>1, NothingMoves
<1>5. CASE d = "aux"
  <2>1. PortOK
    BY TypeParts DEF IInv
  <2>2. Held' = <<Head(queued["aux"])>>
    BY <1>1, <1>5 DEF Held
  <2>3. queued'["aux"] = Tail(queued["aux"])
    BY <1>1, <1>5, <2>1, Zenon DEF PortOK
  <2>4. Coming' = Flow(s_mouse_bytes, <<Head(queued["aux"])>>, Tail(queued["aux"]))
    BY <1>1, <2>2, <2>3, Zenon DEF Coming
  <2>5. Coming = Flow(s_mouse_bytes, <<>>, queued["aux"])
    BY <1>2 DEF Coming
  <2>6. Coming' = Coming
    BY <1>1, <1>5, <2>4, <2>5, PortTypes, FlowLoaded, Zenon
  <2> QED
    BY <1>1, <1>3, <2>6, Zenon DEF OnTheWay
<1> QED
  BY <1>4, <1>5

(* Boot takes an answer and gives the command that is answered next. *)
LEMMA NextAnswer ==
    ASSUME NEW q \in Seq(Byte), Len(q) = 0
    PROVE  Packets(Flow(<<>>, <<>>, Append(q, ACK)), 1, <<>>)
<1>1. Append(q, ACK) \in Seq(Byte) /\ Len(Append(q, ACK)) = 1
  BY AppendProperties DEF ACK, Byte
<1>2. Len(Flow(<<>>, <<>>, Append(q, ACK))) = 1
  <2>1. <<>> \in Seq(Byte) /\ Len(<<>>) = 0
    OBVIOUS
  <2>2. Len(Flow(<<>>, <<>>, Append(q, ACK))) = Len(<<>>) + Len(<<>>) + Len(Append(q, ACK))
    BY <1>1, <2>1, FlowIs, Zenon
  <2> QED
    BY <1>1, <2>1, <2>2
<1>3. Len(<<>>) = 0
  OBVIOUS
<1> QED
  BY <1>2, <1>3 DEF Packets

LEMMA BootOnTheWay == ASSUME IInv, OnTheWay, Boot PROVE OnTheWay'
<1> SUFFICES ASSUME ~stray'
             PROVE  /\ Packets(Coming', Answers', todo')
                    /\ Booting' => s_mouse_bytes' = <<>>
                    /\ pc' \in {"config", "defaults"} => todo' = <<>>
  BY DEF OnTheWay
<1>1. /\ s_mouse_bytes' = s_mouse_bytes /\ todo' = todo
      /\ port' = [port EXCEPT !.full = FALSE] /\ ~stray /\ port.full
  BY Zenon DEF Boot, InitConfig, InitDefaults, InitStream, Polled, Taken, driver_vars
<1>2. PortOK
  BY TypeParts DEF IInv
<1>3. Held' = <<>>
  BY <1>1, <1>2, TakenOK, Zenon DEF Held
<1>4. s_mouse_bytes = <<>>
  BY <1>1, Zenon DEF OnTheWay, Booting, Boot, InitConfig, InitDefaults, InitStream
<1>5. /\ queued["aux"] \in Seq(Byte) /\ Len(queued["aux"]) \in Nat
      /\ <<port.byte>> \in Seq(Byte) /\ Len(<<port.byte>>) = 1
      /\ <<>> \in Seq(Byte) /\ Len(<<>>) = 0
  <2>1. port.byte \in Byte /\ queued["aux"] \in Seq(Byte)
    BY PortTypes
  <2> QED
    BY <2>1, LenProperties
<1>6. /\ Coming = Flow(<<>>, Held, queued["aux"])
      /\ Coming' = Flow(<<>>, <<>>, queued'["aux"])
  BY <1>1, <1>3, <1>4, Zenon DEF Coming
<1>7. CASE InitConfig
  <2>1. pc = "config" /\ pc' = "defaults" /\ port.from = "ctl" /\ Reply(ACK)
    BY <1>1, <1>7, Zenon DEF InitConfig, Taken
  <2>2. Held = <<>> /\ Answers = 0 /\ Answers' = 1 /\ todo = <<>>
    BY <1>1, <2>1 DEF Held, Answers, OnTheWay
  <2>3. Len(Coming) = 0
    BY <1>1, <1>5, <2>2 DEF OnTheWay, Packets
  <2>4. Len(queued["aux"]) = 0
    <3>1. Before(<<>>, <<>>, 0)
      BY <1>5 DEF Before
    <3>2. Consists(Flow(<<>>, <<>>, queued["aux"]), <<>>, <<>>, queued["aux"], 0)
      BY <1>5, <3>1, FlowParts, Zenon
    <3>3. Len(Coming) = Len(queued["aux"]) + 0
      BY <1>6, <2>2, <3>2, Zenon DEF Consists
    <3>4. \A n \in Nat : n + 0 = 0 => n = 0
      OBVIOUS
    <3> QED
      BY <1>5, <2>3, <3>3, <3>4, Zenon
  <2>5. queued'["aux"] = Append(queued["aux"], ACK)
    BY <1>2, <2>1, Zenon DEF Reply, PortOK, Devices
  <2>6. Packets(Coming', 1, <<>>)
    BY <1>5, <1>6, <2>4, <2>5, NextAnswer, Zenon
  <2> QED
    BY <1>1, <1>4, <2>2, <2>6, Zenon
<1>8. CASE InitDefaults
  <2>1. pc = "defaults" /\ pc' = "stream" /\ port.from = "aux" /\ Reply(ACK)
    BY <1>1, <1>8, Zenon DEF InitDefaults, Taken
  <2>2. Held = <<port.byte>> /\ Answers = 1 /\ Answers' = 1 /\ todo = <<>>
    BY <1>1, <2>1 DEF Held, Answers, OnTheWay
  <2>3. Len(Coming) = 1
    BY <1>1, <1>5, <2>2 DEF OnTheWay, Packets
  <2>4. Len(queued["aux"]) = 0
    <3>1. Before(<<>>, <<port.byte>>, 1)
      BY <1>5 DEF Before
    <3>2. Consists(Flow(<<>>, <<port.byte>>, queued["aux"]), <<>>, <<port.byte>>, queued["aux"], 1)
      BY <1>5, <3>1, FlowParts, Zenon
    <3>3. Len(Coming) = Len(queued["aux"]) + 1
      BY <1>6, <2>2, <3>2, Zenon DEF Consists
    <3>4. \A n \in Nat : n + 1 = 1 => n = 0
      OBVIOUS
    <3> QED
      BY <1>5, <2>3, <3>3, <3>4, Zenon
  <2>5. queued'["aux"] = Append(queued["aux"], ACK)
    BY <1>2, <2>1, Zenon DEF Reply, PortOK, Devices
  <2>6. Packets(Coming', 1, <<>>)
    BY <1>5, <1>6, <2>4, <2>5, NextAnswer, Zenon
  <2> QED
    BY <1>1, <1>4, <2>2, <2>6, Zenon
<1>9. CASE InitStream
  <2>1. pc = "stream" /\ pc' = "sti" /\ port.from = "aux" /\ queued' = queued
    BY <1>1, <1>9, Zenon DEF InitStream, Taken
  <2>2. Held = <<port.byte>> /\ Answers = 1 /\ Answers' = 0
    BY <1>1, <2>1 DEF Held, Answers
  <2> DEFINE c == Coming  d == Coming'  q == queued["aux"]  h == <<port.byte>>  e == <<>>
  <2>3. c = Flow(e, h, q) /\ d = Flow(e, e, q)
    BY <1>6, <2>1, <2>2, Zenon
  <2>4. /\ q \in Seq(Byte) /\ Len(q) \in Nat /\ h \in Seq(Byte) /\ Len(h) = 1
        /\ e \in Seq(Byte) /\ Len(e) = 0
    BY <1>5
  <2> HIDE DEF c, d, q, h, e
  <2>5. Len(c) = Len(q) + 1 /\ \A i \in 1 .. Len(q) : c[i + 1] = q[i]
    <3>1. Before(e, h, 1)
      BY <2>4 DEF Before
    <3>2. Consists(Flow(e, h, q), e, h, q, 1)
      BY <2>4, <3>1, FlowParts, Zenon
    <3> QED
      BY <2>3, <3>2, Zenon DEF Consists
  <2>6. Len(d) = Len(q) + 0 /\ \A i \in 1 .. Len(q) : d[i + 0] = q[i]
    <3>1. Before(e, e, 0)
      BY <2>4 DEF Before
    <3>2. Consists(Flow(e, e, q), e, e, q, 0)
      BY <2>4, <3>1, FlowParts, Zenon
    <3> QED
      BY <2>3, <3>2, Zenon DEF Consists
  <2>7. \A i \in 1 .. Len(d) : d[i] = c[i + 1]
    BY <2>4, <2>5, <2>6
  <2>8. Len(c) \in Nat /\ Len(d) = Len(c) - 1
    BY <2>4, <2>5, <2>6
  <2>9. Packets(c, 1, todo) /\ todo \in Seq(Moves)
    BY <1>1, <2>2, PortTypes, Zenon DEF OnTheWay, c
  <2>10. Packets(d, 0, todo)
    BY <2>7, <2>8, <2>9, FewerBytes, Zenon
  <2> QED
    BY <1>1, <1>4, <2>1, <2>2, <2>10 DEF d
<1> QED
  BY <1>7, <1>8, <1>9 DEF Boot

(* The mouse's handler: it keeps a byte, or it has the packet of the first move. *)
LEMMA MouseOnTheWay ==
    ASSUME IInv, OnTheWay, MouseIrq
    PROVE  /\ OnTheWay'
           /\ \/ stray' \/ UNCHANGED s_mouse_state
              \/ todo # <<>> /\ s_mouse_state' = Moved(s_mouse_state, Head(todo))
<1>1. /\ UNCHANGED <<queued, stray>> /\ ~Booting /\ ~Booting' /\ Answers = 0 /\ Answers' = 0
      /\ pc' \notin {"config", "defaults"}
  BY Zenon DEF MouseIrq, Delivered, Booting, Woken, Answers
<1>2. CASE ~MouseByte
  <2>1. UNCHANGED <<s_mouse_bytes, s_mouse_state, todo, port>>
    BY <1>2, Zenon DEF MouseIrq, driver_vars
  <2>2. Held' = Held
    BY <2>1 DEF Held
  <2> QED
    BY <1>1, <2>1, <2>2, NothingMoves
<1>3. CASE stray
  BY <1>1, <1>3 DEF OnTheWay
<1>4. CASE MouseByte /\ ~stray
  <2> DEFINE b == s_mouse_bytes  x == port.byte  q == queued["aux"]
  <2>1. /\ Accept(x) /\ port.full /\ port.from = "aux"
        /\ port' = [port EXCEPT !.full = FALSE]
    BY <1>4, Zenon DEF MouseIrq, MouseByte
  <2>2. Held' = <<>>
    <3>1. PortOK
      BY TypeParts DEF IInv
    <3> QED
      BY <2>1, <3>1, TakenOK, Zenon DEF Held
  <2>3. Held = <<x>>
    BY <2>1 DEF Held
  <2>4. /\ b \in Seq(Byte) /\ q \in Seq(Byte) /\ x \in Byte /\ Len(b) \in 0 .. 2 /\ Len(q) \in Nat
        /\ todo \in Seq(Moves) /\ s_mouse_state \in Position
    BY PortTypes, LenProperties
  <2>5. Coming = Flow(b, <<x>>, q) /\ Coming' = Flow(s_mouse_bytes', <<>>, q)
    BY <1>1, <2>2, <2>3, Zenon DEF Coming
  <2>6. Packets(Coming, 0, todo)
    BY <1>1, <1>4 DEF OnTheWay
  <2>7. CASE Len(b) # 2
    <3>1. s_mouse_bytes' = Append(b, x) /\ UNCHANGED <<s_mouse_state, todo>>
      BY <2>1, <2>7, Zenon DEF Accept
    <3>2. Coming' = Coming
      BY <2>4, <2>5, <3>1, FlowTaken, Zenon
    <3> QED
      BY <1>1, <2>6, <3>1, <3>2, Zenon DEF OnTheWay
  <2>8. CASE Len(b) = 2
    <3>1. /\ s_mouse_state' = Decode(b[1], b[2], x) /\ s_mouse_bytes' = <<>>
          /\ todo' = IF todo = <<>> THEN <<>> ELSE Tail(todo)
      BY <2>1, <2>8, Zenon DEF Accept
    <3> DEFINE c == Coming  d == Coming'  h == <<x>>  e == <<>>
    <3>2. c = Flow(b, h, q) /\ d = Flow(e, e, q)
      BY <2>5, <3>1, Zenon
    <3>3. h \in Seq(Byte) /\ Len(h) = 1 /\ e \in Seq(Byte) /\ Len(e) = 0 /\ h[1] = x
      BY <2>4
    <3> HIDE DEF c, d, h, e, b, q, x
    <3>4. /\ Len(c) = Len(q) + 3 /\ \A i \in 1 .. Len(q) : c[i + 3] = q[i]
          /\ \A i \in 1 .. Len(b) : c[i] = b[i]
          /\ \A i \in 1 .. Len(h) : c[Len(b) + i] = h[i]
      <4>1. Before(b, h, 3)
        BY <2>8, <3>3 DEF b, Before
      <4>2. Consists(Flow(b, h, q), b, h, q, 3)
        BY <2>4, <3>3, <4>1, FlowParts, Zenon
      <4> QED
        BY <3>2, <4>2, Zenon DEF Consists
    <3>5. Len(d) = Len(q) + 0 /\ \A i \in 1 .. Len(q) : d[i + 0] = q[i]
      <4>1. Before(e, e, 0)
        BY <3>3 DEF Before
      <4>2. Consists(Flow(e, e, q), e, e, q, 0)
        BY <2>4, <3>3, <4>1, FlowParts, Zenon
      <4> QED
        BY <3>2, <4>2, Zenon DEF Consists
    <3>6. /\ \A i \in 1 .. Len(d) : d[i] = c[i + 3]
          /\ Len(c) \in Nat /\ Len(c) >= 1 /\ Len(d) = Len(c) - 3
      <4>1. \A i \in 1 .. Len(d) : d[i] = c[i + 3]
        BY <2>4, <3>4, <3>5
      <4> QED
        BY <2>4, <3>4, <3>5, <4>1
    <3>7. c[1] = b[1] /\ c[2] = b[2] /\ c[3] = x
      BY <2>8, <3>3, <3>4
    <3>8. /\ todo # <<>> /\ Head(todo) \in Moves
          /\ \A j \in 1 .. 3 : c[j] = Encode(Head(todo))[j]
          /\ Packets(d, 0, Tail(todo))
      BY <2>4, <2>6, <3>6, PacketTaken, Zenon DEF c
    <3>9. c[1] = Encode(Head(todo))[1] /\ c[2] = Encode(Head(todo))[2] /\ c[3] = Encode(Head(todo))[3]
      <4>1. 1 \in 1 .. 3 /\ 2 \in 1 .. 3 /\ 3 \in 1 .. 3
        OBVIOUS
      <4> QED
        BY <3>8, <4>1, Zenon
    <3>10. s_mouse_state' = Moved(s_mouse_state, Head(todo))
      BY <2>4, <3>1, <3>7, <3>8, <3>9, DecodeEncoded, Zenon
    <3>11. OnTheWay'
      BY <1>1, <3>1, <3>8, Zenon DEF OnTheWay, d
    <3> QED
      BY <3>8, <3>10, <3>11
  <2> QED
    BY <2>7, <2>8
<1> QED
  BY <1>2, <1>3, <1>4

(* Every step: what is on its way stays so, and the pointer follows. *)
LEMMA StepFollows ==
    ASSUME IInv, OnTheWay, [Next]_vars
    PROVE  /\ OnTheWay'
           /\ \/ stray' \/ UNCHANGED s_mouse_state
              \/ todo # <<>> /\ s_mouse_state' = Moved(s_mouse_state, Head(todo))
<1>1. ASSUME NEW m \in Moves, MoveMouse(m) PROVE OnTheWay' /\ UNCHANGED s_mouse_state
  BY <1>1, MoveOnTheWay, Zenon DEF MoveMouse, driver_vars
<1>2. ASSUME NEW k \in Scancodes, StrikeKey(k) PROVE OnTheWay' /\ UNCHANGED s_mouse_state
  <2>1. UNCHANGED <<s_mouse_bytes, s_mouse_state, todo, port, pc, stray>>
    BY <1>2, Zenon DEF StrikeKey, driver_vars
  <2>2. queued'["aux"] = queued["aux"]
    <3>1. PortOK
      BY TypeParts DEF IInv
    <3> QED
      BY <1>2, <3>1, Zenon DEF StrikeKey, PortOK, Devices
  <2>3. Held' = Held /\ Answers' = Answers /\ (Booting' <=> Booting)
    BY <2>1 DEF Held, Answers, Booting
  <2> QED
    BY <2>1, <2>2, <2>3, NothingMoves
<1>3. ASSUME NEW d \in Devices, Load(d) PROVE OnTheWay' /\ UNCHANGED s_mouse_state
  BY <1>3, LoadOnTheWay, Zenon DEF Load, driver_vars
<1>4. CASE Boot
  <2>1. UNCHANGED s_mouse_state
    BY <1>4, Zenon DEF Boot, InitConfig, InitDefaults, InitStream, Polled, driver_vars
  <2> QED
    BY <1>4, <2>1, BootOnTheWay
<1>5. CASE KeyboardIrq
  <2>1. /\ UNCHANGED <<s_mouse_bytes, s_mouse_state, todo, queued>> /\ (stray => stray')
        /\ ~Booting /\ ~Booting' /\ Answers = 0 /\ Answers' = 0
        /\ pc' \notin {"config", "defaults"}
    BY <1>5, Zenon DEF KeyboardIrq, Delivered, Booting, Woken, Answers, driver_vars, device_vars
  <2>2. stray' \/ Held' = Held
    <3>1. PortOK
      BY TypeParts DEF IInv
    <3>2. ~port'.full
      BY <1>5, <3>1, TakenOK, Zenon DEF KeyboardIrq
    <3>3. Held' = <<>>
      BY <3>2 DEF Held
    <3>4. stray' \/ ~port.full \/ port.from = "kbd"
      BY <1>5, Zenon DEF KeyboardIrq
    <3>5. ~port.full \/ port.from = "kbd" => Held = <<>>
      BY DEF Held
    <3> QED
      BY <3>3, <3>4, <3>5
  <2> QED
    BY <2>1, <2>2, NothingMoves
<1>6. CASE TimerIrq \/ Return \/ Tick \/ Loop
  <2>1. UNCHANGED <<s_mouse_bytes, s_mouse_state, todo, queued, port, stray>>
    BY <1>6, Zenon DEF TimerIrq, Return, Tick, Loop, Sti, CopyMouse, Halt, Step, driver_vars, device_vars
  <2>2. /\ Held' = Held
    BY <2>1 DEF Held
  <2>3. \/ pc' = pc
        \/ pc' \in {"copy", "halt", "asleep"} /\ pc \in {"sti", "copy", "halt", "asleep"}
    BY <1>6, Zenon DEF TimerIrq, Delivered, Woken, Return, Tick, Loop, Sti, CopyMouse, Halt, Step
  <2>4. Answers' = Answers /\ (Booting' => Booting)
        /\ (pc' \in {"config", "defaults"} => pc \in {"config", "defaults"})
    BY <2>3 DEF Answers, Booting
  <2> QED
    BY <2>1, <2>2, <2>4, NothingMoves
<1>7. CASE UNCHANGED vars
  <2>1. UNCHANGED <<s_mouse_bytes, s_mouse_state, todo, queued, port, stray, pc>>
    BY <1>7, Zenon DEF vars, driver_vars, device_vars
  <2>2. Held' = Held /\ Answers' = Answers /\ (Booting' <=> Booting)
    BY <2>1 DEF Held, Answers, Booting
  <2> QED
    BY <2>1, <2>2, NothingMoves
<1> QED
  BY <1>1, <1>2, <1>3, <1>4, <1>5, <1>6, <1>7, MouseOnTheWay, Zenon DEF Next, Handlers

(***************************************************************************)
(* As long as every byte reached the reader it was for, the pointer does   *)
(* what the mouse did, for any number of moves, wherever keystrokes and    *)
(* ticks fall between their bytes (ps2_mouse.c:42-64).                     *)
(***************************************************************************)
THEOREM FollowsMouseCorrect == Spec => FollowsMouse
<1>1. Init => OnTheWay
  BY InitOnTheWay
<1>2. IInv /\ OnTheWay /\ [Next]_vars => OnTheWay'
  BY StepFollows
<1>3. IInv /\ OnTheWay /\ [Next]_vars =>
        [ stray' \/ UNCHANGED s_mouse_state
          \/ /\ todo # <<>>
             /\ s_mouse_state' = Moved(s_mouse_state, Head(todo)) ]_vars
  BY StepFollows
<1> QED
  BY <1>1, <1>2, <1>3, InvariantHolds, PTL DEF Spec, FollowsMouse
===============================================================================
