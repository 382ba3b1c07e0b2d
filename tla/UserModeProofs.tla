---------------------------- MODULE UserModeProofs ----------------------------
(***************************************************************************)
(* For every address space, any number of threads, keystrokes and calls.   *)
(*                                                                         *)
(* System calls: what each instruction of the stub finds in the registers  *)
(* and on the kernel's stack is given as a function of its number, and the *)
(* stack of the stub is never shared because ring 0 is not interrupted.    *)
(*                                                                         *)
(* Threads: the ring runs from the first thread to the newest and down to  *)
(* the first again.                                                        *)
(*                                                                         *)
(* Frames: each is used once, and the tables give vmm_map_page's promise.  *)
(***************************************************************************)
EXTENDS UserMode, SequenceTheorems, WellFoundedInduction, TLAPS

-----------------------------------------------------------------------------
(* Stacks that grow by what comes next in a list and shrink again. *)
Prefix(f, n) == [k \in 1 .. n |-> f[k]]

LEMMA PrefixSeq ==
    ASSUME NEW f, NEW n \in Nat
    PROVE  /\ Prefix(f, n) \in Seq({f[k] : k \in 1 .. n + 1})
           /\ Len(Prefix(f, n)) = n
           /\ \A k \in 1 .. n : Prefix(f, n)[k] = f[k]
<1> DEFINE S == {f[k] : k \in 1 .. n + 1}
<1>1. Prefix(f, n) \in [1 .. n -> S]
  BY SMT DEF Prefix
<1>2. Prefix(f, n) \in Seq(S)
  BY <1>1, SeqDef
<1>3. DOMAIN Prefix(f, n) = 1 .. n
  BY DEF Prefix
<1>4. Len(Prefix(f, n)) = n
  BY <1>2, <1>3, LenProperties, SMT
<1> QED
  BY <1>2, <1>4 DEF Prefix

LEMMA Grows ==
    ASSUME NEW f, NEW n \in Nat
    PROVE  Append(Prefix(f, n), f[n + 1]) = Prefix(f, n + 1)
<1> DEFINE S == {f[k] : k \in 1 .. n + 2}
           t == Append(Prefix(f, n), f[n + 1])
<1> DEFINE R == {f[k] : k \in 1 .. n + 1}
<1>1. R \subseteq S /\ f[n + 1] \in S
  BY SMT
<1>2. Prefix(f, n) \in Seq(S) /\ Len(Prefix(f, n)) = n
  <2>1. Prefix(f, n) \in Seq(R) /\ Len(Prefix(f, n)) = n
    BY PrefixSeq
  <2> HIDE DEF R, S
  <2> QED
    BY <1>1, <2>1, SeqMonotonic
<1>3. t \in Seq(S) /\ Len(t) = n + 1 /\ t[n + 1] = f[n + 1]
      /\ \A k \in 1 .. n : t[k] = f[k]
  <2> HIDE DEF S
  <2> QED
    BY <1>1, <1>2, AppendProperties DEF Prefix
<1>4. Prefix(f, n + 1) \in Seq(S) /\ Len(Prefix(f, n + 1)) = n + 1
  <2>1. n + 1 \in Nat /\ (n + 1) + 1 = n + 2
    BY SMT
  <2> QED
    BY <2>1, PrefixSeq
<1>5. \A k \in 1 .. n + 1 : t[k] = Prefix(f, n + 1)[k]
  <2> HIDE DEF t
  <2> QED
    BY <1>3, SMT DEF Prefix
<1> HIDE DEF S, t
<1>6. t = Prefix(f, n + 1)
  BY <1>3, <1>4, <1>5, SeqEqual
<1> QED
  BY <1>6 DEF t

LEMMA Shrinks ==
    ASSUME NEW f, NEW n \in Nat
    PROVE  Front(Prefix(f, n + 1)) = Prefix(f, n) /\ Last(Prefix(f, n + 1)) = f[n + 1]
<1>1. n + 1 \in Nat /\ n + 1 \in 1 .. n + 1 /\ (n + 1) - 1 = n
  BY SMT
<1>2. Len(Prefix(f, n + 1)) = n + 1
  BY <1>1, PrefixSeq
<1>3. Last(Prefix(f, n + 1)) = f[n + 1]
  BY <1>1, <1>2 DEF Last, Prefix
<1>4. Front(Prefix(f, n + 1)) = SubSeq(Prefix(f, n + 1), 1, n)
  BY <1>1, <1>2 DEF Front
<1>5. SubSeq(Prefix(f, n + 1), 1, n) = [k \in 1 .. n |-> Prefix(f, n + 1)[k]]
  BY SMT
<1>6. [k \in 1 .. n |-> Prefix(f, n + 1)[k]] = Prefix(f, n)
  BY SMT DEF Prefix
<1> QED
  BY <1>3, <1>4, <1>5, <1>6

-----------------------------------------------------------------------------
(* The stub, instruction by instruction. *)
Instructions ==
    {Prologue[n] : n \in 1 .. 11} \cup {Shuffle[n] : n \in 1 .. 8}
        \cup {Epilogue[n] : n \in 1 .. 13}

LEMMA Lengths == Len(Prologue) = 11 /\ Len(Shuffle) = 8 /\ Len(Epilogue) = 13
  BY SMT DEF Prologue, Shuffle, Epilogue

LEMMA PartsAreSequences ==
    Prologue \in Seq(Instructions) /\ Shuffle \in Seq(Instructions)
        /\ Epilogue \in Seq(Instructions)
<1>1. Prologue = [n \in 1 .. 11 |-> Prologue[n]]
  BY SMT DEF Prologue
<1>2. Shuffle = [n \in 1 .. 8 |-> Shuffle[n]]
  BY SMT DEF Shuffle
<1>3. Epilogue = [n \in 1 .. 13 |-> Epilogue[n]]
  BY SMT DEF Epilogue
<1>4. /\ Prologue \in [1 .. 11 -> Instructions] /\ Shuffle \in [1 .. 8 -> Instructions]
      /\ Epilogue \in [1 .. 13 -> Instructions]
  BY <1>1, <1>2, <1>3, Zenon DEF Instructions
<1>5. \A n \in Nat : [1 .. n -> Instructions] \subseteq Seq(Instructions)
  BY SeqDef
<1>6. 11 \in Nat /\ 8 \in Nat /\ 13 \in Nat
  BY SMT
<1> QED
  BY <1>4, <1>5, <1>6, Zenon

Then(s, t) == s \o t

IsThen(S, u, s, t) ==
    /\ u \in Seq(S) /\ Len(u) = Len(s) + Len(t)
    /\ \A n \in 1 .. Len(s) : u[n] = s[n]
    /\ \A n \in 1 .. Len(t) : u[n + Len(s)] = t[n]

LEMMA Joined ==
    ASSUME NEW S, NEW s \in Seq(S), NEW t \in Seq(S)
    PROVE  IsThen(S, Then(s, t), s, t)
<1> DEFINE st == s \o t  a == Len(s)  b == Len(t)
<1>1. /\ st \in Seq(S) /\ Len(st) = a + b
      /\ \A n \in 1 .. a + b : st[n] = IF n <= a THEN s[n] ELSE t[n - a]
  BY ConcatProperties
<1>2. a \in Nat /\ b \in Nat
  BY LenProperties
<1> HIDE DEF st, a, b
<1>3. \A n \in 1 .. a : n \in 1 .. a + b /\ n <= a
  BY <1>2, SMT
<1>4. \A n \in 1 .. b : n + a \in 1 .. a + b /\ ~(n + a <= a) /\ (n + a) - a = n
  BY <1>2, SMT
<1>5. ASSUME NEW n \in 1 .. a PROVE st[n] = s[n]
  BY <1>1, <1>3
<1>6. ASSUME NEW n \in 1 .. b PROVE st[n + a] = t[n]
  BY <1>1, <1>4
<1> QED
  BY <1>1, <1>5, <1>6, Zenon DEF st, a, b, Then, IsThen

LEMMA StubParts ==
    /\ \A n \in 1 .. 11 : Stub[n] = Prologue[n]
    /\ \A n \in 1 .. 8 : Stub[n + 11] = Shuffle[n]
    /\ \A n \in 1 .. 13 : Stub[n + 19] = Epilogue[n]
<1> DEFINE half == Then(Prologue, Shuffle)
<1>1. IsThen(Instructions, half, Prologue, Shuffle)
  BY PartsAreSequences, Joined, Zenon
<1>2. Stub = Then(half, Epilogue)
  BY DEF Stub, Then
<1> HIDE DEF half
<1>3. IsThen(Instructions, Stub, half, Epilogue)
  <2>1. half \in Seq(Instructions)
    BY <1>1 DEF IsThen
  <2> QED
    BY <1>2, <2>1, PartsAreSequences, Joined, Zenon
<1>4. 11 + 8 = 19
  BY SMT
<1>5. /\ Len(half) = 19
      /\ \A n \in 1 .. 11 : half[n] = Prologue[n]
      /\ \A n \in 1 .. 8 : half[n + 11] = Shuffle[n]
  BY <1>1, <1>4, Lengths, Zenon DEF IsThen
<1>6. /\ \A n \in 1 .. 19 : Stub[n] = half[n]
      /\ \A n \in 1 .. 13 : Stub[n + 19] = Epilogue[n]
  BY <1>3, <1>5, Lengths, Zenon DEF IsThen
<1>7. (\A n \in 1 .. 11 : n \in 1 .. 19) /\ \A n \in 1 .. 8 : n + 11 \in 1 .. 19
  BY SMT
<1> QED
  BY <1>5, <1>6, <1>7, Zenon

LEMMA ThePrologue ==
    /\ Stub[1] = Op("save rsp") /\ Stub[2] = Op("load rsp") /\ Stub[3] = Push("rbp")
    /\ Stub[4] = Push("rbx") /\ Stub[5] = Push("r12") /\ Stub[6] = Push("r13")
    /\ Stub[7] = Push("r14") /\ Stub[8] = Push("r15") /\ Stub[9] = Push("rcx")
    /\ Stub[10] = Push("r11") /\ Stub[11] = Op("push saved rsp")
<1>1. /\ Prologue[1] = Op("save rsp") /\ Prologue[2] = Op("load rsp") /\ Prologue[3] = Push("rbp")
      /\ Prologue[4] = Push("rbx") /\ Prologue[5] = Push("r12") /\ Prologue[6] = Push("r13")
      /\ Prologue[7] = Push("r14") /\ Prologue[8] = Push("r15") /\ Prologue[9] = Push("rcx")
      /\ Prologue[10] = Push("r11") /\ Prologue[11] = Op("push saved rsp")
  BY SMT DEF Prologue
<1>2. /\ Stub[1] = Prologue[1] /\ Stub[2] = Prologue[2] /\ Stub[3] = Prologue[3]
      /\ Stub[4] = Prologue[4] /\ Stub[5] = Prologue[5] /\ Stub[6] = Prologue[6]
      /\ Stub[7] = Prologue[7] /\ Stub[8] = Prologue[8] /\ Stub[9] = Prologue[9]
      /\ Stub[10] = Prologue[10] /\ Stub[11] = Prologue[11]
  BY StubParts, SMT
<1> QED
  BY <1>1, <1>2, Zenon

LEMMA TheShuffle ==
    /\ Stub[12] = Mov("rcx", "rdx") /\ Stub[13] = Mov("rdx", "rsi") /\ Stub[14] = Mov("rsi", "rdi")
    /\ Stub[15] = Mov("rdi", "rax") /\ Stub[16] = Mov("rax", "r8") /\ Stub[17] = Mov("r8", "r10")
    /\ Stub[18] = Push("r9") /\ Stub[19] = Mov("r9", "rax")
<1>1. /\ Shuffle[1] = Mov("rcx", "rdx") /\ Shuffle[2] = Mov("rdx", "rsi") /\ Shuffle[3] = Mov("rsi", "rdi")
      /\ Shuffle[4] = Mov("rdi", "rax") /\ Shuffle[5] = Mov("rax", "r8") /\ Shuffle[6] = Mov("r8", "r10")
      /\ Shuffle[7] = Push("r9") /\ Shuffle[8] = Mov("r9", "rax")
  BY SMT DEF Shuffle
<1>2. /\ Stub[12] = Shuffle[1] /\ Stub[13] = Shuffle[2] /\ Stub[14] = Shuffle[3]
      /\ Stub[15] = Shuffle[4] /\ Stub[16] = Shuffle[5] /\ Stub[17] = Shuffle[6]
      /\ Stub[18] = Shuffle[7] /\ Stub[19] = Shuffle[8]
  BY StubParts, SMT
<1> QED
  BY <1>1, <1>2, Zenon

LEMMA TheEpilogue ==
    /\ Stub[20] = Op("call") /\ Stub[21] = Op("drop") /\ Stub[22] = Pop("r11")
    /\ Stub[23] = Pop("r11") /\ Stub[24] = Pop("rcx") /\ Stub[25] = Pop("r15")
    /\ Stub[26] = Pop("r14") /\ Stub[27] = Pop("r13") /\ Stub[28] = Pop("r12")
    /\ Stub[29] = Pop("rbx") /\ Stub[30] = Pop("rbp") /\ Stub[31] = Op("restore rsp")
    /\ Stub[32] = Op("sysret")
<1>1. /\ Epilogue[1] = Op("call") /\ Epilogue[2] = Op("drop") /\ Epilogue[3] = Pop("r11")
      /\ Epilogue[4] = Pop("r11") /\ Epilogue[5] = Pop("rcx") /\ Epilogue[6] = Pop("r15")
      /\ Epilogue[7] = Pop("r14") /\ Epilogue[8] = Pop("r13") /\ Epilogue[9] = Pop("r12")
      /\ Epilogue[10] = Pop("rbx") /\ Epilogue[11] = Pop("rbp") /\ Epilogue[12] = Op("restore rsp")
      /\ Epilogue[13] = Op("sysret")
  BY SMT DEF Epilogue
<1>2. /\ Stub[20] = Epilogue[1] /\ Stub[21] = Epilogue[2] /\ Stub[22] = Epilogue[3]
      /\ Stub[23] = Epilogue[4] /\ Stub[24] = Epilogue[5] /\ Stub[25] = Epilogue[6]
      /\ Stub[26] = Epilogue[7] /\ Stub[27] = Epilogue[8] /\ Stub[28] = Epilogue[9]
      /\ Stub[29] = Epilogue[10] /\ Stub[30] = Epilogue[11] /\ Stub[31] = Epilogue[12]
      /\ Stub[32] = Epilogue[13]
  BY StubParts, SMT
<1> QED
  BY <1>1, <1>2, Zenon

LEMMA Operations ==
    /\ Stub[1].op = "save rsp" /\ Stub[2].op = "load rsp" /\ Stub[3].op = "push" /\ Stub[4].op = "push"
    /\ Stub[5].op = "push" /\ Stub[6].op = "push" /\ Stub[7].op = "push" /\ Stub[8].op = "push"
    /\ Stub[9].op = "push" /\ Stub[10].op = "push" /\ Stub[11].op = "push saved rsp" /\ Stub[12].op = "mov"
    /\ Stub[13].op = "mov" /\ Stub[14].op = "mov" /\ Stub[15].op = "mov" /\ Stub[16].op = "mov"
    /\ Stub[17].op = "mov" /\ Stub[18].op = "push" /\ Stub[19].op = "mov" /\ Stub[20].op = "call"
    /\ Stub[21].op = "drop" /\ Stub[22].op = "pop" /\ Stub[23].op = "pop" /\ Stub[24].op = "pop"
    /\ Stub[25].op = "pop" /\ Stub[26].op = "pop" /\ Stub[27].op = "pop" /\ Stub[28].op = "pop"
    /\ Stub[29].op = "pop" /\ Stub[30].op = "pop" /\ Stub[31].op = "restore rsp" /\ Stub[32].op = "sysret"
<1>1. /\ \A op : Op(op).op = op
      /\ \A r : Push(r).op = "push" /\ Pop(r).op = "pop"
      /\ \A r, q : Mov(r, q).op = "mov"
  BY DEF Op, Push, Pop, Mov
<1>2. /\ Stub[1].op = "save rsp" /\ Stub[2].op = "load rsp" /\ Stub[3].op = "push"
      /\ Stub[4].op = "push" /\ Stub[5].op = "push" /\ Stub[6].op = "push"
      /\ Stub[7].op = "push" /\ Stub[8].op = "push" /\ Stub[9].op = "push"
      /\ Stub[10].op = "push" /\ Stub[11].op = "push saved rsp"
  BY <1>1, ThePrologue, ZenonT(40)
<1>3. /\ Stub[12].op = "mov" /\ Stub[13].op = "mov" /\ Stub[14].op = "mov"
      /\ Stub[15].op = "mov" /\ Stub[16].op = "mov" /\ Stub[17].op = "mov"
      /\ Stub[18].op = "push" /\ Stub[19].op = "mov"
  BY <1>1, TheShuffle
<1>4. /\ Stub[20].op = "call" /\ Stub[21].op = "drop" /\ Stub[22].op = "pop"
      /\ Stub[23].op = "pop" /\ Stub[24].op = "pop" /\ Stub[25].op = "pop"
      /\ Stub[26].op = "pop" /\ Stub[27].op = "pop" /\ Stub[28].op = "pop"
      /\ Stub[29].op = "pop" /\ Stub[30].op = "pop" /\ Stub[31].op = "restore rsp"
      /\ Stub[32].op = "sysret"
  BY <1>1, TheEpilogue, ZenonT(40)
<1> QED
  BY <1>2, <1>3, <1>4, Zenon

LEMMA WhichInstruction ==
    ASSUME NEW n \in 1 .. 32
    PROVE
           /\ Stub[n].op = "save rsp" => n = 1
           /\ Stub[n].op = "load rsp" => n = 2
           /\ Stub[n].op = "push" => n \in {3, 4, 5, 6, 7, 8, 9, 10, 18}
           /\ Stub[n].op = "push saved rsp" => n = 11
           /\ Stub[n].op = "mov" => n \in {12, 13, 14, 15, 16, 17, 19}
           /\ Stub[n].op = "call" => n = 20
           /\ Stub[n].op = "drop" => n = 21
           /\ Stub[n].op = "pop" => n \in {22, 23, 24, 25, 26, 27, 28, 29, 30}
           /\ Stub[n].op = "restore rsp" => n = 31
           /\ Stub[n].op = "sysret" => n = 32
<1>1. n \in {1, 2, 3, 4, 5, 6, 7, 8, 9, 10, 11, 12, 13, 14, 15, 16, 17, 18, 19, 20, 21, 22, 23, 24, 25, 26, 27, 28, 29, 30, 31, 32}
  BY SMT
<1>2. Stub[n].op = "save rsp" => n = 1
  BY <1>1, Operations
<1>3. Stub[n].op = "load rsp" => n = 2
  BY <1>1, Operations
<1>4. Stub[n].op = "push" => n \in {3, 4, 5, 6, 7, 8, 9, 10, 18}
  BY <1>1, Operations
<1>5. Stub[n].op = "push saved rsp" => n = 11
  BY <1>1, Operations
<1>6. Stub[n].op = "mov" => n \in {12, 13, 14, 15, 16, 17, 19}
  BY <1>1, Operations
<1>7. Stub[n].op = "call" => n = 20
  BY <1>1, Operations
<1>8. Stub[n].op = "drop" => n = 21
  BY <1>1, Operations
<1>9. Stub[n].op = "pop" => n \in {22, 23, 24, 25, 26, 27, 28, 29, 30}
  BY <1>1, Operations
<1>10. Stub[n].op = "restore rsp" => n = 31
  BY <1>1, Operations
<1>11. Stub[n].op = "sysret" => n = 32
  BY <1>1, Operations
<1> QED
  BY <1>2, <1>3, <1>4, <1>5, <1>6, <1>7, <1>8, <1>9, <1>10, <1>11, Zenon

LEMMA Operands ==
    /\ Stub[12].to = "rcx" /\ Stub[12].from = "rdx" /\ Stub[13].to = "rdx" /\ Stub[13].from = "rsi"
    /\ Stub[14].to = "rsi" /\ Stub[14].from = "rdi" /\ Stub[15].to = "rdi" /\ Stub[15].from = "rax"
    /\ Stub[16].to = "rax" /\ Stub[16].from = "r8" /\ Stub[17].to = "r8" /\ Stub[17].from = "r10"
    /\ Stub[19].to = "r9" /\ Stub[19].from = "rax"
    /\ Stub[3].from = "rbp" /\ Stub[4].from = "rbx" /\ Stub[5].from = "r12" /\ Stub[6].from = "r13"
    /\ Stub[7].from = "r14" /\ Stub[8].from = "r15" /\ Stub[9].from = "rcx" /\ Stub[10].from = "r11"
    /\ Stub[18].from = "r9"
    /\ Stub[22].to = "r11" /\ Stub[23].to = "r11" /\ Stub[24].to = "rcx" /\ Stub[25].to = "r15"
    /\ Stub[26].to = "r14" /\ Stub[27].to = "r13" /\ Stub[28].to = "r12" /\ Stub[29].to = "rbx"
    /\ Stub[30].to = "rbp"
<1>1. /\ \A r, q : Mov(r, q).to = r /\ Mov(r, q).from = q
      /\ \A r : Push(r).from = r /\ Pop(r).to = r
  BY DEF Push, Pop, Mov
<1>2. /\ Stub[12].to = "rcx" /\ Stub[12].from = "rdx" /\ Stub[13].to = "rdx" /\ Stub[13].from = "rsi"
      /\ Stub[14].to = "rsi" /\ Stub[14].from = "rdi" /\ Stub[15].to = "rdi" /\ Stub[15].from = "rax"
  BY <1>1, TheShuffle
<1>3. /\ Stub[16].to = "rax" /\ Stub[16].from = "r8" /\ Stub[17].to = "r8" /\ Stub[17].from = "r10"
      /\ Stub[19].to = "r9" /\ Stub[19].from = "rax" /\ Stub[18].from = "r9"
  BY <1>1, TheShuffle
<1>4. /\ Stub[3].from = "rbp" /\ Stub[4].from = "rbx" /\ Stub[5].from = "r12" /\ Stub[6].from = "r13"
      /\ Stub[7].from = "r14" /\ Stub[8].from = "r15" /\ Stub[9].from = "rcx" /\ Stub[10].from = "r11"
  BY <1>1, ThePrologue
<1>5. /\ Stub[22].to = "r11" /\ Stub[23].to = "r11" /\ Stub[24].to = "rcx" /\ Stub[25].to = "r15"
      /\ Stub[26].to = "r14" /\ Stub[27].to = "r13" /\ Stub[28].to = "r12" /\ Stub[29].to = "rbx"
      /\ Stub[30].to = "rbp"
  BY <1>1, TheEpilogue
<1> QED
  BY <1>2, <1>3, <1>4, <1>5, Zenon

-----------------------------------------------------------------------------
(* The state of a call, by the number of the instruction that is next. *)
E == entered.regs

(* What the stub pushes, in its order. *)
Saves ==
    <<E["rbp"], E["rbx"], E["r12"], E["r13"], E["r14"], E["r15"], "rip", entered.rflags,
      USER, E["r9"]>>

Depth(n) ==
    IF n <= 12 THEN n - 3 ELSE IF n <= 18 THEN 9 ELSE IF n <= 21 THEN 10 ELSE IF n <= 31 THEN 31 - n ELSE 0

InCall == at \in {"stub", "dispatch", "clear"}

(* Nobody else comes to use the stack. *)
Alone ==
    InCall =>
        /\ ring = 0 /\ "IF" \notin rflags
        /\ ip \in 1 .. 32 /\ (at # "stub" => ip = 20)
        /\ at = "clear" => s_last_char = read

StackOK ==
    InCall =>
        /\ entered.rsp = USER
        /\ rsp = IF ip \in 3 .. 31 THEN KERNEL ELSE USER
        /\ ip >= 2 => g_user_saved_rsp = USER
        /\ ip >= 3 => kstack = Prefix(Saves, Depth(ip))

(* The arguments on their way, up to the call. *)
ShuffleOK ==
    InCall /\ ip <= 20 =>
        /\ regs["rcx"] = IF ip <= 12 THEN "rip" ELSE E["rdx"]
        /\ regs["rdx"] = IF ip <= 13 THEN E["rdx"] ELSE E["rsi"]
        /\ regs["rsi"] = IF ip <= 14 THEN E["rsi"] ELSE E["rdi"]
        /\ regs["rdi"] = IF ip <= 15 THEN E["rdi"] ELSE E["rax"]
        /\ regs["rax"] = IF ip <= 16 THEN E["rax"] ELSE E["r8"]
        /\ regs["r8"] = IF ip <= 17 THEN E["r8"] ELSE E["r10"]
        /\ regs["r9"] = IF ip <= 19 THEN E["r9"] ELSE E["r8"]
        /\ regs["r10"] = E["r10"]
        /\ regs["r11"] = entered.rflags

(* What comes back. *)
RestoreOK ==
    InCall =>
        /\ \A r \in Preserved : regs[r] = E[r]
        /\ ip >= 24 => regs["r11"] = entered.rflags
        /\ ip >= 25 => regs["rcx"] = "rip"

Back == regs["rcx"] = "rip" /\ \A r \in Preserved : regs[r] = E[r]

UserOK ==
    at = "user" =>
        /\ ring = 3 /\ rsp = USER
        /\ entered.rsp # NOWHERE => rflags = entered.rflags /\ Back

(* An interrupt of ring 3 has the stack to itself. *)
HandlerOK ==
    at = "handler" =>
        /\ rsp = KERNEL /\ rflags = {}
        /\ kstack = <<[rsp |-> USER, rflags |-> kstack[1].rflags, ring |-> 3, at |-> "user"]>>
        /\ entered.rsp # NOWHERE => kstack[1].rflags = entered.rflags /\ Back

PlacesOK ==
    /\ at \in {"boot", "user", "stub", "dispatch", "clear", "handler"}
    /\ (at = "boot" <=> stage # "user") /\ (at = "boot" => entered.rsp = NOWHERE)
    /\ DOMAIN regs = Registers /\ entered.rsp \in {USER, NOWHERE}

CallInv ==
    /\ PlacesOK /\ Alone /\ StackOK /\ ShuffleOK /\ RestoreOK /\ UserOK /\ HandlerOK

LEMMA AllRegisters ==
    Registers = {"rbx", "rbp", "r12", "r13", "r14", "r15", "rdi", "rsi", "rdx", "r10", "r8",
                 "r9", "rax", "rcx", "r11"}
  BY SMT DEF Registers, Preserved, Arguments, ToSet

(* What no instruction of the stub but the first and the last disturbs. *)
Stepping == Stepped /\ UNCHANGED <<s_last_char, keys, read, entered, stage>> /\ ip <= 31

LEMMA SteppingOK ==
    ASSUME CallInv, at = "stub", Stepping, DOMAIN regs' = Registers
    PROVE  PlacesOK' /\ Alone' /\ UserOK' /\ HandlerOK' /\ E' = E /\ Saves' = Saves
<1>1. ip \in 1 .. 32 /\ ip' = ip + 1 /\ ip <= 31 /\ at' = "stub"
  BY DEF CallInv, Alone, InCall, Stepping, Stepped
<1>2. ip' \in 1 .. 32
  BY <1>1
<1>3. Alone'
  BY <1>1, <1>2, Zenon DEF CallInv, Alone, InCall, Stepping, Stepped
<1>4. PlacesOK' /\ UserOK' /\ HandlerOK'
  BY <1>1, Zenon DEF CallInv, PlacesOK, UserOK, HandlerOK, Stepping
<1> QED
  BY <1>3, <1>4, Zenon DEF Stepping, E, Saves

LEMMA Facts ==
    ASSUME CallInv, at = "stub"
    PROVE  /\ ip \in 1 .. 32 /\ DOMAIN regs = Registers /\ entered.rsp = USER
           /\ rsp = IF ip \in 3 .. 31 THEN KERNEL ELSE USER
           /\ ip >= 2 => g_user_saved_rsp = USER
           /\ ip >= 3 => kstack = Prefix(Saves, Depth(ip))
           /\ \A r \in Preserved : regs[r] = E[r]
  BY Zenon DEF CallInv, PlacesOK, Alone, StackOK, RestoreOK, InCall

LEMMA MoveOK == ASSUME CallInv, Move, UNCHANGED stage PROVE CallInv'
<1>1. at = "stub" /\ Instruction.op = "mov"
  BY DEF Move, Executing
<1>2. ip \in {12, 13, 14, 15, 16, 17, 19}
  BY <1>1, Facts, WhichInstruction DEF Instruction
<1>3. Stepping
  BY <1>2 DEF Move, Executing, Stepping
<1>4. regs' = [regs EXCEPT ![Instruction.to] = regs[Instruction.from]]
  BY DEF Move
<1>5. DOMAIN regs' = Registers
  BY <1>1, <1>4, Facts
<1>6. PlacesOK' /\ Alone' /\ UserOK' /\ HandlerOK' /\ E' = E /\ Saves' = Saves
  BY <1>1, <1>3, <1>5, SteppingOK
<1>7. at' = "stub" /\ ip' = ip + 1 /\ UNCHANGED <<rsp, kstack, g_user_saved_rsp, entered>>
  BY <1>1 DEF Move, Executing, Stepped
<1>8. StackOK'
  <2>1. Depth(ip + 1) = Depth(ip) /\ ip >= 3 /\ ip + 1 \in 3 .. 31 /\ ip \in 3 .. 31
    BY <1>2 DEF Depth
  <2> QED
    BY <1>1, <1>6, <1>7, <2>1, Facts DEF StackOK
<1>9. ShuffleOK' /\ RestoreOK'
  <2>1. ShuffleOK /\ InCall /\ ip <= 20
    BY <1>1, <1>2 DEF CallInv, InCall
  <2>2. regs' = [regs EXCEPT ![Stub[ip].to] = regs[Stub[ip].from]]
    BY <1>4 DEF Instruction
  <2>9. \/ ip = 12 /\ Stub[ip].to = "rcx" /\ Stub[ip].from = "rdx"
        \/ ip = 13 /\ Stub[ip].to = "rdx" /\ Stub[ip].from = "rsi"
        \/ ip = 14 /\ Stub[ip].to = "rsi" /\ Stub[ip].from = "rdi"
        \/ ip = 15 /\ Stub[ip].to = "rdi" /\ Stub[ip].from = "rax"
        \/ ip = 16 /\ Stub[ip].to = "rax" /\ Stub[ip].from = "r8"
        \/ ip = 17 /\ Stub[ip].to = "r8" /\ Stub[ip].from = "r10"
        \/ ip = 19 /\ Stub[ip].to = "r9" /\ Stub[ip].from = "rax"
    BY <1>2, Operands
  <2> DEFINE Set(to, from) == regs' = [regs EXCEPT ![to] = regs[from]]
  <2>3. \/ ip = 12 /\ Set("rcx", "rdx")
        \/ ip = 13 /\ Set("rdx", "rsi")
        \/ ip = 14 /\ Set("rsi", "rdi")
        \/ ip = 15 /\ Set("rdi", "rax")
        \/ ip = 16 /\ Set("rax", "r8")
        \/ ip = 17 /\ Set("r8", "r10")
        \/ ip = 19 /\ Set("r9", "rax")
    BY <2>2, <2>9, Zenon
  <2>4. Preserved \subseteq Registers \ {"rcx", "rdx", "rsi", "rdi", "rax", "r8", "r9"}
    BY AllRegisters DEF Preserved
  <2>5. RestoreOK'
    BY <1>1, <1>2, <1>6, <1>7, <2>3, <2>4, Facts DEF RestoreOK
  <2>6. DOMAIN regs = Registers
    BY <1>1, Facts
  <2>7. ShuffleOK'
    BY <1>6, <1>7, <2>1, <2>3, <2>6, AllRegisters, SMTT(60) DEF ShuffleOK
  <2> QED
    BY <2>5, <2>7
<1> QED
  BY <1>6, <1>8, <1>9, Zenon DEF CallInv

LEMMA SavedInOrder ==
    /\ Saves[1] = E["rbp"] /\ Saves[2] = E["rbx"] /\ Saves[3] = E["r12"] /\ Saves[4] = E["r13"]
    /\ Saves[5] = E["r14"] /\ Saves[6] = E["r15"] /\ Saves[7] = "rip" /\ Saves[8] = entered.rflags
    /\ Saves[9] = USER /\ Saves[10] = E["r9"]
  BY SMT DEF Saves

(* An instruction that puts the next of Saves on the stack. *)
LEMMA PushOK ==
    ASSUME CallInv, at = "stub", Stepping, ip \in {3, 4, 5, 6, 7, 8, 9, 10, 11, 18},
           UNCHANGED <<regs, rsp, g_user_saved_rsp>>,
           kstack' = Append(kstack, Saves[Depth(ip) + 1])
    PROVE  CallInv'
<1>1. PlacesOK' /\ Alone' /\ UserOK' /\ HandlerOK' /\ E' = E /\ Saves' = Saves
  BY SteppingOK, Facts
<1>2. at' = "stub" /\ ip' = ip + 1 /\ entered' = entered
  BY DEF Stepping, Stepped
<1>3. Depth(ip) \in Nat /\ Depth(ip + 1) = Depth(ip) + 1 /\ ip >= 3 /\ ip + 1 \in 3 .. 31 /\ ip \in 3 .. 31
  BY SMT DEF Depth
<1>4. kstack' = Prefix(Saves, Depth(ip + 1))
  <2>1. kstack = Prefix(Saves, Depth(ip))
    BY <1>3, Facts
  <2> QED
    BY <2>1, <1>3, Grows
<1>5. StackOK'
  BY <1>1, <1>2, <1>3, <1>4, Facts DEF StackOK
<1>6. ShuffleOK'
  <2>1. ShuffleOK /\ InCall /\ ip <= 20
    BY DEF CallInv, InCall
  <2> QED
    BY <1>1, <1>2, <2>1 DEF ShuffleOK
<1>7. RestoreOK'
  BY <1>1, <1>2, Facts DEF RestoreOK
<1> QED
  BY <1>1, <1>5, <1>6, <1>7, Zenon DEF CallInv

LEMMA PushRegisterOK == ASSUME CallInv, PushRegister, UNCHANGED stage PROVE CallInv'
<1>1. at = "stub" /\ Instruction.op = "push"
  BY DEF PushRegister, Executing
<1>2. ip \in {3, 4, 5, 6, 7, 8, 9, 10, 18}
  BY <1>1, Facts, WhichInstruction DEF Instruction
<1>3. Stepping
  BY <1>2 DEF PushRegister, Executing, Stepping
<1>4. kstack' = Append(kstack, regs[Stub[ip].from])
  BY DEF PushRegister, Pushed, Instruction
<1>5. regs["rcx"] = (IF ip <= 12 THEN "rip" ELSE E["rdx"]) /\ regs["r9"] = E["r9"] /\ regs["r11"] = entered.rflags
  BY <1>1, <1>2 DEF CallInv, ShuffleOK, InCall
<1>6. /\ regs["rbp"] = E["rbp"] /\ regs["rbx"] = E["rbx"] /\ regs["r12"] = E["r12"]
      /\ regs["r13"] = E["r13"] /\ regs["r14"] = E["r14"] /\ regs["r15"] = E["r15"]
  BY <1>1, Facts DEF Preserved
<1>7. regs[Stub[ip].from] = Saves[Depth(ip) + 1]
  <2>1. /\ Depth(3) + 1 = 1 /\ Depth(4) + 1 = 2 /\ Depth(5) + 1 = 3 /\ Depth(6) + 1 = 4
        /\ Depth(7) + 1 = 5 /\ Depth(8) + 1 = 6 /\ Depth(9) + 1 = 7 /\ Depth(10) + 1 = 8
        /\ Depth(18) + 1 = 10
    BY SMT DEF Depth
  <2>2. \/ ip \in {3, 4, 5, 6, 7, 8}
        \/ ip = 9 /\ regs["rcx"] = "rip"
        \/ ip \in {10, 18}
    BY <1>2, <1>5, SMT
  <2> QED
    BY <1>2, <1>5, <1>6, <2>1, <2>2, Operands, SavedInOrder
<1>8. ip \in {3, 4, 5, 6, 7, 8, 9, 10, 11, 18} /\ UNCHANGED <<regs, rsp, g_user_saved_rsp>>
  BY <1>2 DEF PushRegister
<1> QED
  BY <1>1, <1>3, <1>4, <1>7, <1>8, PushOK

LEMMA PushSavedOK == ASSUME CallInv, PushSaved, UNCHANGED stage PROVE CallInv'
<1>1. at = "stub"
  BY Zenon DEF PushSaved, Executing
<1>2. ip = 11
  <2>1. Stub[ip].op = "push saved rsp"
    BY Zenon DEF PushSaved, Executing, Instruction
  <2> QED
    BY <1>1, <2>1, Facts, WhichInstruction
<1>3. Stepping /\ UNCHANGED <<regs, rsp, g_user_saved_rsp>>
  <2>1. ip <= 31
    BY <1>2
  <2> QED
    BY <2>1, Zenon DEF PushSaved, Executing, Stepping
<1>4. kstack' = Append(kstack, USER)
  <2>1. kstack' = Append(kstack, g_user_saved_rsp)
    BY Zenon DEF PushSaved, Pushed
  <2>2. g_user_saved_rsp = USER
    <3>1. ip >= 2
      BY <1>2
    <3> QED
      BY <1>1, <3>1, Facts, Zenon
  <2> QED
    BY <2>1, <2>2, Zenon
<1>5. Saves[Depth(ip) + 1] = USER
  <2>1. Depth(ip) + 1 = 9
    BY <1>2 DEF Depth
  <2> QED
    BY <2>1, SavedInOrder
<1> QED
  BY <1>1, <1>2, <1>3, <1>4, <1>5, PushOK

(* An instruction that takes the last of what is left of Saves. *)
LEMMA TakeOK ==
    ASSUME CallInv, at = "stub", Stepping, ip \in {21, 22, 23, 24, 25, 26, 27, 28, 29, 30},
           UNCHANGED <<rsp, g_user_saved_rsp>>, kstack' = Front(kstack),
           DOMAIN regs' = Registers, RestoreOK'
    PROVE  CallInv'
<1>1. PlacesOK' /\ Alone' /\ UserOK' /\ HandlerOK' /\ E' = E /\ Saves' = Saves
  BY SteppingOK
<1>2. at' = "stub" /\ ip' = ip + 1 /\ entered' = entered
  BY DEF Stepping, Stepped
<1>3. Depth(ip + 1) \in Nat /\ Depth(ip) = Depth(ip + 1) + 1 /\ ip >= 3 /\ ip + 1 \in 3 .. 31 /\ ip \in 3 .. 31
  BY SMT DEF Depth
<1>4. kstack' = Prefix(Saves, Depth(ip + 1))
  <2>1. kstack = Prefix(Saves, Depth(ip))
    BY <1>3, Facts
  <2> QED
    BY <2>1, <1>3, Shrinks
<1>5. StackOK'
  BY <1>1, <1>2, <1>3, <1>4, Facts DEF StackOK
<1>6. ShuffleOK'
  BY <1>2 DEF ShuffleOK
<1> QED
  BY <1>1, <1>5, <1>6, Zenon DEF CallInv

LEMMA DropOK == ASSUME CallInv, Drop, UNCHANGED stage PROVE CallInv'
<1>1. at = "stub"
  BY Zenon DEF Drop, Executing
<1>2. ip = 21
  <2>1. Stub[ip].op = "drop"
    BY Zenon DEF Drop, Executing, Instruction
  <2> QED
    BY <1>1, <2>1, Facts, WhichInstruction
<1>3. Stepping /\ UNCHANGED <<regs, rsp, g_user_saved_rsp>> /\ kstack' = Front(kstack)
  BY <1>2 DEF Drop, Executing, Stepping
<1>4. RestoreOK'
  <2>1. E' = E /\ ip' = 22
    BY <1>1, <1>2, <1>3 DEF Stepping, Stepped, E
  <2> QED
    BY <1>1, <1>3, <2>1, Facts DEF RestoreOK
<1>5. DOMAIN regs' = Registers
  BY <1>1, <1>3, Facts
<1> QED
  BY <1>1, <1>2, <1>3, <1>4, <1>5, TakeOK

LEMMA PopRegisterOK == ASSUME CallInv, PopRegister, UNCHANGED stage PROVE CallInv'
<1>1. at = "stub" /\ Instruction.op = "pop"
  BY DEF PopRegister, Executing
<1>2. ip \in {22, 23, 24, 25, 26, 27, 28, 29, 30}
  BY <1>1, Facts, WhichInstruction DEF Instruction
<1>3. Stepping /\ UNCHANGED <<rsp, g_user_saved_rsp>> /\ kstack' = Front(kstack)
  BY <1>2 DEF PopRegister, Executing, Stepping
<1>4. regs' = [regs EXCEPT ![Stub[ip].to] = Last(kstack)]
  BY DEF PopRegister, Instruction
<1>5. DOMAIN regs' = Registers
  BY <1>1, <1>4, Facts
<1>6. Last(kstack) = Saves[31 - ip]
  <2>1. kstack = Prefix(Saves, Depth(ip)) /\ Depth(ip) = (30 - ip) + 1 /\ 30 - ip \in Nat
    BY <1>1, <1>2, Facts DEF Depth
  <2>2. (30 - ip) + 1 = 31 - ip
    BY <1>2, SMT
  <2> QED
    BY <2>1, <2>2, Shrinks
<1>7. RestoreOK'
  <2>1. \/ ip = 22 /\ Stub[ip].to = "r11"
        \/ ip = 23 /\ Stub[ip].to = "r11" /\ Last(kstack) = entered.rflags
        \/ ip = 24 /\ Stub[ip].to = "rcx" /\ Last(kstack) = "rip"
        \/ ip = 25 /\ Stub[ip].to = "r15" /\ Last(kstack) = E["r15"]
        \/ ip = 26 /\ Stub[ip].to = "r14" /\ Last(kstack) = E["r14"]
        \/ ip = 27 /\ Stub[ip].to = "r13" /\ Last(kstack) = E["r13"]
        \/ ip = 28 /\ Stub[ip].to = "r12" /\ Last(kstack) = E["r12"]
        \/ ip = 29 /\ Stub[ip].to = "rbx" /\ Last(kstack) = E["rbx"]
        \/ ip = 30 /\ Stub[ip].to = "rbp" /\ Last(kstack) = E["rbp"]
    <3>1. /\ 31 - 22 = 9 /\ 31 - 23 = 8 /\ 31 - 24 = 7 /\ 31 - 25 = 6 /\ 31 - 26 = 5
          /\ 31 - 27 = 4 /\ 31 - 28 = 3 /\ 31 - 29 = 2 /\ 31 - 30 = 1
      BY SMT
    <3> QED
      BY <1>2, <1>6, <3>1, Operands, SavedInOrder
  <2>2. E' = E /\ ip' = ip + 1 /\ entered' = entered
    BY <1>3 DEF Stepping, Stepped, E
  <2>3. DOMAIN regs = Registers /\ \A r \in Preserved : regs[r] = E[r]
    BY <1>1, Facts
  <2>4. /\ ip >= 24 => regs["r11"] = entered.rflags
        /\ ip >= 25 => regs["rcx"] = "rip"
    BY <1>1, Zenon DEF CallInv, RestoreOK, InCall
  <2>5. \A r \in Preserved : regs'[r] = E[r]
    BY <1>4, <2>1, <2>3, AllRegisters DEF Preserved
  <2>6. ip' >= 24 => regs'["r11"] = entered.rflags
    BY <1>4, <2>1, <2>2, <2>3, <2>4, AllRegisters
  <2>7. ip' >= 25 => regs'["rcx"] = "rip"
    BY <1>4, <2>1, <2>2, <2>3, <2>4, AllRegisters
  <2> QED
    BY <2>2, <2>5, <2>6, <2>7, Zenon DEF RestoreOK
<1> QED
  BY <1>1, <1>2, <1>3, <1>5, <1>7, TakeOK

LEMMA SaveRspOK == ASSUME CallInv, SaveRsp, UNCHANGED stage PROVE CallInv'
<1>1. at = "stub"
  BY Zenon DEF SaveRsp, Executing
<1>2. ip = 1
  <2>1. Stub[ip].op = "save rsp"
    BY Zenon DEF SaveRsp, Executing, Instruction
  <2> QED
    BY <1>1, <2>1, Facts, WhichInstruction
<1>3. Stepping /\ UNCHANGED <<regs, rsp, kstack>> /\ g_user_saved_rsp' = rsp
  <2>1. ip <= 31
    BY <1>2
  <2> QED
    BY <2>1, Zenon DEF SaveRsp, Executing, Stepping
<1>4. PlacesOK' /\ Alone' /\ UserOK' /\ HandlerOK' /\ E' = E /\ Saves' = Saves
  BY <1>1, <1>3, SteppingOK, Facts
<1>5. at' = "stub" /\ ip' = 2 /\ entered' = entered
  BY <1>1, <1>2, <1>3 DEF Stepping, Stepped
<1>6. rsp = USER
  BY <1>1, <1>2, Facts
<1>7. StackOK'
  BY <1>1, <1>3, <1>5, <1>6, Facts DEF StackOK
<1>8. ShuffleOK'
  <2>1. ShuffleOK /\ InCall /\ ip <= 20
    BY <1>1, <1>2 DEF CallInv, InCall
  <2> QED
    BY <1>2, <1>3, <1>4, <1>5, <2>1 DEF ShuffleOK
<1>9. RestoreOK'
  BY <1>1, <1>3, <1>4, <1>5, Facts DEF RestoreOK
<1> QED
  BY <1>4, <1>7, <1>8, <1>9, Zenon DEF CallInv

LEMMA LoadRspOK == ASSUME CallInv, LoadRsp, UNCHANGED stage PROVE CallInv'
<1>1. at = "stub"
  BY Zenon DEF LoadRsp, Executing
<1>2. ip = 2
  <2>1. Stub[ip].op = "load rsp"
    BY Zenon DEF LoadRsp, Executing, Instruction
  <2> QED
    BY <1>1, <2>1, Facts, WhichInstruction
<1>3. Stepping /\ UNCHANGED <<regs, g_user_saved_rsp>> /\ rsp' = KERNEL /\ kstack' = <<>>
  <2>1. ip <= 31
    BY <1>2
  <2> QED
    BY <2>1, Zenon DEF LoadRsp, Executing, Stepping
<1>4. PlacesOK' /\ Alone' /\ UserOK' /\ HandlerOK' /\ E' = E /\ Saves' = Saves
  BY <1>1, <1>3, SteppingOK, Facts
<1>5. at' = "stub" /\ ip' = 3 /\ entered' = entered
  BY <1>1, <1>2, <1>3 DEF Stepping, Stepped
<1>6. kstack' = Prefix(Saves, Depth(3))
  <2>1. Depth(3) = 0
    BY DEF Depth
  <2>2. Prefix(Saves, 0) = <<>>
    BY SMT DEF Prefix
  <2> QED
    BY <1>3, <2>1, <2>2
<1>7. StackOK'
  <2>1. g_user_saved_rsp = USER /\ entered.rsp = USER
    BY <1>1, <1>2, Facts
  <2> QED
    BY <1>3, <1>4, <1>5, <1>6, <2>1 DEF StackOK
<1>8. ShuffleOK'
  <2>1. ShuffleOK /\ InCall /\ ip <= 20
    BY <1>1, <1>2 DEF CallInv, InCall
  <2> QED
    BY <1>2, <1>3, <1>4, <1>5, <2>1 DEF ShuffleOK
<1>9. RestoreOK'
  BY <1>1, <1>3, <1>4, <1>5, Facts DEF RestoreOK
<1> QED
  BY <1>4, <1>7, <1>8, <1>9, Zenon DEF CallInv

LEMMA CallOK == ASSUME CallInv, Call, UNCHANGED stage PROVE CallInv'
<1>1. at = "stub"
  BY Zenon DEF Call, Executing
<1>2. ip = 20
  <2>1. Stub[ip].op = "call"
    BY Zenon DEF Call, Executing, Instruction
  <2> QED
    BY <1>1, <2>1, Facts, WhichInstruction
<1>3. /\ at' = "dispatch"
      /\ UNCHANGED <<regs, rsp, rflags, ring, ip, kstack, g_user_saved_rsp, s_last_char, keys, read,
                     entered, stage>>
  BY Zenon DEF Call, Executing
<1>4. E' = E /\ Saves' = Saves /\ InCall /\ InCall'
  BY <1>1, <1>3, Zenon DEF E, Saves, InCall
<1>5. PlacesOK' /\ UserOK' /\ HandlerOK'
  BY <1>1, <1>3, Zenon DEF CallInv, PlacesOK, UserOK, HandlerOK
<1>6. Alone'
  BY <1>2, <1>3, <1>4, Zenon DEF CallInv, Alone
<1>7. StackOK'
  BY <1>3, <1>4, Zenon DEF CallInv, StackOK
<1>8. ShuffleOK' /\ RestoreOK'
  BY <1>3, <1>4, Zenon DEF CallInv, ShuffleOK, RestoreOK
<1> QED
  BY <1>5, <1>6, <1>7, <1>8, Zenon DEF CallInv

LEMMA RestoreRspOK == ASSUME CallInv, RestoreRsp, UNCHANGED stage PROVE CallInv'
<1>1. at = "stub"
  BY Zenon DEF RestoreRsp, Executing
<1>2. ip = 31
  <2>1. Stub[ip].op = "restore rsp"
    BY Zenon DEF RestoreRsp, Executing, Instruction
  <2> QED
    BY <1>1, <2>1, Facts, WhichInstruction
<1>3. Stepping /\ UNCHANGED <<regs, kstack, g_user_saved_rsp>> /\ rsp' = g_user_saved_rsp
  <2>1. ip <= 31
    BY <1>2
  <2> QED
    BY <2>1, Zenon DEF RestoreRsp, Executing, Stepping
<1>4. PlacesOK' /\ Alone' /\ UserOK' /\ HandlerOK' /\ E' = E /\ Saves' = Saves
  BY <1>1, <1>3, SteppingOK, Facts
<1>5. at' = "stub" /\ ip' = 32 /\ entered' = entered
  BY <1>1, <1>2, <1>3 DEF Stepping, Stepped
<1>6. StackOK'
  <2>1. g_user_saved_rsp = USER /\ entered.rsp = USER /\ kstack = Prefix(Saves, Depth(ip))
    BY <1>1, <1>2, Facts
  <2>2. Depth(31) = Depth(32)
    BY DEF Depth
  <2> QED
    BY <1>2, <1>3, <1>4, <1>5, <2>1, <2>2 DEF StackOK
<1>7. ShuffleOK'
  BY <1>5 DEF ShuffleOK
<1>8. RestoreOK'
  <2>1. regs["r11"] = entered.rflags /\ regs["rcx"] = "rip"
    BY <1>1, <1>2 DEF CallInv, RestoreOK, InCall
  <2> QED
    BY <1>1, <1>3, <1>4, <1>5, <2>1, Facts DEF RestoreOK
<1> QED
  BY <1>4, <1>6, <1>7, <1>8, Zenon DEF CallInv

(* What the places outside a call need not say. *)
LEMMA OutOfCall ==
    ASSUME ~InCall', PlacesOK', UserOK', HandlerOK'
    PROVE  CallInv'
  BY Zenon DEF CallInv, Alone, StackOK, ShuffleOK, RestoreOK

LEMMA SysretOK == ASSUME CallInv, Sysret, UNCHANGED stage PROVE CallInv'
<1>1. at = "stub"
  BY Zenon DEF Sysret, Executing
<1>2. ip = 32
  <2>1. Stub[ip].op = "sysret"
    BY Zenon DEF Sysret, Executing, Instruction
  <2> QED
    BY <1>1, <2>1, Facts, WhichInstruction
<1>3. /\ at' = "user" /\ ring' = 3 /\ rflags' = regs["r11"]
      /\ UNCHANGED <<regs, rsp, entered, stage>>
  BY Zenon DEF Sysret, Executing
<1>4. regs["r11"] = entered.rflags /\ regs["rcx"] = "rip" /\ rsp = USER
  BY <1>1, <1>2, Facts DEF CallInv, RestoreOK, InCall
<1>5. PlacesOK'
  BY <1>1, <1>3, Zenon DEF CallInv, PlacesOK
<1>6. UserOK'
  <2>1. \A r \in Preserved : regs[r] = E[r]
    BY <1>1, Facts
  <2> QED
    BY <1>3, <1>4, <2>1, Zenon DEF UserOK, Back, E
<1>7. HandlerOK' /\ ~InCall'
  BY <1>3 DEF HandlerOK, InCall
<1> QED
  BY <1>5, <1>6, <1>7, OutOfCall

LEMMA StubStepOK == ASSUME CallInv, StubStep, UNCHANGED stage PROVE CallInv'
  BY MoveOK, PushRegisterOK, PopRegisterOK, SaveRspOK, LoadRspOK, PushSavedOK, DropOK,
     RestoreRspOK, SysretOK, CallOK, Zenon DEF StubStep

-----------------------------------------------------------------------------
(* What the dispatcher, and the way in, do. *)
LEMMA ReturningOK ==
    ASSUME CallInv, at \in {"dispatch", "clear"}, NEW result, Returning(result), UNCHANGED stage
    PROVE  CallInv'
<1>1. InCall /\ ip = 20 /\ ip' = 21 /\ at' = "stub" /\ InCall'
  <2>1. InCall /\ ip = 20
    BY DEF CallInv, Alone, InCall
  <2>2. ip' = ip + 1 /\ at' = "stub"
    BY Zenon DEF Returning
  <2> QED
    BY <2>1, <2>2, SMT DEF InCall
<1>2. /\ regs' = [r \in Registers |->
                    IF r \in Preserved THEN regs[r] ELSE IF r = "rax" THEN result ELSE JUNK]
      /\ UNCHANGED <<rsp, rflags, ring, kstack, g_user_saved_rsp, entered, stage>>
  BY Zenon DEF Returning
<1>3. E' = E /\ Saves' = Saves
  BY <1>2, Zenon DEF E, Saves
<1>4. PlacesOK' /\ UserOK' /\ HandlerOK'
  BY <1>1, <1>2, Zenon DEF CallInv, PlacesOK, UserOK, HandlerOK
<1>5. Alone'
  BY <1>1, <1>2 DEF CallInv, Alone
<1>6. StackOK'
  <2>1. /\ entered.rsp = USER /\ rsp = KERNEL /\ g_user_saved_rsp = USER
        /\ kstack = Prefix(Saves, Depth(20))
    BY <1>1 DEF CallInv, StackOK
  <2>2. Depth(20) = Depth(21)
    BY DEF Depth
  <2> QED
    BY <1>1, <1>2, <1>3, <2>1, <2>2 DEF StackOK
<1>7. ShuffleOK'
  BY <1>1 DEF ShuffleOK
<1>8. RestoreOK'
  <2>1. \A r \in Preserved : r \in Registers /\ regs[r] = E[r]
    BY <1>1, Zenon DEF CallInv, RestoreOK, Registers
  <2> QED
    BY <1>1, <1>2, <1>3, <2>1 DEF RestoreOK
<1> QED
  BY <1>4, <1>5, <1>6, <1>7, <1>8, Zenon DEF CallInv

LEMMA ReadSlotOK == ASSUME CallInv, ReadSlot, UNCHANGED stage PROVE CallInv'
<1>1. at = "dispatch" /\ at' = "clear" /\ read' = s_last_char /\ s_last_char' = s_last_char
      /\ UNCHANGED <<regs, rsp, rflags, ring, ip, kstack, g_user_saved_rsp, entered, stage>>
  BY Zenon DEF ReadSlot
<1>2. E' = E /\ Saves' = Saves /\ InCall /\ InCall'
  BY <1>1, Zenon DEF E, Saves, InCall
<1>3. PlacesOK' /\ UserOK' /\ HandlerOK'
  BY <1>1, Zenon DEF CallInv, PlacesOK, UserOK, HandlerOK
<1>4. Alone'
  BY <1>1, <1>2, Zenon DEF CallInv, Alone
<1>5. StackOK'
  BY <1>1, <1>2, Zenon DEF CallInv, StackOK
<1>6. ShuffleOK' /\ RestoreOK'
  BY <1>1, <1>2, Zenon DEF CallInv, ShuffleOK, RestoreOK
<1> QED
  BY <1>3, <1>4, <1>5, <1>6, Zenon DEF CallInv

LEMMA InterruptOK == ASSUME CallInv, Interrupt, UNCHANGED stage PROVE CallInv'
<1>1. at = "user"
  <2>1. at \in {"user", "stub", "dispatch", "clear", "handler"} /\ "IF" \in rflags
    BY DEF CallInv, PlacesOK, Interrupt
  <2>2. ~InCall
    BY <2>1, Zenon DEF CallInv, Alone
  <2>3. at # "handler"
    BY <2>1, Zenon DEF CallInv, HandlerOK
  <2> QED
    BY <2>1, <2>2, <2>3 DEF InCall
<1>2. ring = 3 /\ rsp = USER /\ (entered.rsp # NOWHERE => rflags = entered.rflags /\ Back)
  BY <1>1, Zenon DEF CallInv, UserOK
<1>3. /\ kstack' = <<Frame>> /\ rsp' = KERNEL /\ rflags' = {} /\ at' = "handler"
      /\ UNCHANGED <<regs, entered, stage>>
  BY <1>2, Zenon DEF Interrupt
<1>4. Frame = [rsp |-> USER, rflags |-> rflags, ring |-> 3, at |-> "user"]
  BY <1>1, <1>2, Zenon DEF Frame
<1>5. kstack'[1] = Frame /\ Frame.rflags = rflags
  BY <1>3, <1>4
<1>6. HandlerOK'
  <2>1. kstack' = <<[rsp |-> USER, rflags |-> kstack'[1].rflags, ring |-> 3, at |-> "user"]>>
    BY <1>3, <1>4, <1>5, Zenon
  <2>2. entered'.rsp # NOWHERE => kstack'[1].rflags = entered'.rflags /\ Back'
    BY <1>2, <1>3, <1>5, Zenon DEF Back, E
  <2> QED
    BY <1>3, <2>1, <2>2, Zenon DEF HandlerOK
<1>7. PlacesOK'
  BY <1>1, <1>3, Zenon DEF CallInv, PlacesOK
<1>8. UserOK' /\ ~InCall'
  BY <1>3 DEF UserOK, InCall
<1> QED
  BY <1>6, <1>7, <1>8, OutOfCall

LEMMA ReturnOK == ASSUME CallInv, Return, UNCHANGED stage PROVE CallInv'
<1>1. at = "handler" /\ UNCHANGED <<regs, entered, stage>>
  BY Zenon DEF Return
<1>2. /\ kstack = <<[rsp |-> USER, rflags |-> kstack[1].rflags, ring |-> 3, at |-> "user"]>>
      /\ entered.rsp # NOWHERE => kstack[1].rflags = entered.rflags /\ Back
  BY <1>1, Zenon DEF CallInv, HandlerOK
<1>3. \A x : Last(<<x>>) = x
  BY SMT DEF Last
<1>4. Last(kstack) = [rsp |-> USER, rflags |-> kstack[1].rflags, ring |-> 3, at |-> "user"]
  BY <1>2, <1>3, Zenon
<1>5. /\ Last(kstack).rsp = USER /\ Last(kstack).rflags = kstack[1].rflags
      /\ Last(kstack).ring = 3 /\ Last(kstack).at = "user"
  BY <1>4
<1>6. rsp' = USER /\ rflags' = kstack[1].rflags /\ ring' = 3 /\ at' = "user"
  BY <1>5, Zenon DEF Return
<1>7. UserOK'
  BY <1>1, <1>2, <1>6, Zenon DEF UserOK, Back, E
<1>8. PlacesOK'
  BY <1>1, <1>6, Zenon DEF CallInv, PlacesOK
<1>9. HandlerOK' /\ ~InCall'
  BY <1>6 DEF HandlerOK, InCall
<1> QED
  BY <1>7, <1>8, <1>9, OutOfCall

LEMMA EnterOK ==
    ASSUME CallInv, NEW num, NEW fd, NEW flags, Enter(num, fd, flags), UNCHANGED stage
    PROVE  CallInv'
<1> DEFINE given == UserRegs(num, fd)  set == flags \cup {"IF"}
<1>1. /\ at = "user" /\ entered' = [regs |-> given, rflags |-> set, rsp |-> rsp]
      /\ regs' = [given EXCEPT !["rcx"] = "rip", !["r11"] = set]
      /\ rflags' = set \ SFMASK
      /\ ring' = 0 /\ ip' = 1 /\ at' = "stub" /\ UNCHANGED <<rsp, stage>>
  BY Zenon DEF Enter
<1>2. DOMAIN given = Registers
  BY DEF UserRegs
<1> HIDE DEF given, set
<1>3. rsp = USER
  BY <1>1, Zenon DEF CallInv, UserOK
<1>4. E' = given /\ entered'.rflags = set /\ entered'.rsp = USER
  BY <1>1, <1>3 DEF E
<1>5. DOMAIN regs' = Registers
  BY <1>1, <1>2
<1>6. PlacesOK'
  BY <1>1, <1>4, <1>5, Zenon DEF CallInv, PlacesOK
<1>7. "IF" \notin rflags'
  BY <1>1 DEF SFMASK
<1>8. Alone'
  BY <1>1, <1>7 DEF Alone
<1>9. StackOK'
  BY <1>1, <1>3, <1>4 DEF StackOK
<1>10. /\ regs'["rcx"] = "rip" /\ regs'["r11"] = set
       /\ \A r \in Registers \ {"rcx", "r11"} : regs'[r] = given[r]
  BY <1>1, <1>2, AllRegisters
<1>11. ShuffleOK'
  <2>1. /\ regs'["rdx"] = E'["rdx"] /\ regs'["rsi"] = E'["rsi"] /\ regs'["rdi"] = E'["rdi"]
        /\ regs'["rax"] = E'["rax"] /\ regs'["r8"] = E'["r8"] /\ regs'["r9"] = E'["r9"]
        /\ regs'["r10"] = E'["r10"]
    BY <1>4, <1>10, AllRegisters
  <2> QED
    BY <1>1, <1>4, <1>10, <2>1 DEF ShuffleOK
<1>12. RestoreOK'
  <2>1. Preserved \subseteq Registers \ {"rcx", "r11"}
    BY AllRegisters DEF Preserved
  <2>2. \A r \in Preserved : regs'[r] = E'[r]
    BY <1>4, <1>10, <2>1, Zenon
  <2> QED
    <3>1. ~(ip' >= 24) /\ ~(ip' >= 25)
      BY <1>1
    <3> QED
      BY <2>2, <3>1, Zenon DEF RestoreOK
<1>13. UserOK' /\ HandlerOK'
  BY <1>1 DEF UserOK, HandlerOK
<1> QED
  BY <1>6, <1>8, <1>9, <1>11, <1>12, <1>13, Zenon DEF CallInv

LEMMA EnterUserModeOK == ASSUME CallInv, EnterUserMode PROVE CallInv'
<1>1. /\ stage = "iretq" /\ stage' = "user" /\ ring' = 3 /\ at' = "user" /\ rsp' = USER
      /\ UNCHANGED <<regs, entered>>
  BY Zenon DEF EnterUserMode, Iretq
<1>2. at = "boot"
  BY <1>1 DEF CallInv, PlacesOK
<1>3. entered.rsp = NOWHERE /\ DOMAIN regs = Registers
  BY <1>2, Zenon DEF CallInv, PlacesOK
<1>4. PlacesOK'
  BY <1>1, <1>3 DEF PlacesOK
<1>5. UserOK'
  BY <1>1, <1>3, Zenon DEF UserOK
<1>6. HandlerOK' /\ ~InCall'
  BY <1>1 DEF HandlerOK, InCall
<1> QED
  BY <1>4, <1>5, <1>6, OutOfCall

(* What the kernel does before there is a user. *)
LEMMA KernelOK ==
    ASSUME CallInv, UNCHANGED syscall_vars, stage' = "user" <=> stage = "user"
    PROVE  CallInv'
<1>1. UNCHANGED <<regs, rsp, rflags, ring, ip, at, kstack, g_user_saved_rsp, s_last_char, read, entered>>
  BY Zenon DEF syscall_vars, machine_vars
<1>2. E' = E /\ Saves' = Saves /\ (InCall' <=> InCall) /\ (Back' <=> Back)
  BY <1>1, Zenon DEF E, Saves, InCall, Back
<1>3. PlacesOK' /\ Alone' /\ UserOK' /\ HandlerOK'
  BY <1>1, <1>2, Zenon DEF CallInv, PlacesOK, Alone, UserOK, HandlerOK
<1>4. StackOK' /\ ShuffleOK' /\ RestoreOK'
  BY <1>1, <1>2, Zenon DEF CallInv, StackOK, ShuffleOK, RestoreOK
<1> QED
  BY <1>3, <1>4, Zenon DEF CallInv

LEMMA CallInvInit == Init => CallInv
<1> SUFFICES ASSUME Init PROVE CallInv
  OBVIOUS
<1>1. /\ regs = UserRegs("none", "none") /\ at = "boot" /\ stage = "kernel"
      /\ entered = [regs |-> regs, rflags |-> {}, rsp |-> NOWHERE]
  BY Zenon DEF Init, SyscallInit
<1>2. DOMAIN regs = Registers
  BY <1>1, Zenon DEF UserRegs
<1>3. entered.rsp = NOWHERE
  BY <1>1
<1>4. PlacesOK /\ ~InCall /\ UserOK /\ HandlerOK
  BY <1>1, <1>2, <1>3 DEF PlacesOK, InCall, UserOK, HandlerOK
<1> QED
  BY <1>4, Zenon DEF CallInv, Alone, StackOK, ShuffleOK, RestoreOK

LEMMA CallInvNext == CallInv /\ [Next]_vars => CallInv'
<1> SUFFICES ASSUME CallInv, [Next]_vars PROVE CallInv'
  OBVIOUS
<1>1. CASE UserStep
  <2>1. UNCHANGED stage
    BY <1>1, Zenon DEF UserStep
  <2>2. CASE StubStep
    BY <2>1, <2>2, StubStepOK
  <2>3. CASE Dispatch
    <3>1. PICK result \in Results : Returning(result)
      BY <2>3, Zenon DEF Dispatch
    <3>2. at \in {"dispatch", "clear"}
      BY <2>3 DEF Dispatch
    <3> QED
      BY <2>1, <3>1, <3>2, ReturningOK, Zenon
  <2>4. CASE ReadSlot
    BY <2>1, <2>4, ReadSlotOK
  <2>5. CASE ClearSlot
    <3>1. at \in {"dispatch", "clear"} /\ \E result : Returning(result)
      BY <2>5, Zenon DEF ClearSlot
    <3> QED
      BY <2>1, <3>1, ReturningOK, Zenon
  <2>6. CASE Interrupt
    BY <2>1, <2>6, InterruptOK
  <2>7. CASE Return
    BY <2>1, <2>7, ReturnOK
  <2>8. CASE \E sc \in Calls, flags \in SUBSET UserFlags : Enter(sc[1], sc[2], flags)
    BY <2>1, <2>8, EnterOK, Zenon
  <2> QED
    BY <1>1, <2>2, <2>3, <2>4, <2>5, <2>6, <2>7, <2>8, Zenon DEF UserStep, SyscallStep
<1>2. CASE EnterUserMode
  BY <1>2, EnterUserModeOK
<1>3. CASE KernelMap \/ MapStep \/ KernelThread \/ KernelYield
  <2>1. UNCHANGED syscall_vars /\ stage' = stage
    BY <1>3, Zenon DEF KernelMap, MapStep, KernelThread, KernelYield, InKernel
  <2> QED
    BY <2>1, KernelOK
<1>4. CASE StackForCalls \/ PageForCode \/ MapCode \/ PageForStack \/ MapStack
  <2>1. UNCHANGED syscall_vars
    BY <1>4, Zenon DEF StackForCalls, PageForCode, MapCode, PageForStack, MapStack, Acquire,
                       MapOwned, InKernel
  <2>2. stage # "user" /\ stage' # "user"
    BY <1>4 DEF StackForCalls, PageForCode, MapCode, PageForStack, MapStack, Acquire, MapOwned
  <2> QED
    BY <2>1, <2>2, KernelOK
<1>5. CASE UNCHANGED vars
  <2>1. UNCHANGED syscall_vars /\ stage' = stage
    BY <1>5, Zenon DEF vars
  <2> QED
    BY <2>1, KernelOK
<1> QED
  BY <1>1, <1>2, <1>3, <1>4, <1>5, Zenon DEF Next

-----------------------------------------------------------------------------
(* No interrupt handler runs on the user's stack or inside a system call,  *)
(* and SYS_READ clears the keystroke it read: SFMASK, the TSS's stack and  *)
(* the stub's CLI-free body (syscall_asm.S, syscall.c:59, 80-90).          *)
THEOREM CallsUninterruptedCorrect == Spec => []CallsUninterrupted
<1>1. CallInv => CallsUninterrupted
  <2> SUFFICES ASSUME CallInv PROVE CallsUninterrupted
    OBVIOUS
  <2>1. at = "clear" => s_last_char = read
    BY Zenon DEF CallInv, Alone, InCall
  <2>2. ASSUME at = "handler" PROVE rsp = KERNEL /\ Len(kstack) = 1
    <3>1. rsp = KERNEL /\ \E x : kstack = <<x>>
      BY <2>2, Zenon DEF CallInv, HandlerOK
    <3>2. \A x : Len(<<x>>) = 1
      BY SMT
    <3> QED
      BY <3>1, <3>2, Zenon
  <2> QED
    BY <2>1, <2>2, Zenon DEF CallsUninterrupted
<1> QED
  BY <1>1, CallInvInit, CallInvNext, PTL DEF Spec

(* syscall_dispatch gets the number and the six arguments the user passed, *)
(* and the user gets back its stack pointer, flags and return address, and *)
(* the registers a C function preserves (syscall_asm.S:15-59).             *)
THEOREM ContextRestoredCorrect == Spec => []ContextRestored
<1>1. CallInv => ContextRestored
  <2> SUFFICES ASSUME CallInv PROVE ContextRestored
    OBVIOUS
  <2>1. ASSUME at = "user", entered.rsp # NOWHERE
        PROVE  /\ rsp = entered.rsp /\ rflags = entered.rflags /\ regs["rcx"] = "rip"
               /\ \A r \in Preserved : regs[r] = entered.regs[r]
    BY <2>1, Zenon DEF CallInv, PlacesOK, UserOK, Back, E
  <2>2. ASSUME at = "dispatch" PROVE ArgumentsArrive
    <3>1. InCall /\ ip = 20
      BY <2>2 DEF CallInv, Alone, InCall
    <3>2. /\ regs["rdi"] = E["rax"] /\ regs["rsi"] = E["rdi"] /\ regs["rdx"] = E["rsi"]
          /\ regs["rcx"] = E["rdx"] /\ regs["r8"] = E["r10"] /\ regs["r9"] = E["r8"]
      BY <3>1 DEF CallInv, ShuffleOK
    <3>3. Last(kstack) = E["r9"]
      <4>1. Depth(20) = 10 /\ 9 + 1 = 10 /\ 9 \in Nat
        BY SMT DEF Depth
      <4>2. kstack = Prefix(Saves, 9 + 1)
        BY <3>1, <4>1 DEF CallInv, StackOK
      <4>3. Last(kstack) = Saves[9 + 1]
        BY <4>1, <4>2, Shrinks, Zenon
      <4> QED
        BY <4>1, <4>3, SavedInOrder, Zenon
    <3>4. [n \in DOMAIN Arguments |-> E[Arguments[n]]]
            = <<E["rdi"], E["rsi"], E["rdx"], E["r10"], E["r8"], E["r9"]>>
      BY SMT DEF Arguments
    <3> QED
      BY <3>2, <3>3, <3>4, Zenon DEF ArgumentsArrive, Num, E
  <2> QED
    BY <2>1, <2>2, Zenon DEF ContextRestored, ArgumentsArrive
<1> QED
  BY <1>1, CallInvInit, CallInvNext, PTL DEF Spec

-----------------------------------------------------------------------------
(* Induction on the natural numbers, with a set for the property. *)
NatLess == {p \in Nat \X Nat : p[1] < p[2]}

LEMMA NatLessWF == IsWellFoundedOn(NatLess, Nat)
<1>1. NatLess = OpToRel(<, Nat)
  BY DEF NatLess, OpToRel
<1> QED
  BY <1>1, NatLessThanWellFounded

LEMMA LeastOf ==
    ASSUME NEW K, K \subseteq Nat, K # {}
    PROVE  \E m \in K : \A k \in K : ~(k < m)
<1>1. PICK m \in K : \A k \in K : ~(<<k, m>> \in NatLess)
  BY NatLessWF, WFMin, Zenon
<1>2. ASSUME NEW k \in K, k < m PROVE FALSE
  <2>1. <<k, m>> \in NatLess
    BY <1>2 DEF NatLess
  <2> QED
    BY <1>1, <2>1
<1> QED
  BY <1>2

LEMMA Induction ==
    ASSUME NEW S, 0 \in S, \A n \in S : n + 1 \in S
    PROVE  Nat \subseteq S
<1> DEFINE K == Nat \ S
<1>1. SUFFICES ASSUME K # {} PROVE FALSE
  OBVIOUS
<1>2. PICK m \in K : \A k \in K : ~(k < m)
  <2>1. K \subseteq Nat
    OBVIOUS
  <2> HIDE DEF K
  <2> QED BY <1>1, <2>1, LeastOf, Zenon
<1>3. m # 0 /\ m \in Nat
  OBVIOUS
<1>4. m - 1 \in Nat /\ m - 1 < m /\ (m - 1) + 1 = m
  BY <1>3
<1>5. m - 1 \in S
  BY <1>2, <1>4
<1> QED BY <1>4, <1>5

-----------------------------------------------------------------------------
(* The first thread is followed by the newest, and each other by the one   *)
(* created before it.                                                      *)
RingOK ==
    /\ next \in Seq(Nat) /\ Len(next) >= 1
    /\ \A t \in 1 .. Len(next) : next[t] = IF t = 1 THEN Len(next) ELSE t - 1
    /\ s_current_thread \in 1 .. Len(next)

(* Whose turn it is after n yields, of a ring of this size. *)
TurnOf(p, size, n) == IF n < p THEN p - n ELSE p - n + size
Turn(n) == TurnOf(s_current_thread, Len(next), n)

LEMMA TurnOfNext ==
    ASSUME NEW p \in Nat, NEW size \in Nat, NEW n \in Nat, p >= 1, p <= size, n + 1 <= size
    PROVE  /\ TurnOf(p, size, n) \in 1 .. size
           /\ TurnOf(p, size, n + 1) =
                IF TurnOf(p, size, n) = 1 THEN size ELSE TurnOf(p, size, n) - 1
<1>1. CASE n + 1 < p
  BY <1>1 DEF TurnOf
<1>2. CASE n + 1 = p
  BY <1>2 DEF TurnOf
<1>3. CASE n + 1 > p
  BY <1>3 DEF TurnOf
<1> QED
  BY <1>1, <1>2, <1>3

LEMMA TurnNext ==
    ASSUME RingOK, NEW n \in Nat, n + 1 <= Len(next)
    PROVE  /\ Turn(n) \in 1 .. Len(next)
           /\ Turn(n + 1) = IF Turn(n) = 1 THEN Len(next) ELSE Turn(n) - 1
<1>1. s_current_thread \in Nat /\ s_current_thread >= 1 /\ s_current_thread <= Len(next) /\ Len(next) \in Nat
  BY LenProperties DEF RingOK
<1> QED
  BY <1>1, TurnOfNext DEF Turn

LEMMA AfterIs ==
    ASSUME RingOK, NEW n \in 1 .. Len(next)
    PROVE  After(n) = Turn(n)
<1> DEFINE Def(f) == [m \in 0 .. n |-> IF m = 0 THEN s_current_thread ELSE next[f[m - 1]]]
           turn == CHOOSE f : f = Def(f)
           by == [m \in 0 .. n |-> Turn(m)]
<1>1. After(n) = turn[n]
  BY Zenon DEF After
<1>0. n \in Nat /\ Len(next) \in Nat /\ n <= Len(next)
  BY LenProperties DEF RingOK
<1>2. by = Def(by)
  <2>1. ASSUME NEW m \in 0 .. n
        PROVE  by[m] = IF m = 0 THEN s_current_thread ELSE next[by[m - 1]]
    <3>1. CASE m = 0
      BY <3>1, <1>0 DEF RingOK, Turn, TurnOf
    <3>2. CASE m # 0
      <4>0. m - 1 \in 0 .. n
        BY <3>2, <1>0
      <4>1. by[m - 1] = Turn(m - 1) /\ by[m] = Turn(m)
        <5>1. \A k \in 0 .. n : by[k] = Turn(k)
          OBVIOUS
        <5> HIDE DEF by
        <5> QED
          BY <4>0, <5>1, Zenon
      <4>5. m - 1 \in Nat /\ (m - 1) + 1 = m /\ m <= Len(next)
        BY <3>2, <1>0
      <4>2. Turn(m - 1) \in 1 .. Len(next)
        BY <4>5, TurnNext
      <4>3. Turn(m) = IF Turn(m - 1) = 1 THEN Len(next) ELSE Turn(m - 1) - 1
        BY <4>5, TurnNext
      <4> QED
        BY <3>2, <4>1, <4>2, <4>3 DEF RingOK
    <3> QED
      BY <3>1, <3>2
  <2> QED
    BY <2>1
<1>3. turn = Def(turn)
  <2> HIDE DEF by, Def
  <2> QED
    BY <1>2, Zenon
<1> HIDE DEF turn
<1>4. turn[0] = s_current_thread /\ \A m \in 1 .. n : turn[m] = next[turn[m - 1]]
  <2>1. \A m \in 0 .. n : turn[m] = IF m = 0 THEN s_current_thread ELSE next[turn[m - 1]]
    BY <1>3, Zenon
  <2>2. 0 \in 0 .. n /\ \A m \in 1 .. n : m \in 0 .. n /\ m # 0
    BY <1>0
  <2> QED
    BY <2>1, <2>2, Zenon
<1> DEFINE S == {m \in Nat : m <= n => turn[m] = Turn(m)}
<1>5. Nat \subseteq S
  <2>1. 0 \in S
    BY <1>0, <1>4 DEF RingOK, Turn, TurnOf
  <2>2. ASSUME NEW m \in S PROVE m + 1 \in S
    <3>1. CASE m + 1 <= n
      <4>1. turn[m] = Turn(m) /\ m + 1 \in 1 .. n /\ (m + 1) - 1 = m
        BY <3>1, <1>0
      <4>2. turn[m + 1] = next[Turn(m)]
        BY <1>4, <4>1, Zenon
      <4>3. Turn(m) \in 1 .. Len(next) /\ Turn(m + 1) = IF Turn(m) = 1 THEN Len(next) ELSE Turn(m) - 1
        <5>1. m \in Nat /\ m + 1 <= Len(next)
          BY <3>1, <1>0
        <5> QED
          BY <5>1, TurnNext
      <4>5. next[Turn(m)] = IF Turn(m) = 1 THEN Len(next) ELSE Turn(m) - 1
        <5>1. \A q \in 1 .. Len(next) : next[q] = IF q = 1 THEN Len(next) ELSE q - 1
          BY Zenon DEF RingOK
        <5> QED
          BY <4>3, <5>1, Zenon
      <4>6. turn[m + 1] = Turn(m + 1)
        BY <4>2, <4>3, <4>5, Zenon
      <4> QED
        BY <4>6
    <3> QED
      BY <3>1, <1>0
  <2> HIDE DEF S
  <2> QED
    BY <2>1, <2>2, Induction
<1> QED
  BY <1>0, <1>1, <1>5

LEMMA RingOKWhole == RingOK => RingWhole
<1> SUFFICES ASSUME RingOK PROVE RingWhole
  OBVIOUS
<1>1. Len(next) \in Nat /\ DOMAIN next = 1 .. Len(next)
  BY LenProperties DEF RingOK
<1>2. \A n \in 1 .. Len(next) : After(n) = Turn(n)
  BY AfterIs
<1>3. \A n \in 1 .. Len(next) : Turn(n) \in 1 .. Len(next)
  BY <1>1 DEF Turn, TurnOf, RingOK
<1>4. ASSUME NEW t \in 1 .. Len(next) PROVE \E n \in 1 .. Len(next) : Turn(n) = t
  <2> DEFINE n == IF t < s_current_thread THEN s_current_thread - t ELSE s_current_thread - t + Len(next)
  <2>1. n \in 1 .. Len(next) /\ Turn(n) = t
    BY <1>1 DEF Turn, TurnOf, RingOK
  <2> QED
    BY <2>1
<1> QED
  BY <1>1, <1>2, <1>3, <1>4, Zenon DEF RingWhole

LEMMA RingInit == ThreadsInit => RingOK
<1> SUFFICES ASSUME ThreadsInit PROVE RingOK
  OBVIOUS
<1>1. next = <<1>> /\ s_current_thread = 1
  BY DEF ThreadsInit
<1>2. next \in Seq(Nat) /\ Len(next) = 1 /\ next[1] = 1
  BY <1>1, SMT
<1> QED
  BY <1>1, <1>2 DEF RingOK

LEMMA RingYield == RingOK /\ Yield => RingOK'
<1> SUFFICES ASSUME RingOK, Yield PROVE RingOK'
  OBVIOUS
<1>1. s_current_thread' = next[s_current_thread] /\ next' = next
  BY DEF Yield
<1>2. Len(next) \in Nat
  BY LenProperties DEF RingOK
<1>3. next[s_current_thread] \in 1 .. Len(next)
  BY <1>2 DEF RingOK
<1> QED
  BY <1>1, <1>3 DEF RingOK

LEMMA RingCreate == RingOK /\ CreateThread => RingOK'
<1> SUFFICES ASSUME RingOK, CreateThread PROVE RingOK'
  OBVIOUS
<1> DEFINE L == Len(next)  linked == [next EXCEPT ![1] = L + 1]
<1>1. L \in Nat /\ L >= 1 /\ DOMAIN next = 1 .. L /\ next[1] = L
  BY LenProperties DEF RingOK
<1>2. next' = Append(linked, L) /\ s_current_thread' = s_current_thread
  BY <1>1 DEF CreateThread, Link, s_thread_list
<1>3. linked \in Seq(Nat) /\ Len(linked) = L /\ \A t \in 1 .. L : linked[t] = IF t = 1 THEN L + 1 ELSE next[t]
  <2>1. linked \in Seq(Nat) /\ Len(linked) = L
    BY <1>1, ExceptSeq DEF RingOK
  <2> QED
    BY <1>1, <2>1
<1> HIDE DEF L, linked
<1>4. next' \in Seq(Nat) /\ Len(next') = L + 1 /\ next'[L + 1] = L /\ \A t \in 1 .. L : next'[t] = linked[t]
  BY <1>1, <1>2, <1>3, AppendProperties
<1>5. \A t \in 2 .. L : next[t] = t - 1
  BY <1>1 DEF RingOK, L
<1>6. \A t \in 1 .. L + 1 : next'[t] = IF t = 1 THEN L + 1 ELSE t - 1
  BY <1>1, <1>3, <1>4, <1>5
<1>7. s_current_thread' \in 1 .. L + 1
  BY <1>1, <1>2 DEF RingOK, L
<1> QED
  BY <1>1, <1>4, <1>6, <1>7 DEF RingOK

(* As many yields as there are threads give each its turn, whenever threads *)
(* were created and whichever is current (sched.c:33-34, 39-44).            *)
THEOREM RingWholeCorrect == Spec => []RingWhole
<1>1. Init => RingOK
  BY RingInit, Zenon DEF Init
<1>2. RingOK /\ [Next]_vars => RingOK'
  <2> SUFFICES ASSUME RingOK, [Next]_vars PROVE RingOK'
    OBVIOUS
  <2>1. CreateThread \/ Yield \/ UNCHANGED thread_vars
    BY Zenon DEF Next, KernelMap, MapStep, KernelThread, KernelYield, StackForCalls, PageForCode,
                 MapCode, PageForStack, MapStack, Acquire, MapOwned, EnterUserMode, UserStep, vars
  <2>2. CASE UNCHANGED thread_vars
    BY <2>2 DEF RingOK, thread_vars
  <2> QED
    BY <2>1, <2>2, RingYield, RingCreate
<1> QED
  BY <1>1, <1>2, RingOKWhole, PTL DEF Spec

-----------------------------------------------------------------------------
(***************************************************************************)
(* What frames are used for and what vmm_map_page promises, for every set  *)
(* of frames and any number of indices to a table.                         *)
(*                                                                         *)
(* The tables are a tree: each has a level, and the entry that links it,   *)
(* neither of which the code keeps.  The lemmas about a walk take the      *)
(* tables as a parameter, so that they can be used before and after a step.*)
(***************************************************************************)

Entries == [present : BOOLEAN, user : BOOLEAN, frame : Memory]
Contents == [Memory -> [Indices -> Entries]]

Levels == {1, 2, 3, 4}

(* The walk of a virtual address: the table and the entry at a level. *)
First(tb, v) == tb[Root][v[1]]
Second(tb, v) == tb[First(tb, v).frame][v[2]]
Third(tb, v) == tb[Second(tb, v).frame][v[3]]
Fourth(tb, v) == tb[Third(tb, v).frame][v[4]]

Table(tb, v, k) ==
    IF k = 1 THEN Root
    ELSE IF k = 2 THEN First(tb, v).frame
    ELSE IF k = 3 THEN Second(tb, v).frame ELSE Third(tb, v).frame

EntryAt(tb, v, k) == tb[Table(tb, v, k)][v[k]]

Reached(tb, v, k) ==
    /\ k \in {2, 3, 4} => First(tb, v).present
    /\ k \in {3, 4} => Second(tb, v).present
    /\ k = 4 => Third(tb, v).present

Mapped(tb, v) ==
    First(tb, v).present /\ Second(tb, v).present /\ Third(tb, v).present /\ Fourth(tb, v).present

Open(tb, v) ==
    First(tb, v).user /\ Second(tb, v).user /\ Third(tb, v).user /\ Fourth(tb, v).user

(* Every table has a level and one place. *)
Child(tb, lev, up, t, n) == lev[tb[t][n].frame] = lev[t] + 1 /\ up[tb[t][n].frame] = <<t, n>>

Tree(tb, lev, up) ==
    /\ tb \in Contents /\ lev \in [Memory -> 0 .. 4] /\ lev[Root] = 1
    /\ \A t \in Memory : lev[t] \in {1, 2, 3} =>
         \A n \in Indices : tb[t][n].present => Child(tb, lev, up, t, n)

(* What ring 3 may use it can reach. *)
Opened(tb) == \A v \in Virts : Mapped(tb, v) /\ Fourth(tb, v).user => Open(tb, v)

LEMMA IndicesOf ==
    ASSUME NEW v \in Virts
    PROVE  v[1] \in Indices /\ v[2] \in Indices /\ v[3] \in Indices /\ v[4] \in Indices
           /\ v = <<v[1], v[2], v[3], v[4]>>
  BY DEF Virts

LEMMA EntriesAt ==
    /\ \A tb, v : EntryAt(tb, v, 1) = First(tb, v) /\ EntryAt(tb, v, 2) = Second(tb, v)
                  /\ EntryAt(tb, v, 3) = Third(tb, v) /\ EntryAt(tb, v, 4) = Fourth(tb, v)
    /\ \A tb, v : Table(tb, v, 1) = Root /\ Table(tb, v, 2) = First(tb, v).frame
                  /\ Table(tb, v, 3) = Second(tb, v).frame /\ Table(tb, v, 4) = Third(tb, v).frame
  BY DEF EntryAt, Table, First, Second, Third, Fourth

LEMMA Typed ==
    ASSUME NEW tb \in Contents, NEW t \in Memory, NEW n \in Indices
    PROVE  tb[t][n] \in Entries /\ tb[t][n].frame \in Memory /\ tb[t][n].user \in BOOLEAN
  BY DEF Contents, Entries

LEMMA RootInMemory == Root \in Memory
  BY DEF Memory

(* Level by level. *)
TreeWalk(tb, lev, up, v) ==
    /\ First(tb, v).present =>
         /\ First(tb, v).frame \in Memory /\ lev[First(tb, v).frame] = 2
         /\ up[First(tb, v).frame] = <<Root, v[1]>>
    /\ First(tb, v).present /\ Second(tb, v).present =>
         /\ Second(tb, v).frame \in Memory /\ lev[Second(tb, v).frame] = 3
         /\ up[Second(tb, v).frame] = <<First(tb, v).frame, v[2]>>
    /\ First(tb, v).present /\ Second(tb, v).present /\ Third(tb, v).present =>
         /\ Third(tb, v).frame \in Memory /\ lev[Third(tb, v).frame] = 4
         /\ up[Third(tb, v).frame] = <<Second(tb, v).frame, v[3]>>

LEMMA TablesReached ==
    ASSUME NEW tb, NEW lev, NEW up, Tree(tb, lev, up), NEW v \in Virts
    PROVE  TreeWalk(tb, lev, up, v)
<1>1. ASSUME NEW k \in {1, 2, 3}, NEW t \in Memory, lev[t] = k, NEW n \in Indices, tb[t][n].present
      PROVE  /\ tb[t][n].frame \in Memory
             /\ lev[tb[t][n].frame] = k + 1 /\ up[tb[t][n].frame] = <<t, n>>
  <2>1. lev[t] \in {1, 2, 3}
    BY <1>1
  <2>2. tb \in Contents /\ Child(tb, lev, up, t, n)
    BY <1>1, <2>1, Zenon DEF Tree
  <2> QED
    BY <1>1, <2>2, Typed, Zenon DEF Child
<1>2. lev[Root] = 1 /\ 1 \in {1, 2, 3} /\ 2 \in {1, 2, 3} /\ 3 \in {1, 2, 3}
      /\ 1 + 1 = 2 /\ 2 + 1 = 3 /\ 3 + 1 = 4
  BY DEF Tree
<1>3. ASSUME First(tb, v).present
      PROVE  /\ First(tb, v).frame \in Memory /\ lev[First(tb, v).frame] = 2
             /\ up[First(tb, v).frame] = <<Root, v[1]>>
  BY <1>1, <1>2, <1>3, IndicesOf, RootInMemory, ZenonT(40) DEF First
<1>4. ASSUME First(tb, v).present, Second(tb, v).present
      PROVE  /\ Second(tb, v).frame \in Memory /\ lev[Second(tb, v).frame] = 3
             /\ up[Second(tb, v).frame] = <<First(tb, v).frame, v[2]>>
  <2>1. First(tb, v).frame \in Memory /\ lev[First(tb, v).frame] = 2 /\ v[2] \in Indices
    BY <1>3, <1>4, IndicesOf, Zenon
  <2>2. tb[First(tb, v).frame][v[2]].present
    BY <1>4, Zenon DEF Second
  <2> QED
    BY <1>1, <1>2, <2>1, <2>2, ZenonT(40) DEF Second
<1>5. ASSUME First(tb, v).present, Second(tb, v).present, Third(tb, v).present
      PROVE  /\ Third(tb, v).frame \in Memory /\ lev[Third(tb, v).frame] = 4
             /\ up[Third(tb, v).frame] = <<Second(tb, v).frame, v[3]>>
  BY <1>1, <1>2, <1>4, <1>5, IndicesOf, ZenonT(40) DEF Third
<1> QED
  BY <1>3, <1>4, <1>5, Zenon DEF TreeWalk

LEMMA LevelsReached ==
    ASSUME NEW tb, NEW lev, NEW up, Tree(tb, lev, up), NEW v \in Virts, NEW k \in Levels,
           Reached(tb, v, k)
    PROVE  Table(tb, v, k) \in Memory /\ lev[Table(tb, v, k)] = k /\ EntryAt(tb, v, k) \in Entries
<1>1. Table(tb, v, k) \in Memory /\ lev[Table(tb, v, k)] = k
  <2>1. CASE k = 1
    BY <2>1, RootInMemory, EntriesAt DEF Tree
  <2>2. CASE k = 2
    BY <2>2, TablesReached, EntriesAt DEF Reached, TreeWalk
  <2>3. CASE k = 3
    BY <2>3, TablesReached, EntriesAt DEF Reached, TreeWalk
  <2>4. CASE k = 4
    BY <2>4, TablesReached, EntriesAt DEF Reached, TreeWalk
  <2> QED
    BY <2>1, <2>2, <2>3, <2>4 DEF Levels
<1>2. v[k] \in Indices
  BY IndicesOf DEF Levels
<1> QED
  BY <1>1, <1>2, Typed DEF Tree, EntryAt

(* A table is on the way of no other addresses than share the way to it. *)
LEMMA OneWay ==
    ASSUME NEW tb, NEW lev, NEW up, Tree(tb, lev, up), NEW u \in Virts, NEW v \in Virts,
           Reached(tb, u, 4), Reached(tb, v, 4), Table(tb, u, 4) = Table(tb, v, 4), u[4] = v[4]
    PROVE  u = v
<1>0. TreeWalk(tb, lev, up, u) /\ TreeWalk(tb, lev, up, v)
  BY TablesReached
<1>1. /\ First(tb, u).present /\ Second(tb, u).present /\ Third(tb, u).present
      /\ First(tb, v).present /\ Second(tb, v).present /\ Third(tb, v).present
  BY DEF Reached
<1>2. Third(tb, u).frame = Third(tb, v).frame
  BY EntriesAt, Zenon
<1>3. <<Second(tb, u).frame, u[3]>> = <<Second(tb, v).frame, v[3]>>
  BY <1>1, <1>2, <1>0, Zenon DEF TreeWalk
<1>4. Second(tb, u).frame = Second(tb, v).frame /\ u[3] = v[3]
  BY <1>3
<1>5. <<First(tb, u).frame, u[2]>> = <<First(tb, v).frame, v[2]>>
  BY <1>1, <1>4, <1>0, Zenon DEF TreeWalk
<1>6. First(tb, u).frame = First(tb, v).frame /\ u[2] = v[2]
  BY <1>5
<1>7. <<Root, u[1]>> = <<Root, v[1]>>
  BY <1>1, <1>6, <1>0, Zenon DEF TreeWalk
<1>8. u[1] = v[1]
  BY <1>7
<1> QED
  BY <1>4, <1>6, <1>8, IndicesOf, Zenon

(* A walk that meets no change goes the same way. *)
SameAt(tb, tb2, v, k) == tb2[Table(tb, v, k)][v[k]] = EntryAt(tb, v, k)

SameWalk(tb, tb2, v) ==
    /\ Table(tb2, v, 1) = Table(tb, v, 1)
    /\ SameAt(tb, tb2, v, 1) => First(tb2, v) = First(tb, v) /\ Table(tb2, v, 2) = Table(tb, v, 2)
    /\ SameAt(tb, tb2, v, 1) /\ SameAt(tb, tb2, v, 2) =>
         Second(tb2, v) = Second(tb, v) /\ Table(tb2, v, 3) = Table(tb, v, 3)
    /\ SameAt(tb, tb2, v, 1) /\ SameAt(tb, tb2, v, 2) /\ SameAt(tb, tb2, v, 3) =>
         Third(tb2, v) = Third(tb, v) /\ Table(tb2, v, 4) = Table(tb, v, 4)
    /\ SameAt(tb, tb2, v, 1) /\ SameAt(tb, tb2, v, 2) /\ SameAt(tb, tb2, v, 3)
         /\ SameAt(tb, tb2, v, 4) => Fourth(tb2, v) = Fourth(tb, v)

LEMMA SameWay == ASSUME NEW tb, NEW tb2, NEW v PROVE SameWalk(tb, tb2, v)
<1>1. /\ SameAt(tb, tb2, v, 1) <=> tb2[Root][v[1]] = First(tb, v)
      /\ SameAt(tb, tb2, v, 2) <=> tb2[First(tb, v).frame][v[2]] = Second(tb, v)
      /\ SameAt(tb, tb2, v, 3) <=> tb2[Second(tb, v).frame][v[3]] = Third(tb, v)
      /\ SameAt(tb, tb2, v, 4) <=> tb2[Third(tb, v).frame][v[4]] = Fourth(tb, v)
  <2>1. /\ Table(tb, v, 1) = Root /\ Table(tb, v, 2) = First(tb, v).frame
        /\ Table(tb, v, 3) = Second(tb, v).frame /\ Table(tb, v, 4) = Third(tb, v).frame
    BY EntriesAt
  <2>2. /\ EntryAt(tb, v, 1) = First(tb, v) /\ EntryAt(tb, v, 2) = Second(tb, v)
        /\ EntryAt(tb, v, 3) = Third(tb, v) /\ EntryAt(tb, v, 4) = Fourth(tb, v)
    BY EntriesAt
  <2>3. SameAt(tb, tb2, v, 1) <=> tb2[Root][v[1]] = First(tb, v)
    BY <2>1, <2>2, Zenon DEF SameAt
  <2>4. SameAt(tb, tb2, v, 2) <=> tb2[First(tb, v).frame][v[2]] = Second(tb, v)
    BY <2>1, <2>2, Zenon DEF SameAt
  <2>5. SameAt(tb, tb2, v, 3) <=> tb2[Second(tb, v).frame][v[3]] = Third(tb, v)
    BY <2>1, <2>2, Zenon DEF SameAt
  <2>6. SameAt(tb, tb2, v, 4) <=> tb2[Third(tb, v).frame][v[4]] = Fourth(tb, v)
    BY <2>1, <2>2, Zenon DEF SameAt
  <2> QED
    BY <2>3, <2>4, <2>5, <2>6
<1>2. SameAt(tb, tb2, v, 1) => First(tb2, v) = First(tb, v)
  BY <1>1, Zenon DEF First
<1>3. SameAt(tb, tb2, v, 1) /\ SameAt(tb, tb2, v, 2) => Second(tb2, v) = Second(tb, v)
  BY <1>1, <1>2, Zenon DEF Second
<1>4. SameAt(tb, tb2, v, 1) /\ SameAt(tb, tb2, v, 2) /\ SameAt(tb, tb2, v, 3) =>
        Third(tb2, v) = Third(tb, v)
  BY <1>1, <1>3, Zenon DEF Third
<1>5. SameAt(tb, tb2, v, 1) /\ SameAt(tb, tb2, v, 2) /\ SameAt(tb, tb2, v, 3)
        /\ SameAt(tb, tb2, v, 4) => Fourth(tb2, v) = Fourth(tb, v)
  BY <1>1, <1>4, Zenon DEF Fourth
<1> QED
  BY <1>2, <1>3, <1>4, <1>5, EntriesAt, ZenonT(40) DEF SameWalk

(***************************************************************************)
(* What the four writes to a table do to every walk.                       *)
(***************************************************************************)
Kept(tb, tb2, v) ==
    /\ Mapped(tb2, v) <=> Mapped(tb, v)
    /\ Mapped(tb, v) =>
         /\ First(tb2, v) = First(tb, v) /\ Second(tb2, v) = Second(tb, v)
         /\ Third(tb2, v) = Third(tb, v) /\ Fourth(tb2, v) = Fourth(tb, v)

(* The first entry that is missing is missing still. *)
LEMMA KeptIf ==
    ASSUME NEW tb, NEW tb2, NEW v,
           ASSUME NEW k \in Levels, Reached(tb, v, k)
           PROVE  SameAt(tb, tb2, v, k)
    PROVE  Kept(tb, tb2, v)
<1>1. SameAt(tb, tb2, v, 1)
  BY DEF Reached, Levels
<1>2. First(tb, v).present => SameAt(tb, tb2, v, 2)
  BY DEF Reached, Levels
<1>3. First(tb, v).present /\ Second(tb, v).present => SameAt(tb, tb2, v, 3)
  BY DEF Reached, Levels
<1>4. First(tb, v).present /\ Second(tb, v).present /\ Third(tb, v).present => SameAt(tb, tb2, v, 4)
  BY DEF Reached, Levels
<1> QED
  BY <1>1, <1>2, <1>3, <1>4, SameWay, ZenonT(40) DEF Kept, Mapped, SameWalk

(* One entry of one table is written. *)
Written(tb, tb2, t, n, e) ==
    \A f \in Memory : \A m \in Indices : tb2[f][m] = IF f = t /\ m = n THEN e ELSE tb[f][m]

LEMMA WriteOK ==
    ASSUME NEW tb \in Contents, NEW t \in Memory, NEW n \in Indices, NEW e \in Entries
    PROVE  /\ [tb EXCEPT ![t][n] = e] \in Contents
           /\ Written(tb, [tb EXCEPT ![t][n] = e], t, n, e)
  BY Zenon DEF Contents, Written

(* A frame that is no table is cleared. *)
LEMMA ClearKeeps ==
    ASSUME NEW tb, NEW lev, NEW up, Tree(tb, lev, up), NEW v \in Virts,
           NEW f \in Memory, lev[f] = 0, NEW contents
    PROVE  Kept(tb, [tb EXCEPT ![f] = contents], v)
<1> DEFINE tb2 == [tb EXCEPT ![f] = contents]
<1>1. ASSUME NEW k \in Levels, Reached(tb, v, k) PROVE SameAt(tb, tb2, v, k)
  <2>1. Table(tb, v, k) \in Memory /\ lev[Table(tb, v, k)] = k
    BY <1>1, LevelsReached
  <2>2. Table(tb, v, k) # f
    BY <2>1 DEF Levels
  <2>3. tb2[Table(tb, v, k)] = tb[Table(tb, v, k)]
    BY <2>1, <2>2, Zenon DEF Tree, Contents
  <2> QED
    BY <2>3, Zenon DEF SameAt, EntryAt
<1> HIDE DEF tb2
<1>2. Kept(tb, tb2, v)
  BY <1>1, KeptIf
<1> QED
  BY <1>2 DEF tb2

(* A missing entry comes to link a table with nothing in it. *)
LEMMA LinkKeeps ==
    ASSUME NEW tb, NEW lev, NEW up, Tree(tb, lev, up), NEW v \in Virts,
           NEW t \in Memory, lev[t] \in {1, 2, 3}, NEW n \in Indices, ~tb[t][n].present,
           NEW e, NEW tb2, Written(tb, tb2, t, n, e),
           e.frame \in Memory, e.frame # t, \A m \in Indices : ~tb[e.frame][m].present
    PROVE  Kept(tb, tb2, v)
<1>1. ASSUME NEW k \in Levels, Reached(tb, v, k)
      PROVE  SameAt(tb, tb2, v, k) \/ (Table(tb, v, k) = t /\ v[k] = n /\ lev[t] = k)
  <2>1. Table(tb, v, k) \in Memory /\ lev[Table(tb, v, k)] = k /\ v[k] \in Indices
    BY <1>1, LevelsReached, IndicesOf DEF Levels
  <2> QED
    BY <2>1, Zenon DEF SameAt, EntryAt, Written
<1>2. CASE \A k \in Levels : Reached(tb, v, k) => SameAt(tb, tb2, v, k)
  BY <1>2, KeptIf, Zenon
<1>3. ASSUME NEW k \in Levels, Reached(tb, v, k), ~SameAt(tb, tb2, v, k)
      PROVE  ~Mapped(tb, v) /\ ~Mapped(tb2, v)
  <2>1. Table(tb, v, k) = t /\ v[k] = n /\ k \in {1, 2, 3}
    BY <1>1, <1>3, Zenon
  <2>2. ~EntryAt(tb, v, k).present
    BY <2>1, Zenon DEF EntryAt
  <2>3. ~Mapped(tb, v)
    BY <2>1, <2>2, EntriesAt DEF Mapped
  <2>4. ASSUME NEW j \in Levels, j < k PROVE SameAt(tb, tb2, v, j)
    <3>1. Reached(tb, v, j)
      BY <1>3, <2>4 DEF Levels, Reached
    <3>2. lev[t] # j
      <4>1. lev[t] = k
        BY <1>1, <1>3, Zenon
      <4> QED
        BY <4>1, <2>4 DEF Levels
    <3> QED
      BY <1>1, <3>1, <3>2, Zenon
  <2>11. SameWalk(tb, tb2, v)
    BY SameWay
  <2>5. Table(tb2, v, k) = t
    <3>1. CASE k = 1
      BY <2>1, <3>1, <2>11, Zenon DEF SameWalk
    <3>2. CASE k = 2
      <4>1. SameAt(tb, tb2, v, 1)
        BY <2>4, <3>2 DEF Levels
      <4> QED
        BY <2>1, <3>2, <4>1, <2>11, Zenon DEF SameWalk
    <3>3. CASE k = 3
      <4>1. SameAt(tb, tb2, v, 1) /\ SameAt(tb, tb2, v, 2)
        BY <2>4, <3>3 DEF Levels
      <4> QED
        BY <2>1, <3>3, <4>1, <2>11, Zenon DEF SameWalk
    <3> QED
      BY <2>1, <3>1, <3>2, <3>3
  <2>6. EntryAt(tb2, v, k) = e
    BY <2>1, <2>5, Zenon DEF EntryAt, Written
  <2>7. \A m \in Indices : ~tb2[e.frame][m].present
    BY Zenon DEF Written
  <2>8. k + 1 \in Levels /\ Table(tb2, v, k + 1) = e.frame
    BY <2>1, <2>6, EntriesAt DEF Levels
  <2>9. ~EntryAt(tb2, v, k + 1).present
    <3>1. v[k + 1] \in Indices
      BY <2>8, IndicesOf DEF Levels
    <3> QED
      BY <2>7, <2>8, <3>1, Zenon DEF EntryAt
  <2>10. ~Mapped(tb2, v)
    BY <2>8, <2>9, EntriesAt DEF Mapped, Levels
  <2> QED
    BY <2>3, <2>10
<1> QED
  BY <1>2, <1>3, Zenon DEF Kept

(* The last entry of one walk is written. *)
LEMMA LeafKeeps ==
    ASSUME NEW tb, NEW lev, NEW up, Tree(tb, lev, up), NEW u \in Virts, Reached(tb, u, 4),
           NEW v \in Virts, v # u,
           NEW e, NEW tb2, Written(tb, tb2, Table(tb, u, 4), u[4], e)
    PROVE  Kept(tb, tb2, v)
<1>1. ASSUME NEW k \in Levels, Reached(tb, v, k) PROVE SameAt(tb, tb2, v, k)
  <2>1. Table(tb, v, k) \in Memory /\ lev[Table(tb, v, k)] = k /\ v[k] \in Indices
    BY <1>1, LevelsReached, IndicesOf DEF Levels
  <2>2. lev[Table(tb, u, 4)] = 4
    BY LevelsReached DEF Levels
  <2>3. ~(Table(tb, v, k) = Table(tb, u, 4) /\ v[k] = u[4])
    <3>1. SUFFICES ASSUME Table(tb, v, k) = Table(tb, u, 4), v[k] = u[4] PROVE FALSE
      OBVIOUS
    <3>2. k = 4
      BY <2>1, <2>2, <3>1
    <3>3. Reached(tb, v, 4) /\ Table(tb, v, 4) = Table(tb, u, 4) /\ v[4] = u[4]
      BY <1>1, <3>1, <3>2
    <3> QED
      BY <3>3, OneWay
  <2> QED
    BY <2>1, <2>3, Zenon DEF SameAt, EntryAt, Written
<1> QED
  BY <1>1, KeptIf

LEMMA LeafWritten ==
    ASSUME NEW tb, NEW lev, NEW up, Tree(tb, lev, up), NEW u \in Virts, Reached(tb, u, 4),
           NEW e, NEW tb2, Written(tb, tb2, Table(tb, u, 4), u[4], e)
    PROVE  /\ First(tb2, u) = First(tb, u) /\ Second(tb2, u) = Second(tb, u)
           /\ Third(tb2, u) = Third(tb, u) /\ Fourth(tb2, u) = e
<1>1. ASSUME NEW k \in {1, 2, 3} PROVE SameAt(tb, tb2, u, k)
  <2>1. Reached(tb, u, k) /\ k \in Levels /\ 4 \in Levels
    BY DEF Reached, Levels
  <2>2. Table(tb, u, k) \in Memory /\ lev[Table(tb, u, k)] = k /\ u[k] \in Indices
    BY <2>1, LevelsReached, IndicesOf DEF Levels
  <2>3. lev[Table(tb, u, 4)] = 4
    BY <2>1, LevelsReached
  <2>4. Table(tb, u, k) # Table(tb, u, 4)
    BY <2>2, <2>3
  <2> QED
    BY <2>2, <2>4, Zenon DEF SameAt, EntryAt, Written
<1>2. SameAt(tb, tb2, u, 1) /\ SameAt(tb, tb2, u, 2) /\ SameAt(tb, tb2, u, 3)
  BY <1>1
<1>5. SameWalk(tb, tb2, u)
  BY SameWay
<1>3. Table(tb2, u, 4) = Table(tb, u, 4)
  BY <1>2, <1>5, Zenon DEF SameWalk
<1>4. EntryAt(tb2, u, 4) = e
  <2>1. Table(tb, u, 4) \in Memory /\ u[4] \in Indices
    BY LevelsReached, IndicesOf DEF Levels
  <2> QED
    BY <1>3, <2>1, Zenon DEF EntryAt, Written
<1> QED
  BY <1>2, <1>3, <1>4, <1>5, EntriesAt, Zenon DEF SameWalk

(* An entry that links a table is opened to ring 3. *)
LEMMA OpenKeeps ==
    ASSUME NEW tb, NEW tb2, NEW v \in Virts, tb \in Contents,
           NEW t \in Memory, NEW n \in Indices, NEW e, Written(tb, tb2, t, n, e),
           e.frame = tb[t][n].frame, e.present = tb[t][n].present, tb[t][n].user => e.user
    PROVE  /\ \A k \in Levels : Table(tb2, v, k) = Table(tb, v, k)
           /\ \A k \in Levels : EntryAt(tb2, v, k).present = EntryAt(tb, v, k).present
           /\ \A k \in Levels : EntryAt(tb2, v, k).frame = EntryAt(tb, v, k).frame
           /\ \A k \in Levels : EntryAt(tb, v, k).user => EntryAt(tb2, v, k).user
<1>1. ASSUME NEW f \in Memory, NEW m \in Indices
      PROVE  /\ tb2[f][m].frame = tb[f][m].frame /\ tb2[f][m].present = tb[f][m].present
             /\ tb[f][m].user => tb2[f][m].user
             /\ tb[f][m].frame \in Memory
  BY Typed, Zenon DEF Written
<1>2. /\ First(tb2, v).frame = First(tb, v).frame /\ First(tb2, v).present = First(tb, v).present
      /\ First(tb, v).user => First(tb2, v).user
      /\ First(tb, v).frame \in Memory
  BY <1>1, IndicesOf, RootInMemory, Zenon DEF First
<1>3. /\ Second(tb2, v).frame = Second(tb, v).frame /\ Second(tb2, v).present = Second(tb, v).present
      /\ Second(tb, v).user => Second(tb2, v).user
      /\ Second(tb, v).frame \in Memory
  <2>1. Second(tb2, v) = tb2[First(tb, v).frame][v[2]] /\ Second(tb, v) = tb[First(tb, v).frame][v[2]]
    BY <1>2, Zenon DEF Second
  <2>2. First(tb, v).frame \in Memory /\ v[2] \in Indices
    BY <1>2, IndicesOf, Zenon
  <2>3. /\ tb2[First(tb, v).frame][v[2]].frame = tb[First(tb, v).frame][v[2]].frame
        /\ tb2[First(tb, v).frame][v[2]].present = tb[First(tb, v).frame][v[2]].present
        /\ tb[First(tb, v).frame][v[2]].user => tb2[First(tb, v).frame][v[2]].user
        /\ tb[First(tb, v).frame][v[2]].frame \in Memory
    BY <1>1, <2>2, Zenon
  <2> QED
    BY <2>1, <2>3, Zenon
<1>4. /\ Third(tb2, v).frame = Third(tb, v).frame /\ Third(tb2, v).present = Third(tb, v).present
      /\ Third(tb, v).user => Third(tb2, v).user
      /\ Third(tb, v).frame \in Memory
  <2>1. Third(tb2, v) = tb2[Second(tb, v).frame][v[3]] /\ Third(tb, v) = tb[Second(tb, v).frame][v[3]]
    BY <1>3, Zenon DEF Third
  <2>2. Second(tb, v).frame \in Memory /\ v[3] \in Indices
    BY <1>3, IndicesOf, Zenon
  <2>3. /\ tb2[Second(tb, v).frame][v[3]].frame = tb[Second(tb, v).frame][v[3]].frame
        /\ tb2[Second(tb, v).frame][v[3]].present = tb[Second(tb, v).frame][v[3]].present
        /\ tb[Second(tb, v).frame][v[3]].user => tb2[Second(tb, v).frame][v[3]].user
        /\ tb[Second(tb, v).frame][v[3]].frame \in Memory
    BY <1>1, <2>2, Zenon
  <2> QED
    BY <2>1, <2>3, Zenon
<1>5. /\ Fourth(tb2, v).frame = Fourth(tb, v).frame /\ Fourth(tb2, v).present = Fourth(tb, v).present
      /\ Fourth(tb, v).user => Fourth(tb2, v).user
  <2>1. Fourth(tb2, v) = tb2[Third(tb, v).frame][v[4]] /\ Fourth(tb, v) = tb[Third(tb, v).frame][v[4]]
    BY <1>4, Zenon DEF Fourth
  <2>2. Third(tb, v).frame \in Memory /\ v[4] \in Indices
    BY <1>4, IndicesOf, Zenon
  <2>3. /\ tb2[Third(tb, v).frame][v[4]].frame = tb[Third(tb, v).frame][v[4]].frame
        /\ tb2[Third(tb, v).frame][v[4]].present = tb[Third(tb, v).frame][v[4]].present
        /\ tb[Third(tb, v).frame][v[4]].user => tb2[Third(tb, v).frame][v[4]].user
        /\ tb[Third(tb, v).frame][v[4]].frame \in Memory
    BY <1>1, <2>2, Zenon
  <2> QED
    BY <2>1, <2>3, Zenon
<1>6. \A k \in Levels : k = 1 \/ k = 2 \/ k = 3 \/ k = 4
  BY DEF Levels
<1>7. ASSUME NEW k \in Levels
      PROVE  /\ Table(tb2, v, k) = Table(tb, v, k)
             /\ EntryAt(tb2, v, k).present = EntryAt(tb, v, k).present
             /\ EntryAt(tb2, v, k).frame = EntryAt(tb, v, k).frame
             /\ EntryAt(tb, v, k).user => EntryAt(tb2, v, k).user
  <2>1. CASE k = 1
    BY <1>2, <2>1, EntriesAt, Zenon
  <2>2. CASE k = 2
    BY <1>2, <1>3, <2>2, EntriesAt, ZenonT(40)
  <2>3. CASE k = 3
    BY <1>3, <1>4, <2>3, EntriesAt, ZenonT(40)
  <2>4. CASE k = 4
    BY <1>4, <1>5, <2>4, EntriesAt, ZenonT(40)
  <2> QED
    BY <1>6, <2>1, <2>2, <2>3, <2>4
<1> QED
  BY <1>7, Zenon

(***************************************************************************)
(* And to the tree, and to what the walks come to.                         *)
(***************************************************************************)
Found(tb, v) ==
    IF Mapped(tb, v) THEN [frame |-> Fourth(tb, v).frame, user |-> Open(tb, v)] ELSE UNMAPPED

LEMMA KeptFound ==
    ASSUME NEW tb, NEW tb2, NEW v, Kept(tb, tb2, v)
    PROVE  Found(tb2, v) = Found(tb, v)
<1>1. CASE Mapped(tb, v)
  <2>1. /\ First(tb2, v) = First(tb, v) /\ Second(tb2, v) = Second(tb, v)
        /\ Third(tb2, v) = Third(tb, v) /\ Fourth(tb2, v) = Fourth(tb, v)
        /\ Mapped(tb2, v)
    BY <1>1, Zenon DEF Kept
  <2>2. [frame |-> Fourth(tb2, v).frame, user |-> Open(tb2, v)]
          = [frame |-> Fourth(tb, v).frame, user |-> Open(tb, v)]
    BY <2>1, Zenon DEF Open
  <2> QED
    BY <1>1, <2>1, <2>2, Zenon DEF Found
<1>2. CASE ~Mapped(tb, v)
  BY <1>2, Zenon DEF Kept, Found
<1> QED
  BY <1>1, <1>2

LEMMA KeptOpened ==
    ASSUME NEW tb, NEW tb2, Opened(tb), \A v \in Virts : Kept(tb, tb2, v)
    PROVE  Opened(tb2)
  BY Zenon DEF Opened, Kept, Open

LEMMA TreeIf ==
    ASSUME NEW tb, NEW lev, NEW up, Tree(tb, lev, up), NEW tb2 \in Contents,
           ASSUME NEW x \in Memory, lev[x] \in {1, 2, 3}, NEW m \in Indices
           PROVE  /\ tb2[x][m].frame = tb[x][m].frame
                  /\ tb2[x][m].present => tb[x][m].present
    PROVE  Tree(tb2, lev, up)
<1>1. ASSUME NEW x \in Memory, lev[x] \in {1, 2, 3}, NEW m \in Indices, tb2[x][m].present
      PROVE  Child(tb2, lev, up, x, m)
  <2>1. tb2[x][m].frame = tb[x][m].frame /\ tb[x][m].present
    BY <1>1, Zenon
  <2>2. Child(tb, lev, up, x, m)
    BY <1>1, <2>1, Zenon DEF Tree
  <2> QED
    BY <2>1, <2>2, Zenon DEF Child
<1> QED
  BY <1>1, Zenon DEF Tree

LEMMA ClearTree ==
    ASSUME NEW tb, NEW lev, NEW up, Tree(tb, lev, up), NEW f \in Memory, lev[f] = 0
    PROVE  Tree([tb EXCEPT ![f] = Zeroed], lev, up)
<1> DEFINE tb2 == [tb EXCEPT ![f] = Zeroed]
<1>1. Zeroed \in [Indices -> Entries]
  BY DEF Zeroed, Absent, Entries, Memory
<1>2. tb2 \in Contents
  BY <1>1, Zenon DEF Tree, Contents
<1>3. \A t \in Memory : t # f => tb2[t] = tb[t]
  BY Zenon DEF Tree, Contents
<1>4. \A t \in Memory : lev[t] \in {1, 2, 3} => t # f
  BY SMT
<1> HIDE DEF tb2
<1>5. Tree(tb2, lev, up)
  BY <1>2, <1>3, <1>4, TreeIf, ZenonT(40)
<1> QED
  BY <1>5 DEF tb2

LEMMA LinkTree ==
    ASSUME NEW tb, NEW lev, NEW up, Tree(tb, lev, up),
           NEW k \in {1, 2, 3}, NEW t \in Memory, lev[t] = k, NEW n \in Indices,
           NEW e \in Entries, lev[e.frame] = 0, \A m \in Indices : ~tb[e.frame][m].present,
           NEW tb2 \in Contents, Written(tb, tb2, t, n, e),
           NEW lev2, lev2 = [x \in Memory |-> IF x = e.frame THEN k + 1 ELSE lev[x]],
           NEW up2, up2 = [x \in Memory |-> IF x = e.frame THEN <<t, n>> ELSE up[x]]
    PROVE  Tree(tb2, lev2, up2)
<1> DEFINE f == e.frame
<1>1. f \in Memory /\ f # t
  BY DEF Entries
<1> HIDE DEF f
<1>2. /\ lev2[f] = k + 1 /\ up2[f] = <<t, n>>
      /\ \A x \in Memory : x # f => lev2[x] = lev[x] /\ up2[x] = up[x]
  BY <1>1, Zenon DEF f
<1>3. lev2 \in [Memory -> 0 .. 4] /\ lev2[Root] = 1
  <2>1. k + 1 \in 0 .. 4
    OBVIOUS
  <2>2. lev \in [Memory -> 0 .. 4] /\ lev[Root] = 1
    BY DEF Tree
  <2>3. f # Root
    BY <2>2 DEF f
  <2>4. lev2 \in [Memory -> 0 .. 4]
    BY <2>1, <2>2, Zenon
  <2> QED
    BY <1>2, <2>2, <2>3, <2>4, RootInMemory, Zenon
<1>4. ASSUME NEW x \in Memory, lev2[x] \in {1, 2, 3}, NEW m \in Indices, tb2[x][m].present
      PROVE  Child(tb2, lev2, up2, x, m)
  <2>1. CASE x = t /\ m = n
    <3>1. tb2[x][m] = e
      BY <2>1, Zenon DEF Written
    <3>2. lev2[x] = k
      BY <1>1, <1>2, <2>1, Zenon
    <3> QED
      BY <1>2, <2>1, <3>1, <3>2, Zenon DEF Child, f
  <2>2. CASE ~(x = t /\ m = n)
    <3>1. tb2[x][m] = tb[x][m]
      BY <2>2, Zenon DEF Written
    <3>2. x # f
      BY <1>4, <3>1, Zenon DEF f
    <3>3. lev[x] = lev2[x]
      BY <1>2, <3>2, Zenon
    <3>4. Child(tb, lev, up, x, m)
      BY <1>4, <3>1, <3>3, Zenon DEF Tree
    <3>5. tb[x][m].frame \in Memory
      BY Typed, Zenon DEF Tree
    <3>6. tb[x][m].frame # f
      <4>1. lev[tb[x][m].frame] # 0
        <5>1. lev[tb[x][m].frame] = lev[x] + 1 /\ lev[x] \in {1, 2, 3}
          BY <1>4, <3>3, <3>4 DEF Child
        <5> QED
          BY <5>1
      <4> QED
        BY <4>1, Zenon DEF f
    <3> QED
      BY <1>2, <3>1, <3>3, <3>4, <3>5, <3>6, ZenonT(40) DEF Child
  <2> QED
    BY <2>1, <2>2
<1> QED
  BY <1>3, <1>4, Zenon DEF Tree

LEMMA LeafTree ==
    ASSUME NEW tb, NEW lev, NEW up, Tree(tb, lev, up),
           NEW t \in Memory, lev[t] = 4, NEW n \in Indices, NEW e,
           NEW tb2 \in Contents, Written(tb, tb2, t, n, e)
    PROVE  Tree(tb2, lev, up)
<1>1. \A x \in Memory : lev[x] \in {1, 2, 3} => x # t
  BY SMT
<1>2. \A x \in Memory : x # t => \A m \in Indices : tb2[x][m] = tb[x][m]
  BY Zenon DEF Written
<1> QED
  <2>1. ASSUME NEW x \in Memory, lev[x] \in {1, 2, 3}, NEW m \in Indices
        PROVE  tb2[x][m] = tb[x][m]
    BY <1>1, <1>2, <2>1, Zenon
  <2>2. ASSUME NEW x \in Memory, lev[x] \in {1, 2, 3}, NEW m \in Indices
        PROVE  tb2[x][m].frame = tb[x][m].frame /\ (tb2[x][m].present => tb[x][m].present)
    BY <2>1, <2>2, Zenon
  <2> QED
    BY <2>2, TreeIf

LEMMA OpenTree ==
    ASSUME NEW tb, NEW lev, NEW up, Tree(tb, lev, up), Opened(tb),
           NEW t \in Memory, lev[t] \in {1, 2, 3}, NEW n \in Indices, NEW e,
           NEW tb2 \in Contents, Written(tb, tb2, t, n, e),
           e.frame = tb[t][n].frame, e.present = tb[t][n].present, tb[t][n].user => e.user
    PROVE  /\ Tree(tb2, lev, up)
           /\ Opened(tb2)
           /\ \A v \in Virts : Found(tb2, v) = Found(tb, v)
<1>1. ASSUME NEW x \in Memory, NEW m \in Indices
      PROVE  tb2[x][m].frame = tb[x][m].frame /\ tb2[x][m].present = tb[x][m].present
  BY Zenon DEF Written
<1>2. Tree(tb2, lev, up)
  <2>1. ASSUME NEW x \in Memory, lev[x] \in {1, 2, 3}, NEW m \in Indices
        PROVE  tb2[x][m].frame = tb[x][m].frame /\ (tb2[x][m].present => tb[x][m].present)
    <3>1. tb2[x][m].frame = tb[x][m].frame /\ tb2[x][m].present = tb[x][m].present
      BY <1>1
    <3> QED
      BY <3>1
  <2> QED
    BY <2>1, TreeIf
<1>3. ASSUME NEW v \in Virts
      PROVE  /\ Mapped(tb2, v) <=> Mapped(tb, v)
             /\ Fourth(tb2, v).frame = Fourth(tb, v).frame
             /\ Open(tb, v) => Open(tb2, v)
             /\ Mapped(tb, v) => Fourth(tb2, v) = Fourth(tb, v)
  <2>1. /\ \A k \in Levels : Table(tb2, v, k) = Table(tb, v, k)
        /\ \A k \in Levels : EntryAt(tb2, v, k).present = EntryAt(tb, v, k).present
        /\ \A k \in Levels : EntryAt(tb2, v, k).frame = EntryAt(tb, v, k).frame
        /\ \A k \in Levels : EntryAt(tb, v, k).user => EntryAt(tb2, v, k).user
    <3>1. tb \in Contents
      BY DEF Tree
    <3> QED
      BY <3>1, OpenKeeps
  <2>2. 1 \in Levels /\ 2 \in Levels /\ 3 \in Levels /\ 4 \in Levels
    BY DEF Levels
  <2>3. Mapped(tb2, v) <=> Mapped(tb, v)
    <3>1. /\ First(tb2, v).present = First(tb, v).present
          /\ Second(tb2, v).present = Second(tb, v).present
          /\ Third(tb2, v).present = Third(tb, v).present
          /\ Fourth(tb2, v).present = Fourth(tb, v).present
      BY <2>1, <2>2, EntriesAt, ZenonT(40)
    <3> QED
      BY <3>1 DEF Mapped
  <2>4. Fourth(tb2, v).frame = Fourth(tb, v).frame
    BY <2>1, <2>2, EntriesAt, ZenonT(40)
  <2>5. Open(tb, v) => Open(tb2, v)
    BY <2>1, <2>2, EntriesAt, Zenon DEF Open
  <2>6. ASSUME Mapped(tb, v) PROVE Fourth(tb2, v) = Fourth(tb, v)
    <3>1. Reached(tb, v, 4)
      BY <2>6 DEF Reached, Mapped
    <3>2. Table(tb, v, 4) \in Memory /\ lev[Table(tb, v, 4)] = 4 /\ v[4] \in Indices
      BY <2>2, <3>1, LevelsReached, IndicesOf
    <3>3. Table(tb, v, 4) # t
      BY <3>2
    <3>5. Table(tb2, v, 4) = Table(tb, v, 4)
      BY <2>1, <2>2, Zenon
    <3>6. tb2[Table(tb, v, 4)][v[4]] = tb[Table(tb, v, 4)][v[4]]
      <4> DEFINE w == Table(tb, v, 4)
      <4>1. w \in Memory /\ v[4] \in Indices /\ ~(w = t /\ v[4] = n)
        BY <3>2, <3>3
      <4> HIDE DEF w
      <4>2. tb2[w][v[4]] = tb[w][v[4]]
        BY <4>1 DEF Written
      <4> QED
        BY <4>2 DEF w
    <3>4. EntryAt(tb2, v, 4) = EntryAt(tb, v, 4)
      BY <3>5, <3>6, Zenon DEF EntryAt
    <3> QED
      BY <3>4, EntriesAt, Zenon
  <2> QED
    BY <2>3, <2>4, <2>5, <2>6
<1>4. Opened(tb2)
  BY <1>3, Zenon DEF Opened
<1>5. ASSUME NEW v \in Virts PROVE Found(tb2, v) = Found(tb, v)
  <2>1. CASE Mapped(tb, v)
    <3>1. Open(tb2, v) <=> Open(tb, v)
      BY <1>3, <2>1, Zenon DEF Opened, Open
    <3>2. [frame |-> Fourth(tb2, v).frame, user |-> Open(tb2, v)]
            = [frame |-> Fourth(tb, v).frame, user |-> Open(tb, v)]
      BY <1>3, <3>1, Zenon DEF Open
    <3> QED
      BY <1>3, <2>1, <3>2, Zenon DEF Found
  <2>2. CASE ~Mapped(tb, v)
    BY <1>3, <2>2, Zenon DEF Found
  <2> QED
    BY <2>1, <2>2
<1> QED
  BY <1>2, <1>4, <1>5

(***************************************************************************)
(* The invariant: there is a tree, a call is somewhere on its way down it, *)
(* and every frame has one use.                                            *)
(***************************************************************************)
Calling == call.at # "idle"

CallType ==
    [at : {"walk", "zero", "link"}, virt : Virts, frame : Memory, user : BOOLEAN,
     level : Levels, table : Memory, fresh : Memory]

OpenAbove(tb, v, k) ==
    /\ k \in {2, 3, 4} => First(tb, v).user
    /\ k \in {3, 4} => Second(tb, v).user
    /\ k = 4 => Third(tb, v).user

Owned == ToSet(owned)

OnItsWay(lev) ==
    Calling =>
        /\ call \in CallType
        /\ Reached(tables, call.virt, call.level)
        /\ call.table = Table(tables, call.virt, call.level)
        /\ call.user => OpenAbove(tables, call.virt, call.level)
        /\ call.frame \in Devices \cup Owned
        /\ call.at \in {"zero", "link"} =>
             /\ call.level \in {1, 2, 3} /\ ~Slot.present
             /\ call.fresh \in Frames \ (free \cup Owned) /\ lev[call.fresh] = 0
        /\ call.at = "link" => tables[call.fresh] = Zeroed

OneUse(lev) ==
    /\ free \subseteq Frames
    /\ owned \in Seq(Frames) /\ IsInjective(owned) /\ Owned \cap free = {}
    /\ \A f \in Memory : lev[f] = 1 => f = Root
    /\ \A f \in Memory : lev[f] \in {2, 3, 4} => f \in Frames \ (free \cup Owned)
    /\ \A f \in Memory : lev[f] = 4 =>
         \A n \in Indices : tables[f][n].present => tables[f][n].frame \in Devices \cup Owned

Sound(lev, up) == Tree(tables, lev, up) /\ Opened(tables) /\ OnItsWay(lev) /\ OneUse(lev)

(* The two pages of the user, as far as they are mapped. *)
Page(n) == [frame |-> owned[n], user |-> TRUE]

Mapping(v) == call.virt = v /\ call.frame = owned[Len(owned)] /\ call.user = TRUE

Stages ==
    /\ stage \in {"kernel", "code page", "map code", "stack page", "map stack", "iretq", "user"}
    /\ stage \in {"code page", "map code", "map stack", "user"} => ~Calling
    /\ stage \in {"map code", "stack page"} => Len(owned) >= 1
    /\ stage = "stack page" =>
         IF Calling THEN Mapping(CODE) ELSE Found(tables, CODE) = Page(Len(owned))
    /\ stage \in {"map stack", "iretq", "user"} =>
         Len(owned) >= 2 /\ Found(tables, CODE) = Page(Len(owned) - 1)
    /\ stage \in {"iretq", "user"} =>
         IF Calling THEN Mapping(STACK) ELSE Found(tables, STACK) = Page(Len(owned))
    /\ stage = "kernel" /\ Calling => call.virt \notin {CODE, STACK}

FrameInv == ~exhausted => Stages /\ \E lev, up : Sound(lev, up)

LEMMA SlotFacts ==
    ASSUME NEW lev, NEW up, Sound(lev, up), Calling
    PROVE  /\ call \in CallType /\ call.virt \in Virts /\ call.level \in Levels
           /\ call.table \in Memory /\ lev[call.table] = call.level /\ Index \in Indices
           /\ Slot = EntryAt(tables, call.virt, call.level) /\ Slot \in Entries
           /\ tables \in Contents
<1>1. /\ call \in CallType /\ Reached(tables, call.virt, call.level)
      /\ call.table = Table(tables, call.virt, call.level) /\ Tree(tables, lev, up)
  BY Zenon DEF Sound, OnItsWay
<1>2. call.virt \in Virts /\ call.level \in Levels
  BY <1>1 DEF CallType
<1>3. Table(tables, call.virt, call.level) \in Memory
      /\ lev[Table(tables, call.virt, call.level)] = call.level
      /\ EntryAt(tables, call.virt, call.level) \in Entries
  BY <1>1, <1>2, LevelsReached
<1>4. Index \in Indices
  BY <1>2, IndicesOf DEF Index, Levels
<1>5. Slot = EntryAt(tables, call.virt, call.level)
  BY <1>1, Zenon DEF Slot, Index, EntryAt
<1> QED
  BY <1>1, <1>2, <1>3, <1>4, <1>5, Zenon DEF Tree

(* The next table of a walk. *)
LEMMA NextTable ==
    ASSUME NEW tb, NEW v, NEW k \in {1, 2, 3}, Reached(tb, v, k), EntryAt(tb, v, k).present
    PROVE  /\ Reached(tb, v, k + 1) /\ Table(tb, v, k + 1) = EntryAt(tb, v, k).frame
           /\ OpenAbove(tb, v, k) /\ EntryAt(tb, v, k).user => OpenAbove(tb, v, k + 1)
<1>1. CASE k = 1
  BY <1>1, EntriesAt DEF Reached, OpenAbove
<1>2. CASE k = 2
  BY <1>2, EntriesAt DEF Reached, OpenAbove
<1>3. CASE k = 3
  BY <1>3, EntriesAt DEF Reached, OpenAbove
<1> QED
  BY <1>1, <1>2, <1>3

(* The same request goes on, and what is mapped is what was. *)
SameRequest ==
    /\ Calling /\ Calling'
    /\ call'.virt = call.virt /\ call'.frame = call.frame /\ call'.user = call.user

NothingMoved == \A v \in Virts : Found(tables', v) = Found(tables, v)

LEMMA NewTableOK ==
    ASSUME NEW lev, NEW up, Sound(lev, up), NewTable, ~exhausted', UNCHANGED owned
    PROVE  Sound(lev, up)' /\ SameRequest /\ NothingMoved
<1>1. PICK f \in Frames \cup {NullFrame} :
        Allocate(f) /\ call' = [call EXCEPT !.at = "zero", !.fresh = f]
  BY Zenon DEF NewTable
<1>2. f \in free /\ free' = free \ {f}
  BY <1>1 DEF Allocate
<1>3. Calling /\ call.level < 4 /\ ~Slot.present /\ tables' = tables
  BY DEF NewTable, Calling
<1>4. /\ call \in CallType /\ call.level \in {1, 2, 3} /\ f \in Frames /\ f \in Memory
  BY <1>2, <1>3, SlotFacts DEF Sound, OneUse, Levels, Memory
<1>5. /\ call' \in CallType /\ call'.at = "zero" /\ call'.fresh = f
      /\ call'.virt = call.virt /\ call'.frame = call.frame /\ call'.user = call.user
      /\ call'.level = call.level /\ call'.table = call.table
  BY <1>1, <1>4 DEF CallType
<1>6. Slot' = Slot
  BY <1>3, <1>5, Zenon DEF Slot, Index
<1>7. f \notin Owned /\ lev[f] = 0
  <2>1. f \notin Owned
    BY <1>2 DEF Sound, OneUse
  <2>2. lev[f] \in 0 .. 4 /\ lev[f] \notin {2, 3, 4} /\ lev[f] # 1
    <3>1. lev[f] \in 0 .. 4
      BY <1>4 DEF Sound, Tree
    <3>2. lev[f] \notin {2, 3, 4}
      BY <1>2, <1>4, Zenon DEF Sound, OneUse
    <3>3. lev[f] # 1
      BY <1>4, VmmAssumption DEF Sound, OneUse
    <3> QED
      BY <3>1, <3>2, <3>3
  <2> QED
    BY <2>1, <2>2
<1>8. OnItsWay(lev)'
  BY <1>2, <1>3, <1>4, <1>5, <1>6, <1>7, Zenon DEF Sound, OnItsWay, Owned, Calling
<1>9. OneUse(lev)'
  <2>1. free' \subseteq free
    BY <1>2
  <2> QED
    BY <1>3, <2>1 DEF Sound, OneUse, Owned
<1>10. Tree(tables, lev, up)' /\ Opened(tables)' /\ NothingMoved
  BY <1>3, Zenon DEF Sound, NothingMoved
<1>11. SameRequest
  BY <1>3, <1>5 DEF SameRequest, Calling
<1> QED
  BY <1>8, <1>9, <1>10, <1>11, Zenon DEF Sound

LEMMA ZeroTableOK ==
    ASSUME NEW lev, NEW up, Sound(lev, up), ZeroTable, UNCHANGED owned
    PROVE  Sound(lev, up)' /\ SameRequest /\ NothingMoved
<1>1. /\ Calling /\ call.at = "zero" /\ free' = free
      /\ tables' = [tables EXCEPT ![call.fresh] = Zeroed] /\ call' = [call EXCEPT !.at = "link"]
  BY DEF ZeroTable, Calling
<1>2. /\ call \in CallType /\ call.virt \in Virts /\ call.level \in Levels
      /\ call.table \in Memory /\ lev[call.table] = call.level /\ Index \in Indices
      /\ tables \in Contents
  BY <1>1, SlotFacts
<1>3. /\ call.level \in {1, 2, 3} /\ ~Slot.present
      /\ call.fresh \in Frames \ (free \cup Owned) /\ lev[call.fresh] = 0
      /\ Reached(tables, call.virt, call.level)
      /\ call.table = Table(tables, call.virt, call.level)
      /\ call.user => OpenAbove(tables, call.virt, call.level)
      /\ call.frame \in Devices \cup Owned
  BY <1>1 DEF Sound, OnItsWay
<1>4. call.fresh \in Memory /\ Tree(tables, lev, up)
  BY <1>3 DEF Memory, Sound
<1>5. Tree(tables', lev, up)
  BY <1>1, <1>3, <1>4, ClearTree, Zenon
<1>6. \A v \in Virts : Kept(tables, tables', v)
  BY <1>1, <1>3, <1>4, ClearKeeps, Zenon
<1>7. Opened(tables') /\ NothingMoved
  BY <1>6, KeptOpened, KeptFound, Zenon DEF Sound, NothingMoved
<1>8. /\ call' \in CallType /\ call'.at = "link" /\ call'.fresh = call.fresh
      /\ call'.virt = call.virt /\ call'.frame = call.frame /\ call'.user = call.user
      /\ call'.level = call.level /\ call'.table = call.table
  BY <1>1, <1>2 DEF CallType
<1>9. tables'[call.fresh] = Zeroed
  BY <1>1, <1>2, <1>4, Zenon DEF Contents
<1>10. \A f \in Memory : f # call.fresh => tables'[f] = tables[f]
  BY <1>1, <1>2, Zenon DEF Contents
<1>11. call.table # call.fresh
  BY <1>2, <1>3
<1>12. Slot' = Slot
  <2>1. tables'[call.table] = tables[call.table]
    BY <1>2, <1>10, <1>11
  <2> QED
    BY <1>8, <2>1, Zenon DEF Slot, Index
<1>13. /\ Reached(tables', call.virt, call.level)
       /\ call.table = Table(tables', call.virt, call.level)
       /\ call.user => OpenAbove(tables', call.virt, call.level)
  <2>1. ASSUME NEW k \in Levels, k < call.level PROVE SameAt(tables, tables', call.virt, k)
    <3>1. Reached(tables, call.virt, k)
      BY <1>3, <2>1 DEF Reached, Levels
    <3>2. Table(tables, call.virt, k) \in Memory /\ lev[Table(tables, call.virt, k)] = k
      BY <1>2, <1>4, <3>1, LevelsReached
    <3>3. Table(tables, call.virt, k) # call.fresh
      BY <1>3, <3>2 DEF Levels
    <3> QED
      BY <1>10, <3>2, <3>3, Zenon DEF SameAt, EntryAt
  <2>2. SameWalk(tables, tables', call.virt)
    BY SameWay
  <2>3. CASE call.level = 1
    BY <1>3, <2>2, <2>3 DEF Reached, OpenAbove, SameWalk
  <2>4. CASE call.level = 2
    <3>1. SameAt(tables, tables', call.virt, 1)
      BY <2>1, <2>4 DEF Levels
    <3> QED
      BY <1>3, <2>2, <2>4, <3>1 DEF Reached, OpenAbove, SameWalk
  <2>5. CASE call.level = 3
    <3>1. SameAt(tables, tables', call.virt, 1) /\ SameAt(tables, tables', call.virt, 2)
      BY <2>1, <2>5 DEF Levels
    <3> QED
      BY <1>3, <2>2, <2>5, <3>1 DEF Reached, OpenAbove, SameWalk
  <2> QED
    BY <1>3, <2>3, <2>4, <2>5
<1>14. OnItsWay(lev)'
  BY <1>1, <1>3, <1>8, <1>9, <1>12, <1>13, Zenon DEF OnItsWay, Owned
<1>15. OneUse(lev)'
  <2>1. \A f \in Memory : lev[f] = 4 => tables'[f] = tables[f]
    BY <1>3, <1>10
  <2>2. OneUse(lev)
    BY DEF Sound
  <2> QED
    BY <1>1, <2>1, <2>2, Zenon DEF OneUse, Owned
<1>16. SameRequest
  BY <1>1, <1>8 DEF SameRequest, Calling
<1> QED
  BY <1>5, <1>7, <1>14, <1>15, <1>16, Zenon DEF Sound

LEMMA DescendOK ==
    ASSUME NEW lev, NEW up, Sound(lev, up), Descend, UNCHANGED owned
    PROVE  Sound(lev, up)' /\ SameRequest /\ NothingMoved
<1> DEFINE v == call.virt  k == call.level  t == call.table  n == Index
<1>1. /\ Calling /\ call.level < 4 /\ Slot.present /\ free' = free
      /\ tables' = [tables EXCEPT ![t][n] = Promoted]
      /\ call' = [call EXCEPT !.table = Slot.frame, !.level = @ + 1]
  BY DEF Descend, Calling
<1>2. /\ call \in CallType /\ v \in Virts /\ k \in Levels
      /\ t \in Memory /\ lev[t] = k /\ n \in Indices
      /\ Slot = EntryAt(tables, v, k) /\ Slot \in Entries /\ tables \in Contents
  BY <1>1, SlotFacts
<1>3. /\ Promoted \in Entries /\ Promoted.frame = Slot.frame /\ Promoted.present = Slot.present
      /\ Promoted.user = (Slot.user \/ call.user)
  BY <1>2 DEF Promoted, Entries, CallType
<1>4. k \in {1, 2, 3} /\ call.at = "walk"
  BY <1>1, <1>2 DEF Levels, Descend
<1>5. tables' \in Contents /\ Written(tables, tables', t, n, Promoted)
  BY <1>1, <1>2, <1>3, WriteOK, Zenon
<1>6. /\ Promoted.frame = tables[t][n].frame /\ Promoted.present = tables[t][n].present
      /\ tables[t][n].user => Promoted.user
  BY <1>3, Zenon DEF Slot
<1>7. Tree(tables', lev, up) /\ Opened(tables') /\ NothingMoved
  <2>1. Tree(tables, lev, up) /\ Opened(tables) /\ lev[t] \in {1, 2, 3}
    BY <1>2, <1>4 DEF Sound
  <2> QED
    BY <1>2, <1>5, <1>6, <2>1, OpenTree, Zenon DEF NothingMoved
<1>8. /\ call' \in CallType /\ call'.at = "walk" /\ call'.table = Slot.frame /\ call'.level = k + 1
      /\ call'.virt = v /\ call'.frame = call.frame /\ call'.user = call.user
  <2>1. Slot.frame \in Memory /\ k + 1 \in Levels
    BY <1>2, <1>4 DEF Entries, Levels
  <2> QED
    BY <1>1, <1>2, <1>4, <2>1 DEF CallType
<1>9. /\ \A j \in Levels : Table(tables', v, j) = Table(tables, v, j)
      /\ \A j \in Levels : EntryAt(tables', v, j).present = EntryAt(tables, v, j).present
      /\ \A j \in Levels : EntryAt(tables', v, j).frame = EntryAt(tables, v, j).frame
      /\ \A j \in Levels : EntryAt(tables, v, j).user => EntryAt(tables', v, j).user
  BY <1>2, <1>5, <1>6, OpenKeeps
<1>10. /\ Reached(tables, v, k) /\ t = Table(tables, v, k)
       /\ call.user => OpenAbove(tables, v, k)
       /\ call.frame \in Devices \cup Owned
  BY <1>1 DEF Sound, OnItsWay
<1>11. /\ Reached(tables', v, k) /\ EntryAt(tables', v, k).present
       /\ EntryAt(tables', v, k).frame = Slot.frame
       /\ call.user => OpenAbove(tables', v, k) /\ EntryAt(tables', v, k).user
  <2>1. 1 \in Levels /\ 2 \in Levels /\ 3 \in Levels
    BY DEF Levels
  <2>2. /\ First(tables', v).present = First(tables, v).present
        /\ Second(tables', v).present = Second(tables, v).present
        /\ First(tables, v).user => First(tables', v).user
        /\ Second(tables, v).user => Second(tables', v).user
    <3> HIDE DEF v
    <3> QED
      BY <1>9, <2>1, EntriesAt, SMT
  <2>3. Reached(tables', v, k) /\ (OpenAbove(tables, v, k) => OpenAbove(tables', v, k))
    BY <1>4, <1>10, <2>2 DEF Reached, OpenAbove
  <2>4. EntryAt(tables', v, k) = Promoted
    <3>1. Table(tables', v, k) = t /\ n = v[k]
      BY <1>2, <1>9, <1>10, Zenon DEF Index
    <3> QED
      BY <1>2, <1>5, <3>1, Zenon DEF EntryAt, Written
  <2> QED
    BY <1>1, <1>3, <1>10, <2>3, <2>4
<1>12. /\ Reached(tables', v, k + 1) /\ Table(tables', v, k + 1) = Slot.frame
       /\ call.user => OpenAbove(tables', v, k + 1)
  <2> HIDE DEF v, k
  <2> QED
    BY <1>4, <1>11, NextTable
<1>13. OnItsWay(lev)'
  BY <1>1, <1>8, <1>10, <1>12, Zenon DEF OnItsWay, Owned
<1>14. OneUse(lev)'
  <2>1. \A f \in Memory : lev[f] = 4 => \A m \in Indices : tables'[f][m] = tables[f][m]
    <3>1. \A f \in Memory : lev[f] = 4 => f # t
      BY <1>2, <1>4
    <3> QED
      BY <1>5, <3>1, Zenon DEF Written
  <2>2. OneUse(lev)
    BY DEF Sound
  <2>3. ASSUME NEW f \in Memory, lev[f] = 4, NEW m \in Indices, tables'[f][m].present
        PROVE  tables'[f][m].frame \in Devices \cup Owned
    <3>1. tables'[f][m] = tables[f][m]
      BY <2>1, <2>3, Zenon
    <3> QED
      BY <2>2, <2>3, <3>1, Zenon DEF OneUse
  <2> QED
    BY <1>1, <2>2, <2>3, Zenon DEF OneUse, Owned
<1>15. SameRequest
  BY <1>1, <1>8 DEF SameRequest, Calling
<1> QED
  BY <1>7, <1>13, <1>14, <1>15, Zenon DEF Sound

LEMMA LinkTableOK ==
    ASSUME NEW lev, NEW up, Sound(lev, up), LinkTable, UNCHANGED owned
    PROVE  (\E lev2, up2 : Sound(lev2, up2)') /\ SameRequest /\ NothingMoved
<1> DEFINE v == call.virt  k == call.level  t == call.table  n == Index
           e == Entry(call.fresh, call.user)
<1>0. PICK lev2, up2 : /\ lev2 = [x \in Memory |-> IF x = e.frame THEN k + 1 ELSE lev[x]]
                       /\ up2 = [x \in Memory |-> IF x = e.frame THEN <<t, n>> ELSE up[x]]
  OBVIOUS
<1>1. /\ Calling /\ call.at = "link" /\ free' = free
      /\ tables' = [tables EXCEPT ![t][n] = e]
      /\ call' = [call EXCEPT !.at = "walk", !.table = call.fresh, !.level = @ + 1,
                              !.fresh = NullFrame]
  BY DEF LinkTable, Calling
<1>2. /\ call \in CallType /\ v \in Virts /\ k \in Levels
      /\ t \in Memory /\ lev[t] = k /\ n \in Indices
      /\ Slot = EntryAt(tables, v, k) /\ Slot \in Entries /\ tables \in Contents
  BY <1>1, SlotFacts
<1>3. /\ k \in {1, 2, 3} /\ ~Slot.present
      /\ call.fresh \in Frames \ (free \cup Owned) /\ lev[call.fresh] = 0
      /\ Reached(tables, v, k) /\ t = Table(tables, v, k)
      /\ call.user => OpenAbove(tables, v, k)
      /\ call.frame \in Devices \cup Owned
      /\ tables[call.fresh] = Zeroed
  BY <1>1 DEF Sound, OnItsWay
<1>4. call.fresh \in Memory /\ Tree(tables, lev, up) /\ ~tables[t][n].present /\ call.fresh # t
  <2>1. call.fresh # t
    BY <1>2, <1>3
  <2> QED
    BY <1>3, <2>1 DEF Memory, Sound, Slot
<1>5. /\ e \in Entries /\ e.frame = call.fresh /\ e.user = call.user /\ e.present
  BY <1>2, <1>4 DEF Entry, Entries, CallType
<1> HIDE DEF e
<1>6. tables' \in Contents /\ Written(tables, tables', t, n, e)
  BY <1>1, <1>2, <1>5, WriteOK, Zenon
<1>7. \A m \in Indices : ~tables[e.frame][m].present
  BY <1>3, <1>5 DEF Zeroed, Absent
<1>8. Tree(tables', lev2, up2)
  <2> HIDE DEF v, k, t, n
  <2> QED
    BY <1>0, <1>2, <1>3, <1>4, <1>5, <1>6, <1>7, LinkTree
<1>9. ASSUME NEW w \in Virts PROVE Kept(tables, tables', w)
  <2>1. lev[t] \in {1, 2, 3} /\ e.frame \in Memory /\ e.frame # t
    BY <1>2, <1>3, <1>4, <1>5
  <2> HIDE DEF v, k, t, n
  <2> QED
    BY <1>2, <1>4, <1>6, <1>7, <2>1, LinkKeeps
<1>10. Opened(tables') /\ NothingMoved
  BY <1>9, KeptOpened, KeptFound, Zenon DEF Sound, NothingMoved
<1>11. /\ call' \in CallType /\ call'.at = "walk" /\ call'.table = call.fresh /\ call'.level = k + 1
       /\ call'.virt = v /\ call'.frame = call.frame /\ call'.user = call.user
  <2>1. k + 1 \in Levels /\ NullFrame \in Memory
    BY <1>3 DEF Levels, Memory
  <2> QED
    BY <1>1, <1>2, <1>4, <2>1 DEF CallType
<1>12. /\ Reached(tables', v, k) /\ Table(tables', v, k) = t
       /\ call.user => OpenAbove(tables', v, k)
  <2>1. ASSUME NEW j \in Levels, j < k PROVE SameAt(tables, tables', v, j)
    <3>1. Reached(tables, v, j)
      BY <1>3, <2>1 DEF Reached, Levels
    <3>2. Table(tables, v, j) \in Memory /\ lev[Table(tables, v, j)] = j /\ v[j] \in Indices
      BY <1>2, <1>4, <3>1, LevelsReached, IndicesOf DEF Levels
    <3>3. Table(tables, v, j) # t
      BY <1>2, <2>1, <3>2 DEF Levels
    <3> HIDE DEF t, n
    <3> QED
      BY <1>6, <3>2, <3>3, Zenon DEF SameAt, EntryAt, Written
  <2>2. SameWalk(tables, tables', v)
    BY SameWay
  <2>3. CASE k = 1
    BY <1>3, <2>2, <2>3 DEF Reached, OpenAbove, SameWalk
  <2>4. CASE k = 2
    <3>1. SameAt(tables, tables', v, 1)
      BY <2>1, <2>4 DEF Levels
    <3> QED
      BY <1>3, <2>2, <2>4, <3>1 DEF Reached, OpenAbove, SameWalk
  <2>5. CASE k = 3
    <3>1. SameAt(tables, tables', v, 1) /\ SameAt(tables, tables', v, 2)
      BY <2>1, <2>5 DEF Levels
    <3> QED
      BY <1>3, <2>2, <2>5, <3>1 DEF Reached, OpenAbove, SameWalk
  <2> QED
    BY <1>3, <2>3, <2>4, <2>5
<1>13. EntryAt(tables', v, k) = e
  <2>1. n = v[k]
    BY Zenon DEF Index
  <2> QED
    BY <1>2, <1>6, <1>12, <2>1, Zenon DEF EntryAt, Written
<1>14. /\ Reached(tables', v, k + 1) /\ Table(tables', v, k + 1) = call.fresh
       /\ call.user => OpenAbove(tables', v, k + 1)
  <2> HIDE DEF v, k
  <2> QED
    BY <1>3, <1>5, <1>12, <1>13, NextTable
<1>15. OnItsWay(lev2)'
  BY <1>1, <1>3, <1>11, <1>14, Zenon DEF OnItsWay, Owned
<1>16. OneUse(lev2)'
  <2>1. OneUse(lev)
    BY DEF Sound
  <2>2. lev2[e.frame] = k + 1 /\ \A f \in Memory : f # e.frame => lev2[f] = lev[f]
    <3>1. e.frame \in Memory
      BY <1>4, <1>5
    <3> HIDE DEF k
    <3> QED
      BY <1>0, <3>1, Zenon
  <2>3. ASSUME NEW f \in Memory, lev2[f] = 1 PROVE f = Root
    <3>1. f # e.frame
      BY <1>3, <2>2, <2>3
    <3> QED
      BY <2>1, <2>2, <2>3, <3>1, Zenon DEF OneUse
  <2>4. ASSUME NEW f \in Memory, lev2[f] \in {2, 3, 4} PROVE f \in Frames \ (free \cup Owned)
    <3>1. CASE f = e.frame
      BY <1>3, <1>5, <3>1
    <3>2. CASE f # e.frame
      <4>1. lev[f] \in {2, 3, 4}
        BY <2>2, <2>4, <3>2
      <4> QED
        BY <2>1, <4>1, Zenon DEF OneUse
    <3> QED
      BY <3>1, <3>2
  <2>5. ASSUME NEW f \in Memory, lev2[f] = 4, NEW m \in Indices, tables'[f][m].present
        PROVE  tables'[f][m].frame \in Devices \cup Owned
    <3>1. f # t
      BY <1>2, <1>3, <1>4, <1>5, <2>2, <2>5
    <3>2. tables'[f][m] = tables[f][m]
      <4> HIDE DEF t, n
      <4> QED
        BY <1>6, <3>1, Zenon DEF Written
    <3>3. f # e.frame
      BY <1>7, <2>5, <3>2
    <3>4. lev[f] = 4
      BY <2>2, <2>5, <3>3
    <3> QED
      BY <2>1, <2>5, <3>2, <3>4, Zenon DEF OneUse
  <2> QED
    BY <1>1, <2>1, <2>3, <2>4, <2>5, Zenon DEF OneUse, Owned
<1>17. SameRequest
  BY <1>1, <1>11 DEF SameRequest, Calling
<1>18. Sound(lev2, up2)'
  BY <1>8, <1>10, <1>15, <1>16, Zenon DEF Sound
<1> QED
  BY <1>10, <1>17, <1>18

(* The page asked for, and no other, comes to be as it was asked for. *)
Answered ==
    /\ Calling /\ call' = Idle /\ call \in CallType
    /\ Found(tables', call.virt) = [frame |-> call.frame, user |-> call.user]
    /\ \A v \in Virts : v # call.virt => Found(tables', v) = Found(tables, v)

LEMMA MapLeafOK ==
    ASSUME NEW lev, NEW up, Sound(lev, up), MapLeaf, UNCHANGED owned
    PROVE  Sound(lev, up)' /\ Answered
<1> DEFINE u == call.virt  t == call.table  n == Index  e == Entry(call.frame, call.user)
<1>1. /\ Calling /\ call.at = "walk" /\ call.level = 4 /\ free' = free
      /\ tables' = [tables EXCEPT ![t][n] = e] /\ call' = Idle
  BY DEF MapLeaf, Calling
<1>2. /\ call \in CallType /\ u \in Virts /\ call.level \in Levels
      /\ t \in Memory /\ lev[t] = call.level /\ n \in Indices /\ tables \in Contents
  BY <1>1, SlotFacts
<1>3. /\ Reached(tables, u, 4) /\ t = Table(tables, u, 4) /\ lev[t] = 4
      /\ call.user => OpenAbove(tables, u, 4)
      /\ call.frame \in Devices \cup Owned
      /\ Tree(tables, lev, up) /\ Opened(tables)
  BY <1>1, <1>2 DEF Sound, OnItsWay
<1>4. /\ e \in Entries /\ e.frame = call.frame /\ e.user = call.user /\ e.present
      /\ call.user \in BOOLEAN
  BY <1>2 DEF Entry, Entries, CallType
<1> HIDE DEF e
<1>5. tables' \in Contents /\ Written(tables, tables', t, n, e)
  BY <1>1, <1>2, <1>4, WriteOK, Zenon
<1>6. Written(tables, tables', Table(tables, u, 4), u[4], e)
  <2>1. n = u[4]
    BY <1>1, Zenon DEF Index
  <2> QED
    BY <1>3, <1>5, <2>1, Zenon
<1>7. Tree(tables', lev, up)
  <2> HIDE DEF t, n
  <2> QED
    BY <1>2, <1>3, <1>5, LeafTree
<1>8. \A v \in Virts : v # u => Kept(tables, tables', v)
  <2> HIDE DEF u
  <2> QED
    BY <1>2, <1>3, <1>6, LeafKeeps, Zenon
<1>9. /\ First(tables', u) = First(tables, u) /\ Second(tables', u) = Second(tables, u)
      /\ Third(tables', u) = Third(tables, u) /\ Fourth(tables', u) = e
  <2> HIDE DEF u
  <2> QED
    BY <1>2, <1>3, <1>6, LeafWritten
<1>10. Mapped(tables', u)
  BY <1>3, <1>4, <1>9 DEF Mapped, Reached
<1>11. Open(tables', u) <=> call.user
  BY <1>3, <1>4, <1>9 DEF Open, OpenAbove
<1>12. Found(tables', u) = [frame |-> call.frame, user |-> call.user]
  <2>1. Fourth(tables', u).frame = call.frame
    BY <1>4, <1>9, Zenon
  <2>2. Open(tables', u) = call.user
    BY <1>4, <1>11 DEF Open
  <2> QED
    BY <1>10, <2>1, <2>2, Zenon DEF Found
<1>13. Opened(tables')
  <2>1. ASSUME NEW v \in Virts, Mapped(tables', v), Fourth(tables', v).user PROVE Open(tables', v)
    <3>1. CASE v = u
      BY <1>4, <1>9, <1>11, <2>1, <3>1
    <3>2. CASE v # u
      BY <1>3, <1>8, <2>1, <3>2, Zenon DEF Opened, Kept, Open
    <3> QED
      BY <3>1, <3>2
  <2> QED
    BY <2>1 DEF Opened
<1>14. OnItsWay(lev)'
  BY <1>1 DEF OnItsWay, Calling, Idle
<1>15. OneUse(lev)'
  <2>1. OneUse(lev)
    BY DEF Sound
  <2>2. ASSUME NEW f \in Memory, lev[f] = 4, NEW m \in Indices, tables'[f][m].present
        PROVE  tables'[f][m].frame \in Devices \cup Owned
    <3>1. CASE f = t /\ m = n
      <4>1. tables'[f][m] = e
        BY <1>5, <3>1, Zenon DEF Written
      <4> QED
        BY <1>3, <1>4, <4>1, Zenon
    <3>2. CASE ~(f = t /\ m = n)
      <4>1. tables'[f][m] = tables[f][m]
        BY <1>5, <3>2, Zenon DEF Written
      <4> QED
        BY <2>1, <2>2, <4>1, Zenon DEF OneUse
    <3> QED
      BY <3>1, <3>2
  <2> QED
    BY <1>1, <2>1, <2>2, Zenon DEF OneUse, Owned
<1>16. \A v \in Virts : v # u => Found(tables', v) = Found(tables, v)
  BY <1>8, KeptFound, Zenon
<1>17. Answered
  BY <1>1, <1>2, <1>12, <1>16, Zenon DEF Answered
<1>18. Sound(lev, up)'
  BY <1>7, <1>13, <1>14, <1>15, Zenon DEF Sound
<1> QED
  BY <1>17, <1>18
LEMMA VmmStepOK ==
    ASSUME NEW lev, NEW up, Sound(lev, up), VmmStep, ~exhausted', UNCHANGED owned
    PROVE  /\ \E lev2, up2 : Sound(lev2, up2)'
           /\ (SameRequest /\ NothingMoved) \/ Answered
<1>1. CASE Descend
  BY <1>1, DescendOK, Zenon
<1>2. CASE NewTable
  BY <1>2, NewTableOK, Zenon
<1>3. CASE ZeroTable
  BY <1>3, ZeroTableOK, Zenon
<1>4. CASE LinkTable
  BY <1>4, LinkTableOK, Zenon
<1>5. CASE MapLeaf
  BY <1>5, MapLeafOK, Zenon
<1> QED
  BY <1>1, <1>2, <1>3, <1>4, <1>5, Zenon DEF VmmStep

(***************************************************************************)
(* Requests, allocations and what is left alone.                           *)
(***************************************************************************)
Asked(v, frame, user) ==
    /\ ~Calling /\ Calling' /\ tables' = tables
    /\ call'.virt = v /\ call'.frame = frame /\ call'.user = user
    /\ call' \in CallType

LEMMA MapPageOK ==
    ASSUME NEW lev, NEW up, Sound(lev, up), NEW v \in Virts, NEW frame \in Devices \cup Owned,
           NEW user \in BOOLEAN, MapPage(v, frame, user), UNCHANGED owned
    PROVE  Sound(lev, up)' /\ Asked(v, frame, user)
<1>1. /\ ~Calling /\ tables' = tables /\ free' = free
      /\ call' = [at |-> "walk", virt |-> v, frame |-> frame, user |-> user,
                  level |-> 1, table |-> Root, fresh |-> NullFrame]
  BY DEF MapPage, Calling
<1>2. frame \in Memory
  <2>1. Owned \subseteq Frames
    BY DEF Sound, OneUse, Owned, ToSet
  <2> QED
    BY <2>1 DEF Memory
<1>3. call' \in CallType
  BY <1>1, <1>2 DEF CallType, Levels, Memory
<1>4. /\ call'.at = "walk" /\ call'.virt = v /\ call'.frame = frame /\ call'.user = user
      /\ call'.level = 1 /\ call'.table = Root
  BY <1>1
<1>5. Asked(v, frame, user)
  BY <1>1, <1>3, <1>4 DEF Asked, Calling
<1>6. Reached(tables', v, 1) /\ OpenAbove(tables', v, 1) /\ Table(tables', v, 1) = Root
  BY DEF Reached, OpenAbove, Table
<1>7. OnItsWay(lev)'
  BY <1>3, <1>4, <1>6 DEF OnItsWay, Owned
<1>8. OneUse(lev)'
  BY <1>1, Zenon DEF Sound, OneUse, Owned
<1> QED
  BY <1>1, <1>5, <1>7, <1>8, Zenon DEF Sound

LEMMA AllocateForOK ==
    ASSUME NEW lev, NEW up, Sound(lev, up), ~Calling, AllocateFor, ~exhausted',
           UNCHANGED <<tables, call>>
    PROVE  Sound(lev, up)' /\ \E f \in Frames : owned' = Append(owned, f)
<1>1. PICK f \in Frames \cup {NullFrame} : Allocate(f) /\ owned' = Append(owned, f)
  BY Zenon DEF AllocateFor
<1>2. f \in free /\ free' = free \ {f}
  BY <1>1 DEF Allocate
<1>3. /\ free \subseteq Frames /\ f \in Frames /\ owned \in Seq(Frames)
      /\ IsInjective(owned) /\ Owned \cap free = {}
  BY <1>2 DEF Sound, OneUse
<1>4. /\ owned' \in Seq(Frames) /\ Len(owned) \in Nat /\ Len(owned') = Len(owned) + 1
      /\ DOMAIN owned = 1 .. Len(owned) /\ DOMAIN owned' = 1 .. Len(owned) + 1
      /\ owned'[Len(owned) + 1] = f /\ \A n \in 1 .. Len(owned) : owned'[n] = owned[n]
  BY <1>1, <1>3, AppendProperties, LenProperties
<1>5. Owned' = Owned \cup {f}
  BY <1>4 DEF Owned, ToSet
<1>6. IsInjective(owned')
  <2>1. \A n \in 1 .. Len(owned) : owned[n] # f
    BY <1>2, <1>3, <1>4 DEF Owned, ToSet
  <2> QED
    BY <1>3, <1>4, <2>1 DEF IsInjective
<1>7. Owned' \cap free' = {}
  BY <1>2, <1>3, <1>5
<1>8. OneUse(lev)'
  <2>1. OneUse(lev) /\ free' \subseteq Frames
    BY <1>2, <1>3 DEF Sound
  <2>2. ASSUME NEW g \in Memory, lev[g] \in {2, 3, 4} PROVE g \in Frames \ (free' \cup Owned')
    <3>1. g \in Frames \ (free \cup Owned)
      BY <2>1, <2>2, Zenon DEF OneUse
    <3> QED
      BY <1>2, <1>5, <3>1
  <2>3. \A g \in Memory : lev[g] = 4 =>
          \A n \in Indices : tables'[g][n].present => tables'[g][n].frame \in Devices \cup Owned'
    <3>1. tables' = tables
      OBVIOUS
    <3> QED
      BY <1>5, <2>1, <3>1, Zenon DEF OneUse
  <2>4. \A g \in Memory : lev[g] = 1 => g = Root
    BY <2>1, Zenon DEF OneUse
  <2> QED
    BY <1>4, <1>6, <1>7, <2>1, <2>2, <2>3, <2>4, Zenon DEF OneUse
<1>9. OnItsWay(lev)' /\ Tree(tables, lev, up)' /\ Opened(tables)'
  BY Zenon DEF Sound, OnItsWay, Calling
<1> QED
  BY <1>1, <1>3, <1>2, <1>8, <1>9, Zenon DEF Sound

(* What a step that does nothing here leaves. *)
LEMMA SoundKept ==
    ASSUME NEW lev, NEW up, Sound(lev, up), UNCHANGED <<tables, free, call, owned>>
    PROVE  Sound(lev, up)'
<1>1. tables' = tables /\ free' = free /\ call' = call /\ owned' = owned
  OBVIOUS
<1>2. OnItsWay(lev)'
  BY <1>1, Zenon DEF Sound, OnItsWay, Calling, Owned, Slot, Index
<1>3. OneUse(lev)'
  BY <1>1, Zenon DEF Sound, OneUse, Owned
<1> QED
  BY <1>1, <1>2, <1>3, Zenon DEF Sound

-----------------------------------------------------------------------------
(* The stages of the kernel's way to ring 3. *)
LEMMA FrameInit == Init => FrameInv
<1> SUFFICES ASSUME Init PROVE FrameInv
  OBVIOUS
<1>1. /\ tables = [f \in Memory |-> IF f = Root THEN Zeroed ELSE Garbage]
      /\ free = Frames /\ call = Idle /\ stage = "kernel" /\ owned = <<>>
  BY DEF Init, VmmInit
<1>2. PICK lev, up : /\ lev = [f \in Memory |-> IF f = Root THEN 1 ELSE 0]
                     /\ up = [f \in Memory |-> Root]
  OBVIOUS
<1>3. Zeroed \in [Indices -> Entries] /\ Garbage \in [Indices -> Entries]
  BY DEF Zeroed, Garbage, Absent, Entry, Entries, Memory
<1>4. tables \in Contents
  BY <1>1, <1>3, Zenon DEF Contents
<1>5. lev \in [Memory -> 0 .. 4] /\ lev[Root] = 1 /\ \A f \in Memory : f # Root => lev[f] = 0
  BY <1>2, RootInMemory
<1>6. \A n \in Indices : ~tables[Root][n].present
  BY <1>1, RootInMemory DEF Zeroed, Absent
<1>7. \A f \in Memory : lev[f] \in {1, 2, 3, 4} => f = Root /\ lev[f] = 1
  BY <1>5
<1>8. Tree(tables, lev, up)
  BY <1>4, <1>5, <1>6, <1>7 DEF Tree
<1>9. Opened(tables)
  BY <1>6, IndicesOf DEF Opened, Mapped, First
<1>10. ~Calling
  BY <1>1 DEF Calling, Idle
<1>11. owned \in Seq(Frames) /\ IsInjective(owned) /\ Owned = {}
  <2>1. owned \in Seq(Frames) /\ DOMAIN owned = {}
    BY <1>1, SMT
  <2> QED
    BY <2>1 DEF IsInjective, Owned, ToSet
<1>12. OneUse(lev)
  <2>1. \A f \in Memory : lev[f] \notin {2, 3, 4}
    BY <1>7
  <2>2. \A f \in Memory : lev[f] # 4
    BY <2>1
  <2>3. \A f \in Memory : lev[f] = 1 => f = Root
    BY <1>7
  <2> QED
    BY <1>1, <1>11, <2>1, <2>2, <2>3, Zenon DEF OneUse
<1>13. Sound(lev, up)
  BY <1>8, <1>9, <1>10, <1>12 DEF Sound, OnItsWay
<1>14. Stages
  BY <1>1, <1>10 DEF Stages
<1> QED
  BY <1>13, <1>14 DEF FrameInv

LEMMA TwoPages == CODE \in Virts /\ STACK \in Virts /\ CODE # STACK
  BY UserModeAssumption

(* A step of vmm_map_page. *)
LEMMA StagesStep ==
    ASSUME Stages, UNCHANGED <<owned, stage>>, (SameRequest /\ NothingMoved) \/ Answered
    PROVE  Stages'
<1>1. CASE SameRequest /\ NothingMoved
  <2>1. /\ Calling /\ Calling' /\ owned' = owned /\ stage' = stage
        /\ call'.virt = call.virt /\ call'.frame = call.frame /\ call'.user = call.user
    BY <1>1 DEF SameRequest
  <2>2. Found(tables', CODE) = Found(tables, CODE) /\ Found(tables', STACK) = Found(tables, STACK)
    BY <1>1, TwoPages, Zenon DEF NothingMoved
  <2> QED
    BY <2>1, <2>2, Zenon DEF Stages, Mapping, Page
<1>2. CASE Answered
  <2>1. /\ Calling /\ ~Calling' /\ owned' = owned /\ stage' = stage
        /\ Found(tables', call.virt) = [frame |-> call.frame, user |-> call.user]
    BY <1>2 DEF Answered, Calling, Idle
  <2>2. \A v \in Virts : v # call.virt => Found(tables', v) = Found(tables, v)
    BY <1>2 DEF Answered
  <2>3. CASE stage = "kernel"
    BY <2>1, <2>3 DEF Stages
  <2>4. CASE stage = "stack page"
    <3>1. Mapping(CODE)
      BY <2>1, <2>4 DEF Stages
    <3>2. Found(tables', CODE) = Page(Len(owned))
      BY <2>1, <3>1, Zenon DEF Mapping, Page
    <3>3. Len(owned) >= 1
      BY <2>4 DEF Stages
    <3> QED
      BY <2>1, <2>4, <3>2, <3>3 DEF Stages, Page
  <2>5. CASE stage = "iretq"
    <3>1. Mapping(STACK) /\ Len(owned) >= 2 /\ Found(tables, CODE) = Page(Len(owned) - 1)
      BY <2>1, <2>5 DEF Stages
    <3>2. Found(tables', STACK) = Page(Len(owned))
      BY <2>1, <3>1, Zenon DEF Mapping, Page
    <3>3. Found(tables', CODE) = Page(Len(owned) - 1)
      BY <2>2, <3>1, TwoPages, Zenon DEF Mapping
    <3> QED
      BY <2>1, <2>5, <3>1, <3>2, <3>3 DEF Stages, Page
  <2>6. stage \in {"kernel", "stack page", "iretq"}
    BY <2>1, Zenon DEF Stages
  <2> QED
    BY <2>3, <2>4, <2>5, <2>6
<1> QED
  BY <1>1, <1>2

LEMMA KernelMapOK ==
    ASSUME Stages, NEW lev, NEW up, Sound(lev, up), KernelMap
    PROVE  /\ Stages' /\ Sound(lev, up)'
           /\ \E v \in Virts, frame \in Devices, user \in BOOLEAN : Asked(v, frame, user)
<1>1. PICK v \in Requests, d \in Devices, user \in BOOLEAN : MapPage(v, d, user)
  BY Zenon DEF KernelMap
<1>2. v \in Virts \ {CODE, STACK}
  BY UserModeAssumption
<1>3. stage = "kernel" /\ stage' = stage /\ owned' = owned
  BY DEF KernelMap
<1>4. Sound(lev, up)' /\ Asked(v, d, user)
  BY <1>1, <1>2, <1>3, MapPageOK
<1>5. Stages'
  BY <1>2, <1>3, <1>4 DEF Stages, Asked
<1> QED
  BY <1>2, <1>4, <1>5

LEMMA MapOwnedOK ==
    ASSUME Stages, NEW lev, NEW up, Sound(lev, up), NEW virt \in Virts,
           NEW from, NEW to, MapOwned(from, to, virt), Len(owned) >= 1
    PROVE  Sound(lev, up)' /\ Asked(virt, owned[Len(owned)], TRUE) /\ Mapping(virt)'
<1>1. MapPage(virt, owned[Len(owned)], TRUE) /\ owned' = owned
  BY DEF MapOwned
<1>2. owned[Len(owned)] \in Devices \cup Owned
  <2>1. owned \in Seq(Frames)
    BY DEF Sound, OneUse
  <2>2. Len(owned) \in DOMAIN owned
    BY <2>1, LenProperties
  <2> QED
    BY <2>2 DEF Owned, ToSet
<1>3. Sound(lev, up)' /\ Asked(virt, owned[Len(owned)], TRUE)
  <2> DEFINE frame == owned[Len(owned)]
  <2>1. MapPage(virt, frame, TRUE) /\ frame \in Devices \cup Owned /\ TRUE \in BOOLEAN
    BY <1>1, <1>2
  <2> HIDE DEF frame
  <2>2. Sound(lev, up)' /\ Asked(virt, frame, TRUE)
    BY <1>1, <2>1, MapPageOK
  <2> QED
    BY <2>2 DEF frame
<1> QED
  BY <1>1, <1>3, Zenon DEF Asked, Mapping

LEMMA MapCodeOK ==
    ASSUME Stages, NEW lev, NEW up, Sound(lev, up), MapCode
    PROVE  /\ Stages' /\ Sound(lev, up)'
           /\ \E frame : Asked(CODE, frame, TRUE)
<1>1. /\ stage = "map code" /\ stage' = "stack page" /\ owned' = owned /\ Len(owned) >= 1
      /\ MapOwned("map code", "stack page", CODE)
  BY DEF MapCode, MapOwned, Stages
<1>2. Sound(lev, up)' /\ Asked(CODE, owned[Len(owned)], TRUE) /\ Mapping(CODE)'
  BY <1>1, TwoPages, MapOwnedOK
<1>3. Stages'
  BY <1>1, <1>2 DEF Stages, Asked
<1> QED
  BY <1>2, <1>3, Zenon

LEMMA MapStackOK ==
    ASSUME Stages, NEW lev, NEW up, Sound(lev, up), MapStack
    PROVE  /\ Stages' /\ Sound(lev, up)'
           /\ \E frame : Asked(STACK, frame, TRUE)
<1>1. /\ stage = "map stack" /\ stage' = "iretq" /\ owned' = owned /\ Len(owned) >= 2
      /\ Found(tables, CODE) = Page(Len(owned) - 1)
      /\ MapOwned("map stack", "iretq", STACK)
  BY DEF MapStack, MapOwned, Stages
<1>2. Sound(lev, up)' /\ Asked(STACK, owned[Len(owned)], TRUE) /\ Mapping(STACK)'
  <2>1. Len(owned) >= 1
    <3>1. Len(owned) \in Nat
      BY LenProperties DEF Sound, OneUse
    <3>2. Len(owned) >= 2
      BY <1>1
    <3> QED
      BY <3>1, <3>2
  <2> QED
    BY <1>1, <2>1, TwoPages, MapOwnedOK
<1>3. Stages'
  BY <1>1, <1>2 DEF Stages, Asked, Page
<1> QED
  BY <1>2, <1>3, Zenon

LEMMA AcquireOK ==
    ASSUME Stages, NEW lev, NEW up, Sound(lev, up), ~exhausted',
           KernelThread \/ StackForCalls \/ PageForCode \/ PageForStack
    PROVE  Stages' /\ Sound(lev, up)' /\ UNCHANGED <<tables, call>>
<1>1. AllocateFor /\ ~Calling /\ UNCHANGED <<tables, call>>
  BY DEF KernelThread, StackForCalls, PageForCode, PageForStack, Acquire, Calling
<1>2. Sound(lev, up)' /\ \E f \in Frames : owned' = Append(owned, f)
  BY <1>1, AllocateForOK
<1>3. PICK f \in Frames : owned' = Append(owned, f)
  BY <1>2
<1>4. owned \in Seq(Frames) /\ Len(owned) \in Nat
  BY LenProperties DEF Sound, OneUse
<1>5. Len(owned') = Len(owned) + 1 /\ \A n \in 1 .. Len(owned) : owned'[n] = owned[n]
  BY <1>3, <1>4, AppendProperties
<1>6. tables' = tables /\ call' = call /\ ~Calling'
  BY <1>1 DEF Calling
<1>7. ASSUME KernelThread PROVE Stages'
  <2>1. stage = "kernel" /\ stage' = "kernel"
    BY <1>7 DEF KernelThread
  <2> QED
    BY <1>6, <2>1 DEF Stages
<1>8. ASSUME StackForCalls PROVE Stages'
  <2>1. stage' = "code page"
    BY <1>8 DEF StackForCalls, Acquire
  <2> QED
    BY <1>6, <2>1 DEF Stages
<1>9. ASSUME PageForCode PROVE Stages'
  <2>1. stage' = "map code" /\ Len(owned') >= 1
    <3>1. stage' = "map code"
      BY <1>9 DEF PageForCode, Acquire
    <3>2. Len(owned') >= 1
      BY <1>4, <1>5
    <3> QED
      BY <3>1, <3>2
  <2> QED
    BY <1>6, <2>1 DEF Stages
<1>10. ASSUME PageForStack PROVE Stages'
  <2>1. stage = "stack page" /\ stage' = "map stack"
    BY <1>10 DEF PageForStack, Acquire
  <2>2. Len(owned) >= 1 /\ Found(tables, CODE) = [frame |-> owned[Len(owned)], user |-> TRUE]
    BY <1>1, <2>1 DEF Stages, Page
  <2>3. Len(owned') >= 2 /\ Len(owned') - 1 = Len(owned) /\ owned'[Len(owned)] = owned[Len(owned)]
    BY <1>4, <1>5, <2>2
  <2>4. (Found(tables, CODE) = Page(Len(owned) - 1))'
    BY <1>6, <2>2, <2>3 DEF Page
  <2> QED
    BY <1>6, <2>1, <2>3, <2>4 DEF Stages
<1> QED
  BY <1>1, <1>2, <1>7, <1>8, <1>9, <1>10, Zenon

(* What a step is to those who look at the address space. *)
Outcome ==
    \/ SameRequest /\ NothingMoved
    \/ Answered
    \/ \E v \in Virts : \E frame, user : Asked(v, frame, user)
    \/ UNCHANGED <<tables, call>>

LEMMA ExhaustedStays == [Next]_vars => exhausted' = exhausted \/ exhausted' = TRUE
<1> SUFFICES ASSUME [Next]_vars PROVE exhausted' = exhausted \/ exhausted' = TRUE
  OBVIOUS
<1>1. CASE KernelMap
  BY <1>1 DEF KernelMap, MapPage
<1>2. CASE MapStep
  BY <1>2 DEF MapStep, VmmStep, Descend, NewTable, ZeroTable, LinkTable, MapLeaf, Allocate
<1>3. CASE KernelThread \/ StackForCalls \/ PageForCode \/ PageForStack
  BY <1>3 DEF KernelThread, StackForCalls, PageForCode, PageForStack, Acquire, AllocateFor, Allocate
<1>4. CASE MapCode \/ MapStack
  BY <1>4 DEF MapCode, MapStack, MapOwned, MapPage
<1>5. CASE KernelYield \/ EnterUserMode \/ UserStep \/ UNCHANGED vars
  BY <1>5 DEF KernelYield, EnterUserMode, UserStep, vars, vmm_vars
<1> QED
  BY <1>1, <1>2, <1>3, <1>4, <1>5, Zenon DEF Next

LEMMA StepOK ==
    ASSUME Stages, NEW lev, NEW up, Sound(lev, up), [Next]_vars, ~exhausted'
    PROVE  Stages' /\ (\E lev2, up2 : Sound(lev2, up2)') /\ Outcome
<1>1. CASE KernelMap
  BY <1>1, KernelMapOK, Zenon DEF Outcome
<1>2. CASE MapStep
  <2>1. VmmStep /\ owned' = owned /\ stage' = stage
    BY <1>2 DEF MapStep
  <2>2. (\E lev2, up2 : Sound(lev2, up2)') /\ ((SameRequest /\ NothingMoved) \/ Answered)
    BY <2>1, VmmStepOK, Zenon
  <2>3. Stages'
    BY <2>1, <2>2, StagesStep
  <2> QED
    BY <2>2, <2>3, Zenon DEF Outcome
<1>3. CASE KernelThread \/ StackForCalls \/ PageForCode \/ PageForStack
  <2>1. Stages' /\ Sound(lev, up)' /\ UNCHANGED <<tables, call>>
    BY <1>3, AcquireOK
  <2> QED
    BY <2>1, Zenon DEF Outcome
<1>4. CASE MapCode
  BY <1>4, MapCodeOK, TwoPages, Zenon DEF Outcome
<1>5. CASE MapStack
  BY <1>5, MapStackOK, TwoPages, Zenon DEF Outcome
<1>6. CASE KernelYield \/ EnterUserMode \/ UserStep \/ UNCHANGED vars
  <2>1. tables' = tables /\ free' = free /\ call' = call /\ owned' = owned
    BY <1>6 DEF KernelYield, EnterUserMode, UserStep, vars, vmm_vars
  <2>2. Sound(lev, up)'
    BY <2>1, SoundKept
  <2>3. \/ stage' = stage
        \/ stage = "iretq" /\ stage' = "user" /\ ~Calling
    BY <1>6 DEF KernelYield, EnterUserMode, UserStep, vars, Calling
  <2>4. Stages'
    BY <2>1, <2>3 DEF Stages, Calling, Mapping, Page
  <2> QED
    BY <2>1, <2>2, <2>4, Zenon DEF Outcome
<1> QED
  BY <1>1, <1>2, <1>3, <1>4, <1>5, <1>6, Zenon DEF Next

LEMMA FrameStep ==
    ASSUME FrameInv, [Next]_vars, ~exhausted'
    PROVE  FrameInv' /\ Outcome
<1>1. ~exhausted
  BY ExhaustedStays
<1>2. PICK lev, up : Stages /\ Sound(lev, up)
  BY <1>1, Zenon DEF FrameInv
<1>3. Stages' /\ (\E lev2, up2 : Sound(lev2, up2)') /\ Outcome
  BY <1>2, StepOK
<1> QED
  BY <1>3, Zenon DEF FrameInv

LEMMA FrameNext == FrameInv /\ [Next]_vars => FrameInv'
<1>1. ASSUME exhausted' PROVE FrameInv'
  BY <1>1, Zenon DEF FrameInv
<1> QED
  BY <1>1, FrameStep

(* Nobody is in ring 3 before it is entered. *)
BeforeUser == stage # "user" => at = "boot" /\ ring = 0

LEMMA BeforeUserNext == BeforeUser /\ [Next]_vars => BeforeUser'
<1> SUFFICES ASSUME BeforeUser, [Next]_vars, stage' # "user" PROVE at' = "boot" /\ ring' = 0
  BY DEF BeforeUser
<1>1. CASE UserStep
  <2>1. at = "boot"
    BY <1>1 DEF UserStep, BeforeUser
  <2> QED
    BY <1>1, <2>1 DEF UserStep, SyscallStep, StubStep, Move, PushRegister, PopRegister, SaveRsp,
        LoadRsp, PushSaved, Drop, RestoreRsp, Sysret, Call, Executing, Dispatch, ReadSlot,
        ClearSlot, Interrupt, Return, Enter
<1>2. CASE EnterUserMode
  BY <1>2 DEF EnterUserMode
<1>3. ASSUME UNCHANGED syscall_vars, stage # "user" PROVE at' = "boot" /\ ring' = 0
  BY <1>3 DEF syscall_vars, machine_vars, BeforeUser
<1>4. CASE KernelMap \/ MapStep \/ KernelThread \/ KernelYield \/ UNCHANGED vars
  BY <1>3, <1>4 DEF KernelMap, MapStep, KernelThread, KernelYield, InKernel, vars
<1>5. CASE StackForCalls \/ PageForCode \/ MapCode \/ PageForStack \/ MapStack
  BY <1>3, <1>5 DEF StackForCalls, PageForCode, MapCode, PageForStack, MapStack, Acquire, MapOwned,
                    InKernel
<1> QED
  BY <1>1, <1>2, <1>4, <1>5, Zenon DEF Next

-----------------------------------------------------------------------------
(* What the invariant says of tables, pages and ring 3. *)
LEMMA FoundIs == \A v : Translate(v) = Found(tables, v)
<1>1. ASSUME NEW v
      PROVE  Entry1(v) = First(tables, v) /\ Entry2(v) = Second(tables, v)
             /\ Entry3(v) = Third(tables, v) /\ Entry4(v) = Fourth(tables, v)
  BY Zenon DEF Entry1, Entry2, Entry3, Entry4, First, Second, Third, Fourth
<1>2. ASSUME NEW v PROVE Translate(v) = Found(tables, v)
  <2>1. Present(v) <=> Mapped(tables, v)
    BY <1>1, Zenon DEF Present, Mapped
  <2>2. [frame |-> Entry4(v).frame,
         user |-> Entry1(v).user /\ Entry2(v).user /\ Entry3(v).user /\ Entry4(v).user]
          = [frame |-> Fourth(tables, v).frame, user |-> Open(tables, v)]
    <3>1. Open(tables, v)
            = (Entry1(v).user /\ Entry2(v).user /\ Entry3(v).user /\ Entry4(v).user)
      BY <1>1 DEF Open
    <3>2. Fourth(tables, v).frame = Entry4(v).frame
      BY <1>1, Zenon
    <3> QED
      BY <3>1, <3>2, Zenon
  <2> QED
    BY <2>1, <2>2, Zenon DEF Translate, Found
<1> QED
  BY <1>2

LEMMA LinksAre ==
    ASSUME NEW lev, NEW up, Tree(tables, lev, up), NEW link \in Links
    PROVE  /\ Linked(link) \in Memory /\ lev[Linked(link)] \in {2, 3, 4}
           /\ up[Linked(link)] = link
<1>1. PICK v \in Virts :
        \/ link = <<Root, v[1]>> /\ Entry1(v).present
        \/ link = <<Entry1(v).frame, v[2]>> /\ Entry1(v).present /\ Entry2(v).present
        \/ link = <<Entry2(v).frame, v[3]>>
             /\ Entry1(v).present /\ Entry2(v).present /\ Entry3(v).present
  BY Zenon DEF Links
<1>2. /\ Entry1(v) = First(tables, v) /\ Entry2(v) = Second(tables, v)
      /\ Entry3(v) = Third(tables, v)
  BY Zenon DEF Entry1, Entry2, Entry3, First, Second, Third
<1>3. TreeWalk(tables, lev, up, v)
  BY TablesReached
<1>4. \A t, n : <<t, n>>[1] = t /\ <<t, n>>[2] = n
  OBVIOUS
<1>5. CASE link = <<Root, v[1]>> /\ Entry1(v).present
  <2>1. Linked(link) = First(tables, v).frame
    BY <1>4, <1>5, Zenon DEF Linked, First
  <2>2. First(tables, v).present
    BY <1>2, <1>5
  <2>3. 2 \in {2, 3, 4}
    OBVIOUS
  <2> QED
    BY <1>3, <1>5, <2>1, <2>2, <2>3, Zenon DEF TreeWalk
<1>6. CASE link = <<Entry1(v).frame, v[2]>> /\ Entry1(v).present /\ Entry2(v).present
  <2>1. Linked(link) = Second(tables, v).frame
    BY <1>2, <1>4, <1>6, Zenon DEF Linked, Second
  <2>2. First(tables, v).present /\ Second(tables, v).present
    BY <1>2, <1>6
  <2>3. 3 \in {2, 3, 4}
    OBVIOUS
  <2> QED
    BY <1>2, <1>3, <1>6, <2>1, <2>2, <2>3, Zenon DEF TreeWalk
<1>7. CASE /\ link = <<Entry2(v).frame, v[3]>>
           /\ Entry1(v).present /\ Entry2(v).present /\ Entry3(v).present
  <2>1. Linked(link) = Third(tables, v).frame
    BY <1>2, <1>4, <1>7, Zenon DEF Linked, Third
  <2>2. First(tables, v).present /\ Second(tables, v).present /\ Third(tables, v).present
    BY <1>2, <1>7
  <2>3. 4 \in {2, 3, 4}
    OBVIOUS
  <2> QED
    BY <1>2, <1>3, <1>7, <2>1, <2>2, <2>3, Zenon DEF TreeWalk
<1> QED
  BY <1>1, <1>5, <1>6, <1>7

LEMMA SoundExclusive ==
    ASSUME NEW lev, NEW up, Sound(lev, up)
    PROVE  TablesExclusive /\ TableFrames \subseteq Frames \ (free \cup Owned)
<1>1. Tree(tables, lev, up) /\ OneUse(lev)
  BY DEF Sound
<1>2. ASSUME NEW link \in Links
      PROVE  Linked(link) \in Frames \ (free \cup Owned) /\ up[Linked(link)] = link
  <2>1. /\ Linked(link) \in Memory /\ lev[Linked(link)] \in {2, 3, 4}
        /\ up[Linked(link)] = link
    BY <1>1, LinksAre
  <2> QED
    BY <1>1, <2>1, Zenon DEF OneUse
<1>3. \A one, other \in Links : Linked(one) = Linked(other) => one = other
  BY <1>2, Zenon
<1>4. TableFrames \subseteq Frames \ (free \cup Owned)
  BY <1>2, Zenon DEF TableFrames
<1>5. TableFrames \cap (free \cup ToSet(owned) \cup {Root, NullFrame}) = {}
  BY <1>4, VmmAssumption DEF Owned
<1>6. IsInjective(owned) /\ ToSet(owned) \cap free = {}
  BY <1>1 DEF OneUse, Owned
<1> QED
  BY <1>3, <1>4, <1>5, <1>6 DEF TablesExclusive

LEMMA SoundReach ==
    ASSUME NEW lev, NEW up, Sound(lev, up), Stages, BeforeUser
    PROVE  UserReach
<1>1. ASSUME ring = 3
      PROVE  /\ Translate(CODE) = [frame |-> owned[Len(owned) - 1], user |-> TRUE]
             /\ Translate(STACK) = [frame |-> owned[Len(owned)], user |-> TRUE]
  <2>1. stage = "user"
    BY <1>1 DEF BeforeUser
  <2>2. ~Calling /\ Found(tables, CODE) = Page(Len(owned) - 1)
        /\ Found(tables, STACK) = Page(Len(owned))
    BY <2>1 DEF Stages
  <2> QED
    BY <2>2, FoundIs, Zenon DEF Page
<1>2. ASSUME NEW v \in Virts, Translate(v) # UNMAPPED
      PROVE  Translate(v).frame \notin TableFrames
  <2>1. Mapped(tables, v) /\ Translate(v) = [frame |-> Fourth(tables, v).frame, user |-> Open(tables, v)]
    BY <1>2, FoundIs, Zenon DEF Found
  <2>2. Translate(v).frame = Fourth(tables, v).frame
    BY <2>1
  <2>3. Fourth(tables, v).frame \in Devices \cup Owned
    <3>1. Reached(tables, v, 4) /\ Fourth(tables, v).present
      BY <2>1 DEF Mapped, Reached
    <3>2. Table(tables, v, 4) \in Memory /\ lev[Table(tables, v, 4)] = 4 /\ v[4] \in Indices
      BY <3>1, LevelsReached, IndicesOf DEF Sound, Levels
    <3>3. Fourth(tables, v) = tables[Table(tables, v, 4)][v[4]]
      BY EntriesAt, Zenon DEF EntryAt
    <3> QED
      BY <3>1, <3>2, <3>3, Zenon DEF Sound, OneUse
  <2>4. TableFrames \subseteq Frames \ (free \cup Owned)
    BY SoundExclusive
  <2> QED
    BY <2>2, <2>3, <2>4, VmmAssumption
<1> QED
  BY <1>1, <1>2, Zenon DEF UserReach

(* Until the page allocator has returned NULL, every frame is a table, a   *)
(* stack, a page or free, every table is linked once, and ring 3 reaches   *)
(* its two pages and no table (vmm.c:23-57, syscall.c:125-142).            *)
THEOREM FramesExclusiveCorrect == Spec => []FramesExclusive
<1>1. Init => FrameInv /\ BeforeUser
  BY FrameInit DEF BeforeUser, Init, SyscallInit
<1>2. FrameInv /\ BeforeUser => FramesExclusive
  BY SoundExclusive, SoundReach, Zenon DEF FrameInv, FramesExclusive
<1> QED
  BY <1>1, <1>2, FrameNext, BeforeUserNext, PTL DEF Spec

-----------------------------------------------------------------------------
(* The refinement of the address space. *)
Pages == [v \in Virts |-> Translate(v)]

Request == IF call.at = "idle" THEN NONE ELSE [virt |-> call.virt, frame |-> call.frame, user |-> call.user]

LEMMA RequestIs ==
    call \in CallType => Request = [virt |-> call.virt, frame |-> call.frame, user |-> call.user]
                         /\ Request # NONE
<1> SUFFICES ASSUME call \in CallType
             PROVE  Request = [virt |-> call.virt, frame |-> call.frame, user |-> call.user]
                    /\ Request # NONE
  OBVIOUS
<1>1. /\ call.at # "idle" /\ call.virt \in Virts /\ call.frame \in Memory /\ call.user \in BOOLEAN
  BY DEF CallType
<1>2. Request \in [virt : Virts, frame : Memory, user : BOOLEAN]
  BY <1>1 DEF Request
<1> QED
  BY <1>1, <1>2, VmmAssumption, Zenon DEF Request

LEMMA PagesAre ==
    /\ \A v \in Virts : Pages[v] = Found(tables, v)
    /\ (\A v \in Virts : Found(tables', v) = Found(tables, v)) => Pages' = Pages
<1>1. \A v : Translate(v) = Found(tables, v)
  BY FoundIs
<1>2. \A v : Translate(v)' = Found(tables', v)
  <2>1. (\A v : Translate(v) = Found(tables, v))'
    BY FoundIs, PTL
  <2> QED
    BY <2>1
<1> QED
  BY <1>1, <1>2, Zenon DEF Pages

(* Each step is one of the address space's. *)
LEMMA OutcomeImplements ==
    ASSUME Outcome, exhausted' = exhausted
    PROVE  A!Ask \/ A!Answer \/ (Pages' = Pages /\ Request' = Request)
<1> DEFINE Record(c) == [virt |-> c.virt, frame |-> c.frame, user |-> c.user]
<1>1. CASE SameRequest /\ NothingMoved
  <2>1. Pages' = Pages
    BY <1>1, PagesAre, Zenon DEF NothingMoved
  <2>2. Request' = Request
    BY <1>1, Zenon DEF SameRequest, Request, Calling
  <2> QED
    BY <2>1, <2>2
<1>2. CASE Answered
  <2>1. Request = Record(call) /\ Request # NONE /\ Request' = NONE
    <3>1. Request' = NONE
      BY <1>2 DEF Answered, Request, Idle
    <3> QED
      BY <1>2, <3>1, RequestIs DEF Answered
  <2>2. /\ Request.virt = call.virt /\ Request.frame = call.frame /\ Request.user = call.user
    BY <2>1, Zenon
  <2>3. call.virt \in Virts
    BY <1>2 DEF Answered, CallType
  <2>4. \A v \in Virts : Pages[v] = Found(tables, v)
    BY PagesAre
  <2>5. \A v \in Virts : Pages'[v] = Found(tables', v)
    <3>1. (\A v \in Virts : Pages[v] = Found(tables, v))'
      BY PagesAre, PTL
    <3> QED
      BY <3>1
  <2>6. Pages' = [Pages EXCEPT ![Request.virt] = [frame |-> Request.frame, user |-> Request.user]]
    <3>1. DOMAIN Pages = Virts /\ DOMAIN Pages' = Virts /\ Pages = [v \in Virts |-> Pages[v]]
          /\ Pages' = [v \in Virts |-> Pages'[v]]
      BY Zenon DEF Pages
    <3>2. Pages'[call.virt] = [frame |-> call.frame, user |-> call.user]
      BY <1>2, <2>3, <2>5, Zenon DEF Answered
    <3>3. \A v \in Virts : v # call.virt => Pages'[v] = Pages[v]
      BY <1>2, <2>4, <2>5, Zenon DEF Answered
    <3>4. Pages' = [Pages EXCEPT ![call.virt] = [frame |-> call.frame, user |-> call.user]]
      BY <3>1, <3>2, <3>3, Zenon
    <3> QED
      BY <2>2, <3>4, Zenon
  <2>7. A!Answer
    BY <2>1, <2>6, Zenon DEF A!Answer, Pages, Request
  <2> QED
    BY <2>7
<1>3. ASSUME NEW v \in Virts, NEW frame, NEW user, Asked(v, frame, user)
      PROVE  A!Ask
  <2>1. Request = NONE
    BY <1>3 DEF Asked, Calling, Request
  <2>2. Request' # NONE
    <3>1. (call \in CallType => Request # NONE)'
      BY RequestIs, PTL
    <3> QED
      BY <1>3, <3>1 DEF Asked
  <2>3. Pages' = Pages
    BY <1>3, PagesAre, Zenon DEF Asked
  <2> QED
    BY <2>1, <2>2, <2>3, Zenon DEF A!Ask, Pages, Request
<1>4. CASE UNCHANGED <<tables, call>>
  <2>1. tables' = tables /\ call' = call
    BY <1>4
  <2> QED
    BY <2>1, PagesAre, Zenon DEF Request
<1> QED
  BY <1>1, <1>2, <1>3, <1>4, Zenon DEF Outcome

LEMMA InitImplements == Init => A!Init
<1> SUFFICES ASSUME Init PROVE A!Init
  OBVIOUS
<1>1. /\ tables = [f \in Memory |-> IF f = Root THEN Zeroed ELSE Garbage]
      /\ call = Idle /\ exhausted = FALSE
  BY DEF Init, VmmInit
<1>2. ASSUME NEW v \in Virts PROVE Translate(v) = UNMAPPED
  <2>1. ~First(tables, v).present
    BY <1>1, RootInMemory, IndicesOf DEF First, Zeroed, Absent
  <2> QED
    BY <2>1, FoundIs, Zenon DEF Found, Mapped
<1>3. Pages = [v \in Virts |-> UNMAPPED]
  BY <1>2, Zenon DEF Pages
<1>4. Request = NONE
  BY <1>1 DEF Request, Idle
<1> QED
  BY <1>1, <1>3, <1>4, Zenon DEF A!Init, Pages, Request

(* A walk during vmm_map_page finds every page as it was or, at one step,  *)
(* as it was asked for, whatever was mapped and whoever asks next.         *)
THEOREM ImplementsAddressSpaceCorrect == Spec => ImplementsAddressSpace
<1>1. FrameInv /\ [Next]_vars => [A!Next]_<<Pages, Request, exhausted>>
  <2> SUFFICES ASSUME FrameInv, [Next]_vars
               PROVE  A!Next \/ (Pages' = Pages /\ Request' = Request /\ exhausted' = exhausted)
    BY Zenon
  <2>1. CASE exhausted'
    BY <2>1, Zenon DEF A!Next, A!Exhaust
  <2>2. CASE ~exhausted'
    <3>1. Outcome /\ exhausted' = exhausted
      BY <2>2, FrameStep, ExhaustedStays
    <3> QED
      BY <3>1, OutcomeImplements, Zenon DEF A!Next
  <2> QED
    BY <2>1, <2>2
<1>2. FrameInv /\ [Next]_vars =>
        [A!Next]_<<[v \in Virts |-> Translate(v)],
                   IF call.at = "idle" THEN NONE
                   ELSE [virt |-> call.virt, frame |-> call.frame, user |-> call.user],
                   exhausted>>
  BY <1>1, Zenon DEF Pages, Request
<1> QED
  BY <1>2, FrameInit, FrameNext, InitImplements, PTL DEF Spec, A!Spec, ImplementsAddressSpace
===============================================================================
