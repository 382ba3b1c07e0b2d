------------------------------- MODULE Syscall -------------------------------
(***************************************************************************)
(* Ring 3 and the way into the kernel and back: the SYSCALL instruction as *)
(* syscall_init programs it, syscall_entry_stub of arch/x86_64/            *)
(* syscall_asm.S one instruction a step, syscall_dispatch of sys/          *)
(* syscall.c, and interrupts, which take the stack whose top the TSS names *)
(* -- the one the stub takes too.                                          *)
(*                                                                         *)
(* A register holds what the user put there, which is written as its name, *)
(* what the kernel asks of it, or JUNK.  A compiled function               *)
(* preserves what the C calling convention says and nothing else.  Reading *)
(* the keyboard is two steps, as in Input; files are in Vfs and drawing in *)
(* Desktop, so here they only return.                                      *)
(***************************************************************************)
EXTENDS Integers, Sequences, SequencesExt

CONSTANTS
    USER, KERNEL, NOWHERE,  \* where a stack pointer points: the user's stack or the kernel's
    JUNK,
    MaxKeys                 \* bound: how many keys are struck

VARIABLES
    regs, rsp, rflags,
    ring,
    ip,                     \* the stub's next instruction, 0 in ring 3
    at,                     \* "user", "stub", "dispatch", "clear", "handler"
    kstack,                 \* what the kernel's stack holds, its top last
    g_user_saved_rsp,
    s_last_char,            \* the number of the keystroke in the keyboard's slot, or 0
    keys,                   \* ghost: how many there were
    read,                   \* keyboard_get_last_char's copy of the slot
    entered                 \* ghost: the user's state when it executed SYSCALL

machine_vars == <<regs, rsp, rflags, ring, ip, at, kstack, g_user_saved_rsp>>
syscall_vars == <<machine_vars, s_last_char, keys, read, entered>>

Flags == {"IF", "TF", "DF", "NT"}

(* Interrupts are not masked: a slip. *)
MaskTrapOnly == {"TF", "DF"}

(* syscall.c:59; the comment above it has NT too. *)
SFMASK == {"IF", "TF", "DF"}

Preserved == {"rbx", "rbp", "r12", "r13", "r14", "r15"}
Arguments == <<"rdi", "rsi", "rdx", "r10", "r8", "r9">>
Registers == Preserved \cup ToSet(Arguments) \cup {"rax", "rcx", "r11"}

Mov(to, from) == [op |-> "mov", to |-> to, from |-> from]
Push(from) == [op |-> "push", from |-> from]
Pop(to) == [op |-> "pop", to |-> to]
Op(op) == [op |-> op]

(* A slip: the fifth argument is written over before it is put aside. *)
ShuffleSwapped ==
    <<Mov("rcx", "rdx"), Mov("rdx", "rsi"), Mov("rsi", "rdi"), Mov("rdi", "rax"),
      Mov("r8", "r10"), Mov("rax", "r8"), Push("r9"), Mov("r9", "rax")>>

(* From where SYSCALL has the arguments to where a C function has them; it *)
(* counts in which order.                                                  *)
Shuffle ==
    <<Mov("rcx", "rdx"), Mov("rdx", "rsi"), Mov("rsi", "rdi"), Mov("rdi", "rax"),
      Mov("rax", "r8"), Mov("r8", "r10"), Push("r9"), Mov("r9", "rax")>>

(* syscall_entry_stub *)
Prologue ==
    <<Op("save rsp"), Op("load rsp"),
      Push("rbp"), Push("rbx"), Push("r12"), Push("r13"), Push("r14"), Push("r15"),
      Push("rcx"), Push("r11"), Op("push saved rsp")>>

Epilogue ==
    <<Op("call"), Op("drop"), Pop("r11"), Pop("r11"), Pop("rcx"),
      Pop("r15"), Pop("r14"), Pop("r13"), Pop("r12"), Pop("rbx"), Pop("rbp"),
      Op("restore rsp"), Op("sysret")>>

Stub == Prologue \o Shuffle \o Epilogue

UserRegs(num, fd) ==
    [r \in Registers |-> IF r = "rax" THEN num ELSE IF r = "rdi" THEN fd ELSE r]

SyscallInit ==
    /\ regs = UserRegs("none", "none")
    /\ rsp = KERNEL /\ rflags = {} /\ ring = 0
    /\ ip = 0 /\ at = "boot" /\ kstack = <<>>
    /\ g_user_saved_rsp = NOWHERE
    /\ s_last_char = 0 /\ keys = 0 /\ read = 0
    /\ entered = [regs |-> regs, rflags |-> {}, rsp |-> NOWHERE]

(* user_mode_enter_test's iretq. *)
Iretq ==
    /\ ring' = 3 /\ at' = "user" /\ rsp' = USER /\ rflags' = {"IF"}
    /\ UNCHANGED <<regs, ip, kstack, g_user_saved_rsp, s_last_char, keys, read, entered>>

-----------------------------------------------------------------------------
(* What rdi may be as a descriptor: 0, 1 or 2, or another. *)
Fds == {"input", "output", "other"}

(* SYSCALL: the user's rip and flags are in rcx and r11, and the stack is  *)
(* still the user's.  It may set any flag but IF beforehand.               *)
Numbers == {"write", "read", "open", "close", "getpid", "yield", "draw rect",
            "swap buffers", "unknown"}

Enter(num, fd, flags) ==
    /\ at = "user"
    /\ entered' = [regs |-> UserRegs(num, fd), rflags |-> flags \cup {"IF"}, rsp |-> rsp]
    /\ regs' = [UserRegs(num, fd) EXCEPT !["rcx"] = "rip", !["r11"] = flags \cup {"IF"}]
    /\ rflags' = (flags \cup {"IF"}) \ SFMASK
    /\ ring' = 0 /\ ip' = 1 /\ at' = "stub"
    /\ UNCHANGED <<rsp, kstack, g_user_saved_rsp, s_last_char, keys, read>>

Instruction == Stub[ip]

Pushed(value) == kstack' = Append(kstack, value)

Executing(op) ==
    /\ at = "stub" /\ Instruction.op = op
    /\ UNCHANGED <<s_last_char, keys, read, entered>>

Stepped == ip' = ip + 1 /\ UNCHANGED <<rflags, ring, at>>

Move ==
    /\ Executing("mov")
    /\ regs' = [regs EXCEPT ![Instruction.to] = regs[Instruction.from]]
    /\ UNCHANGED <<rsp, kstack, g_user_saved_rsp>> /\ Stepped

PushRegister ==
    /\ Executing("push")
    /\ Pushed(regs[Instruction.from])
    /\ UNCHANGED <<regs, rsp, g_user_saved_rsp>> /\ Stepped

PopRegister ==
    /\ Executing("pop")
    /\ regs' = [regs EXCEPT ![Instruction.to] = Last(kstack)]
    /\ kstack' = Front(kstack)
    /\ UNCHANGED <<rsp, g_user_saved_rsp>> /\ Stepped

SaveRsp ==
    /\ Executing("save rsp")
    /\ g_user_saved_rsp' = rsp
    /\ UNCHANGED <<regs, rsp, kstack>> /\ Stepped

(* g_kernel_syscall_stack: whatever is below its top is written over. *)
LoadRsp ==
    /\ Executing("load rsp")
    /\ rsp' = KERNEL /\ kstack' = <<>>
    /\ UNCHANGED <<regs, g_user_saved_rsp>> /\ Stepped

PushSaved ==
    /\ Executing("push saved rsp")
    /\ Pushed(g_user_saved_rsp)
    /\ UNCHANGED <<regs, rsp, g_user_saved_rsp>> /\ Stepped

Drop ==
    /\ Executing("drop")
    /\ kstack' = Front(kstack)
    /\ UNCHANGED <<regs, rsp, g_user_saved_rsp>> /\ Stepped

RestoreRsp ==
    /\ Executing("restore rsp")
    /\ rsp' = g_user_saved_rsp
    /\ UNCHANGED <<regs, kstack, g_user_saved_rsp>> /\ Stepped

Sysret ==
    /\ Executing("sysret")
    /\ rflags' = regs["r11"]
    /\ ring' = 3 /\ ip' = 0 /\ at' = "user"
    /\ UNCHANGED <<regs, rsp, kstack, g_user_saved_rsp>>

Call ==
    /\ Executing("call")
    /\ at' = "dispatch"
    /\ UNCHANGED <<regs, rsp, rflags, ring, ip, kstack, g_user_saved_rsp>>

-----------------------------------------------------------------------------
(* syscall_dispatch, called with the number in rdi and the rest after it.  *)
Num == regs["rdi"]
Fd == regs["rsi"]

Returning(result) ==
    /\ regs' = [r \in Registers |->
         IF r \in Preserved THEN regs[r] ELSE IF r = "rax" THEN result ELSE JUNK]
    /\ ip' = ip + 1 /\ at' = "stub"
    /\ UNCHANGED <<rsp, rflags, ring, kstack, g_user_saved_rsp, keys, entered>>

Results ==
    CASE Num = "write" -> IF Fd = "output" THEN {regs["rcx"]} ELSE {-1}
      [] Num = "open" -> {-1, 0}
      [] Num = "getpid" -> {1}
      [] Num \in {"close", "yield", "draw rect", "swap buffers"} -> {0}
      [] OTHER -> {-1}

Dispatch ==
    /\ at = "dispatch"
    /\ \E result \in Results : Returning(result)
    /\ UNCHANGED <<s_last_char, read>>

(* SYS_READ of the keyboard into a buffer with room, which is not modelled: *)
(* the slot is read, and cleared.                                          *)
ReadSlot ==
    /\ at = "dispatch" /\ Num = "read" /\ Fd = "input"
    /\ read' = s_last_char
    /\ at' = "clear"
    /\ UNCHANGED <<regs, rsp, rflags, ring, ip, kstack, g_user_saved_rsp, s_last_char, keys, entered>>

ClearSlot ==
    /\ at = "clear"
    /\ s_last_char' = 0
    /\ read' = 0
    /\ Returning(IF read = 0 THEN 0 ELSE 1)

-----------------------------------------------------------------------------
(* An interrupt: from ring 3 to the stack the TSS names, from ring 0 on    *)
(* whatever stack there is.  The handler saves and restores every register.*)
Frame == [rsp |-> rsp, rflags |-> rflags, ring |-> ring, at |-> at]

Interrupt ==
    /\ "IF" \in rflags /\ at # "boot"
    /\ keys < MaxKeys
    /\ keys' = keys + 1
    /\ kstack' = IF ring = 3 THEN <<Frame>> ELSE Append(kstack, Frame)
    /\ rsp' = IF ring = 3 THEN KERNEL ELSE rsp
    /\ s_last_char' = keys'
    /\ rflags' = {} /\ ring' = 0 /\ at' = "handler"
    /\ UNCHANGED <<regs, ip, g_user_saved_rsp, read, entered>>

Return ==
    /\ at = "handler"
    /\ rsp' = Last(kstack).rsp /\ rflags' = Last(kstack).rflags
    /\ ring' = Last(kstack).ring /\ at' = Last(kstack).at
    /\ kstack' = Front(kstack)
    /\ UNCHANGED <<regs, ip, g_user_saved_rsp, s_last_char, keys, read, entered>>

StubStep ==
    Move \/ PushRegister \/ PopRegister \/ SaveRsp \/ LoadRsp \/ PushSaved \/ Drop
        \/ RestoreRsp \/ Sysret \/ Call

SyscallStep == StubStep \/ Dispatch \/ ReadSlot \/ ClearSlot \/ Interrupt \/ Return

-----------------------------------------------------------------------------
(* What syscall_dispatch gets is what the user passed. *)
ArgumentsArrive ==
    at = "dispatch" =>
        /\ Num = entered.regs["rax"]
        /\ <<regs["rsi"], regs["rdx"], regs["rcx"], regs["r8"], regs["r9"], Last(kstack)>>
             = [n \in DOMAIN Arguments |-> entered.regs[Arguments[n]]]

(***************************************************************************)
(* A call gets what the user passed, and the user gets back its stack, its *)
(* flags and the registers a C function preserves, although the stub       *)
(* takes the stack pointer from a global every call and every interrupt's  *)
(* stack begins at the same address (syscall_asm.S:15-16, 30-59).          *)
(***************************************************************************)
ContextRestored ==
    /\ ArgumentsArrive
    /\ at = "user" /\ entered.rsp # NOWHERE =>
         /\ rsp = entered.rsp /\ rflags = entered.rflags /\ regs["rcx"] = "rip"
         /\ \A r \in Preserved : regs[r] = entered.regs[r]

(***************************************************************************)
(* No handler runs on the user's stack or in the middle of a system call,  *)
(* and so SYS_READ clears no keystroke it has not read, as the loop of     *)
(* kmain may (ps2_kbd.c:34-35, syscall.c:59, 80-90).                       *)
(***************************************************************************)
CallsUninterrupted ==
    /\ at = "handler" => rsp = KERNEL /\ Len(kstack) = 1
    /\ at = "clear" => s_last_char = read

(***************************************************************************)
(* docs/ARCHITECTURE.md:82: a system call clobbers RCX and R11.            *)
(***************************************************************************)
OnlyRcxR11Clobbered ==
    at = "user" /\ entered.rsp # NOWHERE =>
        \A r \in Registers \ {"rax", "rcx", "r11"} : regs[r] = entered.regs[r]
==============================================================================
