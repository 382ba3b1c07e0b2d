----------------------------- MODULE InputProofs -----------------------------
(***************************************************************************)
(* For every number of keystrokes, every line length and every way the     *)
(* interrupts fall: a keystroke is acted upon at most once and in order,   *)
(* and Enter runs the line that was edited in the shell's buffer.  Order   *)
(* needs to know how the slot, the loop's hands and what was handled       *)
(* before relate at every place the loop can be; the line editor needs to  *)
(* know that the bytes before s_input_len are characters, so that the      *)
(* first NUL is the one that Enter writes.                                 *)
(***************************************************************************)
EXTENDS Input, SequenceTheorems, TLAPS

(* The line in the buffer holds characters only. *)
LineOK == \A j \in 0 .. (s_input_len - 1) : s_input_buf[j] \in Printable

(* What the slot and the loop hold was not handled yet. *)
Pending ==
    /\ \A m \in DOMAIN handled :
          /\ s_last_char # 0 => handled[m] < s_last_char
          /\ c # 0 => handled[m] < c
    /\ pc = "dispatch" => c # 0
    /\ pc \notin {"clear", "dispatch"} => c = 0
    /\ pc = "clear" /\ s_last_char # 0 => c <= s_last_char
    /\ pc = "dispatch" /\ s_last_char # 0 => c < s_last_char

ShellInv == ShellTypeOK /\ LineOK

IInv == TypeOK /\ LineOK /\ HandledInOrder /\ Pending

-----------------------------------------------------------------------------
(* A prefix of the buffer with characters only is a sequence of them. *)
LEMMA PrefixIsSeq ==
    ASSUME NEW buf, NEW n \in Nat, \A j \in 0 .. (n - 1) : buf[j] \in Printable
    PROVE  /\ Prefix(buf, n) \in Seq(Printable)
           /\ Len(Prefix(buf, n)) = n
           /\ \A i \in 1 .. n : Prefix(buf, n)[i] = buf[i - 1]
<1>1. \A i \in 1 .. n : buf[i - 1] \in Printable
  BY SMT
<1> DEFINE e(i) == buf[i - 1]
<1>2. [i \in 1 .. n |-> e(i)] \in Seq(Printable)
  <2>1. \A i \in 1 .. n : e(i) \in Printable
    BY <1>1
  <2> HIDE DEF e
  <2> QED
    BY <2>1, IsASeq
<1>3. Prefix(buf, n) \in Seq(Printable)
  BY <1>2 DEF Prefix
<1>4. DOMAIN Prefix(buf, n) = 1 .. n
  BY DEF Prefix
<1> QED
  BY <1>3, <1>4, LenProperties, SMT DEF Prefix

(* Two sequences of characters that agree everywhere are the same. *)
LEMMA SameLine ==
    ASSUME NEW s \in Seq(Printable), NEW t \in Seq(Printable), Len(s) = Len(t),
           \A i \in 1 .. Len(s) : s[i] = t[i]
    PROVE  s = t
  BY SeqEqual

(* The buffer read as a C string ends at the first NUL. *)
LEMMA CStringIsPrefix ==
    ASSUME NEW buf, NEW n \in Nat, DOMAIN buf = Indices, n \in Indices,
           buf[n] = NUL, \A j \in 0 .. (n - 1) : buf[j] \in Printable
    PROVE  CString(buf) = Prefix(buf, n)
<1> DEFINE S == {j \in DOMAIN buf : buf[j] = NUL}
<1>1. n \in S
  OBVIOUS
<1>2. \A j \in S : n <= j
  BY ShellAssumption, SMT DEF Indices
<1>3. S \subseteq Nat
  BY SMT DEF Indices
<1>4. \A m \in S : (\A j \in S : m <= j) => m = n
  <2> HIDE DEF S
  <2> QED
    BY <1>1, <1>2, <1>3, SMT
<1>5. Min(S) = n
  <2> HIDE DEF S
  <2> QED
    BY <1>1, <1>2, <1>4, Zenon DEF Min
<1> QED
  BY <1>5 DEF CString

LEMMA ShellInitOK == ShellInit => ShellInv /\ L!Init
<1> SUFFICES ASSUME ShellInit PROVE ShellInv /\ L!Init
  OBVIOUS
<1>1. s_input_len = 0 /\ ran = <<>> /\ s_input_buf = [j \in Indices |-> NUL]
  BY DEF ShellInit
<1>2. ran \in Seq(Seq(Printable))
  BY <1>1
<1>3. ShellTypeOK
  BY <1>1, <1>2, ShellAssumption, SMT DEF ShellTypeOK
<1>4. LineOK
  BY <1>1, SMT DEF LineOK
<1>5. Prefix(s_input_buf, 0) = <<>>
  <2>1. \A j \in 0 .. (0 - 1) : s_input_buf[j] \in Printable
    BY SMT
  <2> QED
    BY <2>1, PrefixIsSeq, EmptySeq
<1> QED
  BY <1>1, <1>3, <1>4, <1>5 DEF ShellInv, L!Init

LEMMA EnterOK ==
    ASSUME ShellInv, NEW ch \in Keys, Enter(ch)
    PROVE  ShellInv' /\ L!Run
<1>1. /\ s_input_len \in Nat /\ s_input_len \in Indices
      /\ LineMax \in Nat
      /\ DOMAIN s_input_buf = Indices
  BY ShellAssumption, SMT DEF ShellInv, ShellTypeOK, Indices
<1>2. /\ DOMAIN s_input_buf' = Indices
      /\ s_input_buf'[s_input_len] = NUL
      /\ \A j \in Indices : j # s_input_len => s_input_buf'[j] = s_input_buf[j]
      /\ s_input_len' = 0
      /\ ran' = Append(ran, CString(s_input_buf'))
      /\ s_input_buf' = [s_input_buf EXCEPT ![s_input_len] = NUL]
  BY <1>1 DEF Enter
<1>3. \A j \in 0 .. (s_input_len - 1) :
          s_input_buf'[j] = s_input_buf[j] /\ s_input_buf[j] \in Printable
  BY <1>1, <1>2, SMT DEF ShellInv, ShellTypeOK, LineOK, Indices
<1>4. ran' = Append(ran, Prefix(s_input_buf', s_input_len))
  BY <1>1, <1>2, <1>3, CStringIsPrefix
<1>5. Prefix(s_input_buf', s_input_len) = Prefix(s_input_buf, s_input_len)
  <2>1. /\ Prefix(s_input_buf, s_input_len) \in Seq(Printable)
        /\ Len(Prefix(s_input_buf, s_input_len)) = s_input_len
        /\ \A i \in 1 .. s_input_len :
              Prefix(s_input_buf, s_input_len)[i] = s_input_buf[i - 1]
    BY <1>1, <1>3, PrefixIsSeq
  <2>2. /\ Prefix(s_input_buf', s_input_len) \in Seq(Printable)
        /\ Len(Prefix(s_input_buf', s_input_len)) = s_input_len
        /\ \A i \in 1 .. s_input_len :
              Prefix(s_input_buf', s_input_len)[i] = s_input_buf'[i - 1]
    BY <1>1, <1>3, PrefixIsSeq
  <2>3. \A i \in 1 .. s_input_len : s_input_buf'[i - 1] = s_input_buf[i - 1]
    BY <1>1, <1>3, SMT
  <2> QED
    BY <2>1, <2>2, <2>3, SameLine
<1>6. Prefix(s_input_buf', s_input_len') = <<>>
  <2>1. \A j \in 0 .. (0 - 1) : s_input_buf'[j] \in Printable
    BY SMT
  <2> QED
    BY <1>2, <2>1, PrefixIsSeq, EmptySeq
<1>7. ran' \in Seq(Seq(Printable))
  <2>1. Prefix(s_input_buf', s_input_len) \in Seq(Printable)
    BY <1>1, <1>3, PrefixIsSeq
  <2> QED
    BY <1>4, <2>1, AppendProperties DEF ShellInv, ShellTypeOK
<1>8. ShellTypeOK' /\ LineOK'
  <2>1. s_input_buf' \in [Indices -> Printable \cup {NUL}]
    BY <1>2, Zenon DEF ShellInv, ShellTypeOK
  <2>2. s_input_len' \in 0 .. LineMax /\ LineOK'
    BY <1>1, <1>2, SMT DEF LineOK
  <2> QED
    BY <1>7, <2>1, <2>2 DEF ShellTypeOK
<1> QED
  BY <1>4, <1>5, <1>6, <1>8 DEF ShellInv, L!Run

LEMMA BackspaceOK ==
    ASSUME ShellInv, NEW ch \in Keys, Backspace(ch)
    PROVE  ShellInv' /\ L!Erase
<1> DEFINE n == s_input_len - 1
           line == Prefix(s_input_buf, s_input_len)
<1>1. /\ s_input_len \in Nat /\ n \in Nat /\ n \in Indices
      /\ s_input_len = n + 1 /\ n <= LineMax /\ LineMax \in Nat
      /\ DOMAIN s_input_buf = Indices
  BY ShellAssumption, SMT DEF ShellInv, ShellTypeOK, Indices, Backspace
<1>2. /\ s_input_len' = n /\ ran' = ran
      /\ s_input_buf' = [s_input_buf EXCEPT ![n] = NUL]
      /\ \A j \in Indices : j # n => s_input_buf'[j] = s_input_buf[j]
  BY <1>1 DEF Backspace
<1>3. \A j \in 0 .. (n - 1) :
          s_input_buf'[j] = s_input_buf[j] /\ s_input_buf[j] \in Printable
  BY <1>1, <1>2, SMT DEF ShellInv, ShellTypeOK, LineOK, Indices
<1>4. \A j \in 0 .. (s_input_len - 1) : s_input_buf[j] \in Printable
  BY DEF ShellInv, LineOK
<1> HIDE DEF n
<1>5. /\ line \in Seq(Printable) /\ Len(line) = n + 1
      /\ \A i \in 1 .. (n + 1) : line[i] = s_input_buf[i - 1]
  BY <1>1, <1>4, PrefixIsSeq
<1>6. /\ Prefix(s_input_buf', n) \in Seq(Printable)
      /\ Len(Prefix(s_input_buf', n)) = n
      /\ \A i \in 1 .. n : Prefix(s_input_buf', n)[i] = s_input_buf'[i - 1]
  BY <1>1, <1>3, PrefixIsSeq
<1> HIDE DEF line
<1>7. SubSeq(line, 1, n) = Prefix(s_input_buf', n)
  <2>1. \A i \in 1 .. n : line[i] \in Printable
    BY <1>1, <1>5, ElementOfSeq, SMT
  <2>2. /\ SubSeq(line, 1, n) \in Seq(Printable)
        /\ Len(SubSeq(line, 1, n)) = IF 1 <= n THEN n - 1 + 1 ELSE 0
        /\ \A i \in 1 .. (n - 1 + 1) : SubSeq(line, 1, n)[i] = line[1 + i - 1]
    <3>1. 1 \in Int /\ n \in Int
      BY <1>1, SMT
    <3> HIDE DEF n
    <3> QED
      BY <2>1, <3>1, SubSeqProperties
  <2>3. Len(SubSeq(line, 1, n)) = n
    BY <1>1, <2>2, SMT
  <2>4. \A i \in 1 .. n : SubSeq(line, 1, n)[i] = Prefix(s_input_buf', n)[i]
    BY <1>1, <1>3, <1>5, <1>6, <2>2, SMT
  <2> QED
    BY <1>6, <2>2, <2>3, <2>4, SameLine
<1>8. line # <<>> /\ Len(line) - 1 = n
  BY <1>1, <1>5, EmptySeq, SMT
<1>9. L!Erase
  BY <1>2, <1>7, <1>8 DEF L!Erase, line
<1>10. ShellTypeOK' /\ LineOK'
  <2>1. s_input_buf' \in [Indices -> Printable \cup {NUL}]
    BY <1>2, Zenon DEF ShellInv, ShellTypeOK
  <2>2. s_input_len' \in 0 .. LineMax
    BY <1>1, <1>2, SMT
  <2>3. LineOK'
    BY <1>2, <1>3 DEF LineOK
  <2> QED
    BY <1>2, <2>1, <2>2, <2>3 DEF ShellInv, ShellTypeOK
<1> QED
  BY <1>9, <1>10 DEF ShellInv

LEMMA InsertOK ==
    ASSUME ShellInv, NEW ch \in Keys, Insert(ch)
    PROVE  ShellInv' /\ L!Type(ch) /\ ch \in Printable
<1> DEFINE n == s_input_len
           line == Prefix(s_input_buf, n)
           next == Prefix(s_input_buf', n + 1)
<1>1. /\ n \in Nat /\ n \in Indices /\ n < LineMax /\ LineMax \in Nat
      /\ DOMAIN s_input_buf = Indices
  BY ShellAssumption, SMT DEF ShellInv, ShellTypeOK, Indices, Insert, HasRoom
<1>2. /\ s_input_len' = n + 1 /\ ran' = ran /\ ch \in Printable
      /\ s_input_buf' = [s_input_buf EXCEPT ![n] = ch]
      /\ s_input_buf'[n] = ch
      /\ \A j \in Indices : j # n => s_input_buf'[j] = s_input_buf[j]
  BY <1>1 DEF Insert
<1>3. \A j \in 0 .. (n - 1) :
          s_input_buf'[j] = s_input_buf[j] /\ s_input_buf[j] \in Printable
  BY <1>1, <1>2, SMT DEF ShellInv, ShellTypeOK, LineOK, Indices
<1>4. \A j \in 0 .. n : s_input_buf'[j] \in Printable
  BY <1>1, <1>2, <1>3, SMT
<1> HIDE DEF n
<1>5. /\ line \in Seq(Printable) /\ Len(line) = n
      /\ \A i \in 1 .. n : line[i] = s_input_buf[i - 1]
  BY <1>1, <1>3, PrefixIsSeq
<1>6. /\ next \in Seq(Printable) /\ Len(next) = n + 1
      /\ \A i \in 1 .. (n + 1) : next[i] = s_input_buf'[i - 1]
  BY <1>1, <1>4, PrefixIsSeq, SMT
<1> HIDE DEF line, next
<1>7. next = Append(line, ch)
  <2>1. /\ Append(line, ch) \in Seq(Printable)
        /\ Len(Append(line, ch)) = n + 1
        /\ \A i \in 1 .. n : Append(line, ch)[i] = line[i]
        /\ Append(line, ch)[n + 1] = ch
    BY <1>2, <1>5, AppendProperties
  <2>2. \A i \in 1 .. n : next[i] = Append(line, ch)[i]
    <3>1. \A i \in 1 .. n : s_input_buf'[i - 1] = s_input_buf[i - 1]
      BY <1>1, <1>3, SMT
    <3>2. \A i \in 1 .. n : next[i] = s_input_buf'[i - 1]
      BY <1>1, <1>6, SMT
    <3> QED
      BY <1>5, <2>1, <3>1, <3>2
  <2>3. next[n + 1] = ch
    BY <1>1, <1>2, <1>6, SMT
  <2>4. \A i \in 1 .. (n + 1) : next[i] = Append(line, ch)[i]
    BY <1>1, <2>1, <2>2, <2>3, SMT
  <2> QED
    BY <1>6, <2>1, <2>4, SameLine
<1>8. L!Type(ch)
  BY <1>1, <1>2, <1>5, <1>7 DEF L!Type, line, next, n
<1>9. ShellTypeOK' /\ LineOK'
  <2>1. s_input_buf' \in [Indices -> Printable \cup {NUL}]
    BY <1>2, Zenon DEF ShellInv, ShellTypeOK
  <2>2. s_input_len' \in 0 .. LineMax
    BY <1>1, <1>2, SMT
  <2>3. LineOK'
    <3>1. s_input_len' - 1 = n
      BY <1>1, <1>2, SMT
    <3>2. \A j \in 0 .. (s_input_len' - 1) : s_input_buf'[j] \in Printable
      BY <1>4, <3>1, Zenon
    <3> QED
      BY <3>2, Zenon DEF LineOK
  <2> QED
    BY <1>2, <2>1, <2>2, <2>3 DEF ShellInv, ShellTypeOK
<1> QED
  BY <1>2, <1>8, <1>9 DEF ShellInv

LEMMA SameShell ==
    ASSUME ShellInv, UNCHANGED shell_vars
    PROVE  ShellInv' /\ UNCHANGED L!vars
  BY DEF ShellInv, ShellTypeOK, LineOK, shell_vars, L!vars

(* Whatever the character, the editor takes a step of the line editor. *)
LEMMA HandleCharOK ==
    ASSUME ShellInv, NEW ch \in Keys, HandleChar(ch)
    PROVE  ShellInv' /\ [L!Next]_L!vars
<1>1. CASE Enter(ch)
  BY <1>1, EnterOK DEF L!Next
<1>2. CASE Backspace(ch)
  BY <1>2, BackspaceOK DEF L!Next
<1>3. CASE Insert(ch)
  BY <1>3, InsertOK DEF L!Next
<1>4. CASE Ignore(ch)
  BY <1>4, SameShell DEF Ignore
<1> QED
  BY <1>1, <1>2, <1>3, <1>4 DEF HandleChar

-----------------------------------------------------------------------------
(* What the invariant says of the loop and the slot, without the shell. *)
LoopInv ==
    /\ typed \in Seq(Keys)
    /\ s_last_char \in 0 .. Len(typed)
    /\ pc \in {"poll", "clear", "dispatch", "halt", "asleep"}
    /\ c \in 0 .. Len(typed)
    /\ handled \in Seq(1 .. Len(typed))
    /\ HandledInOrder
    /\ Pending

LEMMA Parts ==
    /\ IInv <=> ShellInv /\ LoopInv
    /\ IInv' <=> ShellInv' /\ LoopInv'
  BY DEF IInv, ShellInv, LoopInv, TypeOK

LEMMA InitOK == Init => IInv /\ L!Init
<1> SUFFICES ASSUME Init PROVE LoopInv /\ ShellInit
  BY ShellInitOK, Parts
<1>1. /\ typed = <<>> /\ s_last_char = 0 /\ pc = "poll" /\ c = 0 /\ handled = <<>>
      /\ ShellInit
  BY DEF Init
<1>2. Len(typed) = 0 /\ DOMAIN handled = {}
  BY <1>1, SMT
<1> QED
  BY <1>1, <1>2, SMT DEF LoopInv, HandledInOrder, Pending

LEMMA KeyIrqOK ==
    ASSUME IInv, NEW k \in Keys, KeyIrq(k)
    PROVE  LoopInv'
<1> DEFINE n == Len(typed)
<1>1. /\ typed' \in Seq(Keys) /\ Len(typed') = n + 1 /\ n \in Nat
      /\ s_last_char' = n + 1 /\ pc' = Woken /\ c' = c /\ handled' = handled
  BY AppendProperties, LenProperties DEF KeyIrq, IInv, TypeOK
<1>2. \A m \in DOMAIN handled : handled[m] \in 1 .. n
  BY LenProperties, ElementOfSeq DEF IInv, TypeOK
<1>3. handled \in Seq(1 .. (n + 1))
  <2>1. 1 .. n \subseteq 1 .. (n + 1)
    BY <1>1, SMT
  <2> QED
    BY <2>1, SeqMonotonic DEF IInv, TypeOK
<1>4. c \in 0 .. n /\ pc \in {"poll", "clear", "dispatch", "halt", "asleep"}
  BY DEF IInv, TypeOK
<1> HIDE DEF n
<1>5. Pending'
  <2>1. \A m \in DOMAIN handled : c # 0 => handled[m] < c
    BY DEF IInv, Pending
  <2>2. \A m \in DOMAIN handled : handled[m] < n + 1
    BY <1>1, <1>2, SMT
  <2>3. /\ pc' = "dispatch" <=> pc = "dispatch"
        /\ pc' = "clear" <=> pc = "clear"
    BY <1>1 DEF Woken
  <2>4. /\ pc = "dispatch" => c # 0
        /\ pc \notin {"clear", "dispatch"} => c = 0
    BY DEF IInv, Pending
  <2> QED
    BY <1>1, <1>4, <2>1, <2>2, <2>3, <2>4, SMT DEF Pending
<1>6. HandledInOrder'
  BY <1>1 DEF IInv, HandledInOrder
<1>7. /\ s_last_char' \in 0 .. Len(typed')
      /\ c' \in 0 .. Len(typed')
      /\ pc' \in {"poll", "clear", "dispatch", "halt", "asleep"}
  BY <1>1, <1>4, SMT DEF Woken
<1> QED
  BY <1>1, <1>3, <1>5, <1>6, <1>7 DEF LoopInv

(* The steps of the loop that only move the character along. *)
LEMMA MoveOK ==
    ASSUME IInv, Tick \/ Poll \/ Clear \/ Halt
    PROVE  LoopInv'
<1>1. /\ typed' = typed /\ handled' = handled
      /\ \A m \in DOMAIN handled : handled[m] \in Nat
      /\ Len(typed) \in Nat
      /\ s_last_char \in 0 .. Len(typed) /\ c \in 0 .. Len(typed)
      /\ pc \in {"poll", "clear", "dispatch", "halt", "asleep"}
  BY LenProperties, ElementOfSeq, SMT
  DEF IInv, TypeOK, Tick, Poll, Clear, Halt
<1>2. /\ s_last_char' \in 0 .. Len(typed) /\ c' \in 0 .. Len(typed)
      /\ pc' \in {"poll", "clear", "dispatch", "halt", "asleep"}
  BY <1>1, SMT DEF Tick, Poll, Clear, Halt, Woken, AfterPoll
<1>3. Pending'
  <2>1. CASE Tick \/ Halt
    BY <1>1, <2>1, SMT DEF IInv, Pending, Tick, Halt, Woken
  <2>2. CASE Poll
    BY <1>1, <2>2, SMT DEF IInv, Pending, Poll
  <2>3. CASE Clear
    BY <1>1, <2>3, SMT DEF IInv, Pending, Clear, AfterPoll
  <2> QED
    BY <2>1, <2>2, <2>3
<1> QED
  BY <1>1, <1>2, <1>3 DEF LoopInv, IInv, TypeOK, HandledInOrder

(* The keystroke in hand is later than all that were handled before it. *)
LEMMA ActedOK ==
    ASSUME IInv, pc = "dispatch", Acted
    PROVE  LoopInv'
<1> DEFINE h == Len(handled)
<1>1. /\ typed' = typed /\ s_last_char' = s_last_char /\ c' = 0 /\ pc' = "halt"
      /\ h \in Nat
      /\ c \in 1 .. Len(typed)
      /\ s_last_char \in 0 .. Len(typed)
      /\ Len(typed) \in Nat
  BY LenProperties, SMT DEF Acted, IInv, TypeOK, Pending
<1>2. /\ handled' \in Seq(1 .. Len(typed))
      /\ Len(handled') = h + 1
      /\ \A i \in 1 .. h : handled'[i] = handled[i]
      /\ handled'[h + 1] = c
  BY <1>1, AppendProperties DEF Acted, IInv, TypeOK
<1>3. DOMAIN handled' = 1 .. (h + 1) /\ DOMAIN handled = 1 .. h
  BY <1>2, LenProperties DEF IInv, TypeOK
<1>4. \A m \in 1 .. h : handled[m] \in Nat /\ handled[m] < c
  <2>1. \A m \in 1 .. h : handled[m] \in 1 .. Len(typed)
    BY ElementOfSeq DEF IInv, TypeOK
  <2>2. \A m \in DOMAIN handled : c # 0 => handled[m] < c
    BY DEF IInv, Pending
  <2> QED
    BY <1>1, <1>3, <2>1, <2>2, SMT
<1>5. s_last_char # 0 => c < s_last_char
  BY DEF IInv, Pending
<1> HIDE DEF h
<1>6. HandledInOrder'
  <2>1. \A m, n \in 1 .. h : m < n => handled[m] < handled[n]
    BY <1>3 DEF IInv, HandledInOrder
  <2> SUFFICES ASSUME NEW m \in 1 .. (h + 1), NEW n \in 1 .. (h + 1), m < n
               PROVE  handled'[m] < handled'[n]
    BY <1>3 DEF HandledInOrder
  <2>2. m \in 1 .. h
    BY <1>1, SMT
  <2>3. CASE n = h + 1
    BY <1>2, <1>4, <2>2, <2>3
  <2>4. CASE n \in 1 .. h
    BY <1>2, <2>1, <2>2, <2>4
  <2> QED
    BY <1>1, <2>3, <2>4, SMT
<1>7. \A m \in 1 .. (h + 1) : s_last_char # 0 => handled'[m] < s_last_char
  <2> SUFFICES ASSUME NEW m \in 1 .. (h + 1), s_last_char # 0
               PROVE  handled'[m] < s_last_char
    OBVIOUS
  <2>1. CASE m = h + 1
    BY <1>2, <1>5, <2>1
  <2>2. CASE m \in 1 .. h
    <3>1. handled'[m] = handled[m] /\ handled[m] < c /\ handled[m] \in Nat
      BY <1>2, <1>4, <2>2
    <3> QED
      BY <1>1, <1>5, <3>1, SMT
  <2> QED
    BY <1>1, <2>1, <2>2, SMT
<1>8. Pending'
  BY <1>1, <1>3, <1>7 DEF Pending
<1>9. c' \in 0 .. Len(typed')
  BY <1>1, SMT
<1> QED
  BY <1>1, <1>2, <1>6, <1>8, <1>9 DEF LoopInv, IInv, TypeOK

LEMMA NextOK ==
    ASSUME IInv, [Next]_vars
    PROVE  IInv' /\ [L!Next]_L!vars
<1>1. ASSUME NEW k \in Keys, KeyIrq(k) PROVE IInv' /\ [L!Next]_L!vars
  BY <1>1, KeyIrqOK, SameShell, Parts DEF KeyIrq
<1>2. CASE Tick \/ Poll \/ Clear \/ Halt
  BY <1>2, MoveOK, SameShell, Parts DEF Tick, Poll, Clear, Halt
<1>3. CASE ToDesktop
  BY <1>3, ActedOK, SameShell, Parts DEF ToDesktop
<1>4. CASE ToShell
  <2>1. typed[c] \in Keys
    <3>1. c \in 1 .. Len(typed)
      BY <1>4, LenProperties, SMT DEF ToShell, IInv, TypeOK, Pending
    <3> QED
      BY <3>1, ElementOfSeq DEF IInv, TypeOK
  <2>2. ShellInv' /\ [L!Next]_L!vars
    BY <1>4, <2>1, HandleCharOK, Parts DEF ToShell
  <2> QED
    BY <1>4, <2>2, ActedOK, Parts DEF ToShell
<1>5. CASE UNCHANGED vars
  <2>1. ShellInv' /\ UNCHANGED L!vars
    BY <1>5, SameShell, Parts DEF vars
  <2>2. LoopInv'
    BY <1>5, Parts DEF vars, LoopInv, HandledInOrder, Pending
  <2> QED
    BY <2>1, <2>2, Parts
<1> QED
  BY <1>1, <1>2, <1>3, <1>4, <1>5 DEF Next, Loop

LEMMA Invariance == Spec => []IInv
<1>1. Init => IInv
  BY InitOK
<1>2. IInv /\ [Next]_vars => IInv'
  BY NextOK
<1> QED
  BY <1>1, <1>2, PTL DEF Spec

-----------------------------------------------------------------------------
(* The line never leaves its buffer and the loop never holds a stray key. *)
THEOREM TypeCorrect == Spec => []TypeOK
<1>1. IInv => TypeOK
  BY DEF IInv
<1> QED
  BY <1>1, Invariance, PTL

(* However often the loop is interrupted, no key is acted upon twice or late.*)
THEOREM HandledInOrderCorrect == Spec => []HandledInOrder
<1>1. IInv => HandledInOrder
  BY DEF IInv
<1> QED
  BY <1>1, Invariance, PTL

(***************************************************************************)
(* With any buffer length, Enter runs exactly the line in the buffer: what *)
(* the shell was given since the last Enter, less what was erased          *)
(* (shell.c:94-114).  Nothing is said of what the screen shows of it.      *)
(***************************************************************************)
THEOREM Implementation == Spec => ImplementsLineEditor
<1>1. Init => L!Init
  BY InitOK
<1>2. IInv /\ [Next]_vars => [L!Next]_L!vars
  BY NextOK
<1> QED
  BY <1>1, <1>2, Invariance, PTL DEF Spec, L!Spec, ImplementsLineEditor
==============================================================================
