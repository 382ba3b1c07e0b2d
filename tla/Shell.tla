-------------------------------- MODULE Shell --------------------------------
(***************************************************************************)
(* The line editor of chef-sh, src/kernel/src/user/shell.c.  A line is a C *)
(* string in a fixed buffer: Enter does not clear the buffer, so what runs *)
(* depends on where the last NUL was written.  What a command then does    *)
(* is not modelled: none changes the editor's state.                       *)
(***************************************************************************)
EXTENDS Naturals, Sequences, FiniteSetsExt

CONSTANTS
    Printable,                  \* the characters from ' ' to '~'
    Others,                     \* typed characters the shell has no use for
    ENTER, BACKSPACE, NUL,
    LineMax                     \* the longest line, 254 in the code

Keys == Printable \cup Others \cup {ENTER, BACKSPACE}

ASSUME ShellAssumption ==
    /\ LineMax \in Nat
    /\ Printable \cap (Others \cup {ENTER, BACKSPACE, NUL}) = {}
    /\ ENTER # BACKSPACE
    /\ NUL \notin Keys
    /\ ENTER \notin Others /\ BACKSPACE \notin Others

VARIABLES
    s_input_buf,
    s_input_len,
    ran             \* ghost: the lines chef_shell_execute_cmd was called with

shell_vars == <<s_input_buf, s_input_len, ran>>

(* sizeof(s_input_buf) is two more than the longest line. *)
Indices == 0 .. (LineMax + 1)

ShellInit ==
    /\ s_input_buf = [j \in Indices |-> NUL]
    /\ s_input_len = 0
    /\ ran = <<>>

Prefix(buf, n) == [j \in 1 .. n |-> buf[j - 1]]

(* The string that starts at the buffer's first byte. *)
CString(buf) == Prefix(buf, Min({j \in DOMAIN buf : buf[j] = NUL}))

(* A slip: the line is not terminated, as if the buffer had been cleared. *)
EnterUnterminated(ch) ==
    /\ ch = ENTER
    /\ ran' = Append(ran, CString(s_input_buf))
    /\ s_input_len' = 0
    /\ UNCHANGED s_input_buf

Enter(ch) ==
    /\ ch = ENTER
    /\ s_input_buf' = [s_input_buf EXCEPT ![s_input_len] = NUL]
    /\ ran' = Append(ran, CString(s_input_buf'))
    /\ s_input_len' = 0

Backspace(ch) ==
    /\ ch = BACKSPACE
    /\ s_input_len > 0
    /\ s_input_len' = s_input_len - 1
    /\ s_input_buf' = [s_input_buf EXCEPT ![s_input_len - 1] = NUL]
    /\ UNCHANGED ran

(* A slip: nothing keeps the line within the buffer. *)
HasRoomAlways == TRUE

HasRoom == s_input_len < LineMax

Insert(ch) ==
    /\ ch \in Printable
    /\ HasRoom
    /\ s_input_buf' = [s_input_buf EXCEPT ![s_input_len] = ch]
    /\ s_input_len' = s_input_len + 1
    /\ UNCHANGED ran

(* Nothing to erase, no room, or no use for the character. *)
Ignore(ch) ==
    /\ \/ ch = BACKSPACE /\ s_input_len = 0
       \/ ch \in Printable /\ ~HasRoom
       \/ ch \in Others
    /\ UNCHANGED shell_vars

(* chef_shell_handle_char *)
HandleChar(ch) == Enter(ch) \/ Backspace(ch) \/ Insert(ch) \/ Ignore(ch)

-----------------------------------------------------------------------------
ShellTypeOK ==
    /\ s_input_buf \in [Indices -> Printable \cup {NUL}]
    /\ s_input_len \in 0 .. LineMax
    /\ ran \in Seq(Seq(Printable))

(***************************************************************************)
(* The shell's buffer implements the abstract line editor: what Enter runs *)
(* is what the shell was given since the last Enter, less what was erased, *)
(* and nothing of an earlier and longer line, although Enter leaves its    *)
(* bytes in the buffer (shell.c:94-114).  Nothing is said of the text on   *)
(* the screen, which is not the line in the buffer: the keyboard's handler *)
(* echoes every key, also those that never come here (ps2_kbd.c:24), the   *)
(* shell prints a character once more (shell.c:113), and fb_putc draws a   *)
(* glyph for '\b' (fb.c:85-97).                                            *)
(***************************************************************************)
L == INSTANCE LineEditor WITH line <- Prefix(s_input_buf, s_input_len)

ImplementsLineEditor == L!Spec
==============================================================================
