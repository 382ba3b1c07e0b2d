--------------------------------- MODULE Vfs ---------------------------------
(***************************************************************************)
(* The virtual file system (src/kernel/src/fs/vfs.c) over the RAM file     *)
(* system (ramfs.c), whose character devices (devfs.c) are files with some *)
(* of their operations replaced.  Every call runs to its end before the    *)
(* next: there is one thread, and no interrupt handler calls the VFS.      *)
(*                                                                         *)
(* A path is a sequence of names shorter than 128 characters.  The flags   *)
(* of a descriptor are stored and never read, and no node has an open or a *)
(* close operation, so both are left out.  kmalloc is taken to succeed:    *)
(* the code writes through its result unseen.                              *)
(***************************************************************************)
EXTENDS Integers, Sequences, FiniteSetsExt

CONSTANTS
    Names,          \* the names of directories and files
    Devices,        \* what devfs_init makes, in order
    DescriptorCount,\* the size of s_fd_table, 64 in the code
    MaxChildren,    \* the size of a directory, 32 in the code
    Block,          \* the unit a file's capacity grows by, 512 in the code
    ZERO,           \* the byte /dev/zero yields
    UNINIT,         \* what memory holds before it is written
    Chunks,         \* the byte sequences written, and the first contents
    Counts,         \* the numbers of bytes asked for
    Typed,          \* the characters /dev/kbd may yield
    MaxNodes,       \* bound: how many nodes are made
    MaxOffset,      \* bound: how far a descriptor moves
    NULL            \* the C null pointer

(* The bytes that are written. *)
Data == UNION {{chunk[j] : j \in DOMAIN chunk} : chunk \in Chunks}

ASSUME VfsAssumption ==
    /\ DescriptorCount \in Nat /\ MaxChildren \in Nat /\ Block \in Nat \ {0}
    /\ Counts \subseteq Nat
    /\ MaxNodes \in Nat
    /\ NULL \notin Nat /\ NULL \notin [file : Nat, at : Nat]
    /\ Devices \in Seq({"serial", "null", "zero", "kbd"})
    /\ Chunks \subseteq Seq(Data)
    /\ UNINIT \notin Data

VARIABLES
    nodes,          \* the ramfs_entry_t's, numbered in the order they are made
    s_fd_table,
    got             \* ghost: what the last read of a regular file returned

vars == <<nodes, s_fd_table, got>>

Descriptors == 0 .. (DescriptorCount - 1)

Root == 1

Least(m, n) == IF m <= n THEN m ELSE n

Entry(name, kind, content) ==
    [name |-> name, kind |-> kind, children |-> <<>>,
     data |-> content, length |-> Len(content)]

(* vfs_init and ramfs_create_root *)
Init ==
    /\ nodes = <<Entry("/", "dir", <<>>)>>
    /\ s_fd_table = [d \in Descriptors |-> [node |-> NULL, offset |-> 0]]
    /\ got = <<>>

-----------------------------------------------------------------------------
(* A slip: the directory's last place is taken for one more. *)
CanCreatePastEnd(p) ==
    /\ nodes[p].kind # "file"
    /\ Len(nodes[p].children) <= MaxChildren

(***************************************************************************)
(* FS_CHARDEVICE has the bit of FS_DIRECTORY, so a device passes for a     *)
(* directory when something is created in it (ramfs.c:61 and 74).          *)
(***************************************************************************)
CanCreate(p) ==
    /\ nodes[p].kind # "file"
    /\ Len(nodes[p].children) < MaxChildren

Create(p, entry) ==
    /\ Len(nodes) < MaxNodes
    /\ CanCreate(p)
    /\ nodes' = Append([nodes EXCEPT ![p].children = Append(@, Len(nodes) + 1)], entry)
    /\ UNCHANGED <<s_fd_table, got>>

CreateDir(p, name) == Create(p, Entry(name, "dir", <<>>))

CreateFile(p, name, content) == Create(p, Entry(name, "file", content))

(* How many of the devices still fit the directory. *)
Fitting(p) == Least(Len(Devices), MaxChildren - Len(nodes[p].children))

(* devfs_init: files made one after the other, until the directory is full. *)
DevfsInit(p) ==
    /\ Len(nodes) + Len(Devices) <= MaxNodes
    /\ nodes[p].kind = "dir"
    /\ nodes' = [nodes EXCEPT ![p].children =
                     @ \o [j \in 1 .. Fitting(p) |-> Len(nodes) + j]]
                 \o [j \in 1 .. Fitting(p) |-> Entry(Devices[j], Devices[j], <<>>)]
    /\ UNCHANGED <<s_fd_table, got>>

-----------------------------------------------------------------------------
Named(p, name) ==
    {j \in DOMAIN nodes[p].children : nodes[nodes[p].children[j]].name = name}

(* A slip: the search goes on after it has found a child. *)
FinddirLast(p, name) ==
    IF Named(p, name) = {} THEN NULL ELSE nodes[p].children[Max(Named(p, name))]

(* ramfs_finddir: the first child of that name. *)
Finddir(p, name) ==
    IF Named(p, name) = {} THEN NULL ELSE nodes[p].children[Min(Named(p, name))]

(* vfs_lookup: only directories have a finddir. *)
Lookup(path) ==
    LET at[n \in 0 .. Len(path)] ==
            IF n = 0 THEN Root
            ELSE IF at[n - 1] = NULL THEN NULL
            ELSE IF nodes[at[n - 1]].kind # "dir" THEN NULL
            ELSE Finddir(at[n - 1], path[n])
    IN  at[Len(path)]

(* The first entry of the table that no node is in. *)
IsFirstFree(d) ==
    /\ s_fd_table[d].node = NULL
    /\ \A c \in Descriptors : c < d => s_fd_table[c].node # NULL

(* A slip: the offset of the descriptor's last life is kept. *)
OpenKeepsOffset(path) ==
    /\ Lookup(path) \in DOMAIN nodes
    /\ \E d \in Descriptors :
          /\ IsFirstFree(d)
          /\ s_fd_table' = [s_fd_table EXCEPT ![d].node = Lookup(path)]
    /\ UNCHANGED <<nodes, got>>

Open(path) ==
    /\ Lookup(path) \in DOMAIN nodes
    /\ \E d \in Descriptors :
          /\ IsFirstFree(d)
          /\ s_fd_table' = [s_fd_table EXCEPT ![d] =
                               [node |-> Lookup(path), offset |-> 0]]
    /\ UNCHANGED <<nodes, got>>

Close(d) ==
    /\ s_fd_table[d].node # NULL
    /\ s_fd_table' = [s_fd_table EXCEPT ![d].node = NULL]
    /\ UNCHANGED <<nodes, got>>

-----------------------------------------------------------------------------
RamfsRead(e, offset, n) ==
    IF offset >= e.length THEN <<>>
    ELSE SubSeq(e.data, offset + 1, Least(offset + n, e.length))

RoundUp(n) == ((n + Block - 1) \div Block) * Block

(* A slip: the contents are not copied into the larger memory. *)
GrownEmpty(e, need) ==
    IF need <= Len(e.data) THEN e.data
    ELSE [j \in 1 .. RoundUp(need) |-> UNINIT]

(* Room for so many bytes: new memory, into which the contents are copied. *)
Grown(e, need) ==
    IF need <= Len(e.data) THEN e.data
    ELSE [j \in 1 .. RoundUp(need) |-> IF j <= e.length THEN e.data[j] ELSE UNINIT]

(* A slip: the length follows the last write, not the furthest. *)
LengthAfterLast(e, past) == past

LengthAfter(e, past) == IF past > e.length THEN past ELSE e.length

RamfsWrite(e, offset, chunk) ==
    LET past == offset + Len(chunk) IN
    [e EXCEPT
        !.data   = [j \in DOMAIN Grown(e, past) |->
                       IF j \in (offset + 1) .. past THEN chunk[j - offset]
                       ELSE Grown(e, past)[j]],
        !.length = LengthAfter(e, past)]

(* What a read may return: the devices that have one of their own, and the rest.*)
Replies(e, offset, n) ==
    CASE e.kind = "zero" -> {[j \in 1 .. n |-> ZERO]}
      [] e.kind = "kbd"  -> {<<>>} \cup (IF n > 0 THEN {<<ch>> : ch \in Typed} ELSE {})
      [] OTHER           -> {RamfsRead(e, offset, n)}

Move(d, n) ==
    /\ s_fd_table[d].offset + n <= MaxOffset
    /\ s_fd_table' = [s_fd_table EXCEPT ![d].offset = @ + n]

Read(d, n) ==
    /\ s_fd_table[d].node # NULL
    /\ LET e == nodes[s_fd_table[d].node] IN
       /\ e.kind # "dir"
       /\ \E reply \in Replies(e, s_fd_table[d].offset, n) :
             /\ Move(d, Len(reply))
             /\ got' = IF e.kind = "file" THEN reply ELSE got
    /\ UNCHANGED nodes

(* /dev/serial and /dev/null keep nothing; the other devices write to memory. *)
Written(e, offset, chunk) ==
    IF e.kind \in {"serial", "null"} THEN e ELSE RamfsWrite(e, offset, chunk)

Write(d, chunk) ==
    /\ s_fd_table[d].node # NULL
    /\ LET e == nodes[s_fd_table[d].node] IN
       /\ e.kind # "dir"
       /\ nodes' = [nodes EXCEPT ![s_fd_table[d].node] =
                       Written(e, s_fd_table[d].offset, chunk)]
    /\ Move(d, Len(chunk))
    /\ UNCHANGED got

(* Of paths, up to two names: bound. *)
Paths == UNION {[1 .. n -> Names \cup {Devices[j] : j \in DOMAIN Devices}] : n \in 0 .. 2}

Next ==
    \/ \E p \in DOMAIN nodes, name \in Names :
          \/ CreateDir(p, name)
          \/ \E content \in Chunks \cup {<<>>} : CreateFile(p, name, content)
    \/ \E p \in DOMAIN nodes : DevfsInit(p)
    \/ \E path \in Paths : Open(path)
    \/ \E d \in Descriptors :
          \/ Close(d)
          \/ \E n \in Counts : Read(d, n)
          \/ \E chunk \in Chunks : Write(d, chunk)

Spec == Init /\ [][Next]_vars

-----------------------------------------------------------------------------
IsFile(i) == nodes[i].kind = "file"

DeviceNames == {Devices[j] : j \in DOMAIN Devices}

Byte == Data \cup {UNINIT}

Node == [name     : Names \cup DeviceNames \cup {"/"},
         kind     : {"dir", "file"} \cup DeviceNames,
         children : Seq(Nat),
         data     : Seq(Byte),
         length   : Nat]

Opened == {d \in Descriptors : s_fd_table[d].node # NULL}

(***************************************************************************)
(* The shape of the tree and of the descriptor table: the children of a    *)
(* node were made after it, a directory holds at most MaxChildren of them, *)
(* and an open descriptor denotes a node that exists.                      *)
(***************************************************************************)
TypeOK ==
    /\ nodes \in Seq(Node)
    /\ \A i \in DOMAIN nodes :
          LET e == nodes[i] IN
          /\ Len(e.children) <= MaxChildren
          /\ \A j \in DOMAIN e.children : e.children[j] \in (i + 1) .. Len(nodes)
          /\ e.length <= Len(e.data)
          /\ e.kind = "file" => e.children = <<>>
    /\ s_fd_table \in [Descriptors -> [node : DOMAIN nodes \cup {NULL}, offset : Nat]]

(***************************************************************************)
(* A regular file's bytes below its length have all been written, whatever *)
(* growth moved them (ramfs.c:23-40 takes memory from kmalloc, which does  *)
(* not clear it, and a write past the end would leave a gap): so a read    *)
(* never returns what another owner left in memory.                        *)
(***************************************************************************)
Initialised ==
    \A i \in DOMAIN nodes : IsFile(i) =>
        \A j \in 1 .. nodes[i].length : nodes[i].data[j] # UNINIT

(***************************************************************************)
(* No open descriptor of a regular file stands past its end: the gap that  *)
(* ramfs_write would leave there (ramfs.c:35) cannot be made through the   *)
(* calls of vfs.c, although every descriptor moves on its own while others *)
(* write.                                                                  *)
(***************************************************************************)
OffsetsInside ==
    \A d \in Opened : IsFile(s_fd_table[d].node) =>
        s_fd_table[d].offset <= nodes[s_fd_table[d].node].length

(***************************************************************************)
(* A path that denotes a node denotes it for good (vfs.c:13-38): nothing   *)
(* is removed, and what is made later under a name already taken is never  *)
(* found before what had it.                                               *)
(***************************************************************************)
PathsStable ==
    [][\A path \in Paths : Lookup(path) # NULL => Lookup(path)' = Lookup(path)]_vars

(***************************************************************************)
(* The files of the abstract store are the nodes of regular files, with    *)
(* the bytes below their length.  Descriptors of devices and directories   *)
(* denote no file there.                                                   *)
(***************************************************************************)
FileNodes == {i \in DOMAIN nodes : IsFile(i)}

Contents == [i \in FileNodes |-> SubSeq(nodes[i].data, 1, nodes[i].length)]

Position(d) ==
    IF s_fd_table[d].node \in FileNodes
    THEN [file |-> s_fd_table[d].node, at |-> s_fd_table[d].offset]
    ELSE NULL

Positions == [d \in Descriptors |-> Position(d)]

Store == INSTANCE FileStore WITH
    Files <- 1 .. MaxNodes, NONE <- NULL, content <- Contents, open <- Positions

(***************************************************************************)
(* The descriptor table and the RAM file system together do for regular    *)
(* files what FileStore promises: through any interleaving of descriptors  *)
(* on the same file, growth and reuse of descriptors, a read returns the   *)
(* bytes that follow the descriptor's last ones (vfs.c:40-87, ramfs.c).    *)
(***************************************************************************)
ImplementsFileStore == Store!Spec
==============================================================================
