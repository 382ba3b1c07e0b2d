------------------------------ MODULE VfsProofs ------------------------------
(***************************************************************************)
(* No read of a regular file returns a byte that was never written, for    *)
(* every size of the descriptor table, of directories and of the unit in   *)
(* which files grow.  The inductive invariant needs OffsetsInside: a write *)
(* at an offset past the end would leave a gap, and growth fills gaps with *)
(* what was in memory.  The tree only grows, so paths keep their meaning,  *)
(* and for regular files all calls together implement FileStore.           *)
(***************************************************************************)
EXTENDS Vfs, SequenceTheorems, WellFoundedInduction, TLAPS

IInv == TypeOK /\ Initialised /\ OffsetsInside

(* A unit is never rounded down. *)
LEMMA RoundUpCovers ==
    ASSUME NEW n \in Nat
    PROVE  RoundUp(n) \in Nat /\ n <= RoundUp(n)
<1> DEFINE m == n + (Block - 1)
           q == m \div Block
<1>1. Block \in Nat /\ Block > 0
  BY VfsAssumption, SMT
<1>2. m \in Nat /\ q \in Int
  BY <1>1, SMT
<1>3. m = Block * q + (m % Block) /\ m % Block < Block
  BY <1>1, <1>2, SMT
<1>4. m % Block \in Nat
  BY <1>1, <1>2, SMT
<1>5. n <= Block * q
  BY <1>1, <1>2, <1>3, <1>4, SMT
<1> QED
  BY <1>1, <1>2, <1>5, SMT DEF RoundUp

LEMMA GrownRoom ==
    ASSUME NEW e \in Node, e.length <= Len(e.data), NEW need \in Nat
    PROVE  /\ Grown(e, need) \in Seq(Byte)
           /\ need <= Len(Grown(e, need))
           /\ Len(e.data) <= Len(Grown(e, need))
           /\ \A j \in 1 .. e.length : Grown(e, need)[j] = e.data[j]
<1>1. e.data \in Seq(Byte) /\ e.length \in Nat
  BY Zenon DEF Node
<1>2. CASE need <= Len(e.data)
  BY <1>1, <1>2, SMT DEF Grown
<1>3. CASE ~(need <= Len(e.data))
  <2>1. RoundUp(need) \in Nat /\ need <= RoundUp(need)
    BY RoundUpCovers
  <2> DEFINE g == [j \in 1 .. RoundUp(need) |-> IF j <= e.length THEN e.data[j] ELSE UNINIT]
  <2>2. Grown(e, need) = g
    BY <1>3, Zenon DEF Grown
  <2>3. \A j \in 1 .. RoundUp(need) :
           (IF j <= e.length THEN e.data[j] ELSE UNINIT) \in Byte
    <3>1. \A j \in 1 .. Len(e.data) : e.data[j] \in Byte
      BY <1>1, SMT
    <3>2. UNINIT \in Byte
      BY Zenon DEF Byte
    <3> QED
      BY <1>1, <3>1, <3>2, SMT
  <2>4. g \in Seq(Byte) /\ Len(g) = RoundUp(need)
    BY <2>1, <2>3, SMT
  <2>5. \A j \in 1 .. e.length : j \in 1 .. RoundUp(need)
    BY <1>1, <1>3, <2>1, SMT
  <2>6. \A j \in 1 .. e.length : g[j] = e.data[j]
    BY <1>1, <2>5, SMT
  <2> HIDE DEF g
  <2> QED
    BY <1>1, <1>3, <2>1, <2>2, <2>4, <2>6, SMT
<1> QED
  BY <1>2, <1>3

(***************************************************************************)
(* A write covers what it says it does: the file's memory holds its length *)
(* and, if the write begins no further than the end, no gap is left below  *)
(* the new length.                                                         *)
(***************************************************************************)
Filled(e, offset, chunk, w) ==
    /\ w \in Node
    /\ w.kind = e.kind /\ w.children = e.children /\ w.name = e.name
    /\ w.length <= Len(w.data)
    /\ e.length <= w.length
    /\ e.kind = "file" =>
          /\ offset + Len(chunk) <= w.length
          /\ (offset <= e.length /\ \A j \in 1 .. e.length : e.data[j] # UNINIT)
                => \A j \in 1 .. w.length : w.data[j] # UNINIT
          /\ w.length = LengthAfter(e, offset + Len(chunk))
          /\ offset <= e.length =>
                \A j \in 1 .. w.length :
                    w.data[j] = IF j \in (offset + 1) .. (offset + Len(chunk))
                                THEN chunk[j - offset] ELSE e.data[j]

LEMMA RamfsWriteFills ==
    ASSUME NEW e \in Node, e.length <= Len(e.data),
           NEW offset \in Nat, NEW chunk \in Chunks
    PROVE  Filled(e, offset, chunk, RamfsWrite(e, offset, chunk))
<1> DEFINE past == offset + Len(chunk)
           g == Grown(e, past)
           d == [j \in DOMAIN g |-> IF j \in (offset + 1) .. past
                                    THEN chunk[j - offset] ELSE g[j]]
           w == RamfsWrite(e, offset, chunk)
<1>1. chunk \in Seq(Data) /\ Data \subseteq Byte /\ UNINIT \notin Data
  BY VfsAssumption, Zenon DEF Byte
<1>2. past \in Nat /\ Len(chunk) \in Nat
  BY <1>1, SMT
<1>3. /\ g \in Seq(Byte)
      /\ past <= Len(g)
      /\ Len(e.data) <= Len(g)
      /\ \A j \in 1 .. e.length : g[j] = e.data[j]
  BY <1>2, GrownRoom
<1>4. e.length \in Nat /\ e.data \in Seq(Byte)
  BY Zenon DEF Node
<1>5. w = [e EXCEPT !.data = d, !.length = LengthAfter(e, past)]
  BY Zenon DEF RamfsWrite
<1> HIDE DEF w
<1>6. LengthAfter(e, past) \in Nat /\ past <= LengthAfter(e, past) /\ e.length <= LengthAfter(e, past)
      /\ LengthAfter(e, past) \in {past, e.length}
  BY <1>2, <1>4, SMT DEF LengthAfter
<1> HIDE DEF past, g
<1>7. \A j \in (offset + 1) .. past : chunk[j - offset] \in Data
  BY <1>1, SMT DEF past
<1>8. d \in Seq(Byte) /\ Len(d) = Len(g)
  <2>1. DOMAIN g = 1 .. Len(g) /\ Len(g) \in Nat /\ \A j \in 1 .. Len(g) : g[j] \in Byte
    BY <1>3, SMT
  <2>2. \A j \in 1 .. Len(g) : (IF j \in (offset + 1) .. past
                                THEN chunk[j - offset] ELSE g[j]) \in Byte
    BY <1>1, <1>7, <2>1, Zenon
  <2> QED
    BY <2>1, <2>2, SMT
<1>9. w \in Node /\ w.kind = e.kind /\ w.children = e.children /\ w.name = e.name
      /\ w.data = d /\ w.length = LengthAfter(e, past)
  <2> DEFINE n == LengthAfter(e, past)
  <2>1. n \in Nat /\ d \in Seq(Byte) /\ w = [e EXCEPT !.data = d, !.length = n]
    BY <1>5, <1>6, <1>8, Zenon
  <2>2. w.length = n => w.length = LengthAfter(e, past)
    OBVIOUS
  <2> HIDE DEF d, n
  <2>3. /\ w \in Node
        /\ w.kind = e.kind /\ w.children = e.children /\ w.name = e.name
        /\ w.data = d /\ w.length = n
    BY <2>1, Zenon DEF Node
  <2> QED
    BY <2>2, <2>3
<1>10. w.length <= Len(w.data)
  <2> HIDE DEF d
  <2> QED
    BY <1>3, <1>4, <1>6, <1>8, <1>9, <1>2, SMT
<1>11. ASSUME offset <= e.length, NEW j \in 1 .. w.length
       PROVE  /\ w.data[j] = IF j \in (offset + 1) .. past THEN chunk[j - offset] ELSE e.data[j]
              /\ j \notin (offset + 1) .. past => j \in 1 .. e.length
  <2>1. w.length \in Nat /\ j \in DOMAIN g
    BY <1>3, <1>6, <1>8, <1>9, <1>10, <1>4, SMT
  <2>2. d[j] = IF j \in (offset + 1) .. past THEN chunk[j - offset] ELSE g[j]
    BY <2>1, Zenon
  <2>3. CASE j \in (offset + 1) .. past
    BY <1>9, <2>2, <2>3, Zenon
  <2>4. CASE j \notin (offset + 1) .. past
    <3>1. j \in 1 .. e.length
      BY <1>2, <1>4, <1>6, <1>9, <1>11, <2>1, <2>4, SMT
    <3> QED
      BY <1>3, <1>9, <2>2, <2>4, <3>1, Zenon
  <2> QED
    BY <2>3, <2>4
<1>12. ASSUME offset <= e.length, \A j \in 1 .. e.length : e.data[j] # UNINIT,
              NEW j \in 1 .. w.length
       PROVE  w.data[j] # UNINIT
  BY <1>1, <1>7, <1>11, <1>12, Zenon
<1> QED
  BY <1>6, <1>9, <1>10, <1>11, <1>12, Zenon DEF Filled, w, past

-----------------------------------------------------------------------------
(* What the invariant says of one node, and of one descriptor. *)
NodeOK(i) ==
    /\ Len(nodes[i].children) <= MaxChildren
    /\ \A j \in DOMAIN nodes[i].children : nodes[i].children[j] \in (i + 1) .. Len(nodes)
    /\ nodes[i].length <= Len(nodes[i].data)
    /\ IsFile(i) => /\ nodes[i].children = <<>>
                    /\ \A j \in 1 .. nodes[i].length : nodes[i].data[j] # UNINIT

DescriptorOK(d) ==
    s_fd_table[d].node # NULL /\ IsFile(s_fd_table[d].node) =>
        s_fd_table[d].offset <= nodes[s_fd_table[d].node].length

TableOK == s_fd_table \in [Descriptors -> [node : DOMAIN nodes \cup {NULL}, offset : Nat]]

LEMMA Parts ==
    IInv <=> /\ nodes \in Seq(Node) /\ TableOK
             /\ \A i \in DOMAIN nodes : NodeOK(i)
             /\ \A d \in Descriptors : DescriptorOK(d)
  BY Zenon DEF IInv, TypeOK, Initialised, OffsetsInside, NodeOK, DescriptorOK,
     TableOK, Opened, IsFile

LEMMA PartsNext ==
    IInv' <=> /\ nodes' \in Seq(Node) /\ TableOK'
              /\ \A i \in DOMAIN nodes' : NodeOK(i)'
              /\ \A d \in Descriptors : DescriptorOK(d)'
  BY Zenon DEF IInv, TypeOK, Initialised, OffsetsInside, NodeOK, DescriptorOK,
     TableOK, Opened, IsFile

LEMMA NodeShape ==
    ASSUME NEW e \in Node
    PROVE  /\ e.children \in Seq(Nat) /\ e.data \in Seq(Byte) /\ e.length \in Nat
           /\ e.kind \in {"dir", "file"} \cup DeviceNames
  BY Zenon DEF Node

(* The descriptors stay sound when files only grow and nodes are only added. *)
LEMMA TableKept ==
    ASSUME IInv, nodes' \in Seq(Node), Len(nodes) <= Len(nodes'),
           UNCHANGED s_fd_table,
           \A i \in DOMAIN nodes : /\ nodes'[i].kind = nodes[i].kind
                                  /\ nodes[i].length <= nodes'[i].length
    PROVE  TableOK' /\ \A d \in Descriptors : DescriptorOK(d)'
<1>1. nodes \in Seq(Node) /\ TableOK /\ \A d \in Descriptors : DescriptorOK(d)
  BY Parts
<1>2. DOMAIN nodes \subseteq DOMAIN nodes'
  BY <1>1, SMT
<1>3. TableOK'
  BY <1>1, <1>2, SMT DEF TableOK
<1>4. ASSUME NEW d \in Descriptors
      PROVE  DescriptorOK(d)'
  <2> DEFINE i == s_fd_table[d].node
  <2>1. SUFFICES ASSUME i # NULL, nodes'[i].kind = "file"
                 PROVE  s_fd_table[d].offset <= nodes'[i].length
    BY Zenon DEF DescriptorOK, IsFile
  <2>2. i \in DOMAIN nodes /\ s_fd_table[d].offset \in Nat
    BY <1>1, <2>1, SMT DEF TableOK
  <2>3. nodes[i] \in Node /\ nodes'[i] \in Node
    BY <1>1, <1>2, <2>2, SMT
  <2>4. nodes[i].length \in Nat /\ nodes'[i].length \in Nat
    BY <2>3, NodeShape
  <2>5. s_fd_table[d].offset <= nodes[i].length
    BY <1>1, <2>1, <2>2, Zenon DEF DescriptorOK, IsFile
  <2>6. nodes[i].length <= nodes'[i].length
    BY <2>2
  <2> QED
    BY <2>2, <2>4, <2>5, <2>6, SMT
<1> QED
  BY <1>3, <1>4

LEMMA InitHolds == Init => IInv
<1> SUFFICES ASSUME Init PROVE IInv
  OBVIOUS
<1>1. nodes = <<Entry("/", "dir", <<>>)>>
  BY Zenon DEF Init
<1>2. Entry("/", "dir", <<>>) \in Node
  BY SMT DEF Entry, Node
<1>3. nodes \in Seq(Node) /\ DOMAIN nodes = {1} /\ nodes[1] = Entry("/", "dir", <<>>)
  BY <1>1, <1>2, SMT
<1>4. TableOK
  BY SMT DEF Init, TableOK
<1>5. NodeOK(1)
  BY <1>3, VfsAssumption, SMT DEF NodeOK, Entry, IsFile
<1>6. \A d \in Descriptors : DescriptorOK(d)
  BY SMT DEF Init, DescriptorOK
<1> QED
  BY <1>3, <1>4, <1>5, <1>6, Parts, Zenon

-----------------------------------------------------------------------------
(* Nodes that may be added: with no children yet, and nothing unwritten. *)
Fresh(e) ==
    /\ e \in Node
    /\ e.children = <<>>
    /\ e.length <= Len(e.data)
    /\ \A j \in 1 .. e.length : e.data[j] # UNINIT

(* A node keeps its name and kind, and its children are only added to. *)
Outgrows(is, was) ==
    /\ is.name = was.name /\ is.kind = was.kind
    /\ DOMAIN was.children \subseteq DOMAIN is.children
    /\ \A j \in DOMAIN was.children : is.children[j] = was.children[j]
    /\ \A j \in DOMAIN was.children :
          \A m \in DOMAIN is.children \ DOMAIN was.children : j <= m

LEMMA NotGrown ==
    ASSUME NEW is, NEW was, is.name = was.name, is.kind = was.kind,
           is.children = was.children
    PROVE  Outgrows(is, was)
  BY Zenon DEF Outgrows

(* Nodes were added, and those there were keep what they hold. *)
Grew(added) ==
    /\ DOMAIN nodes' = 1 .. (Len(nodes) + Len(added))
    /\ \A i \in DOMAIN nodes : /\ nodes'[i].kind = nodes[i].kind
                             /\ nodes'[i].data = nodes[i].data
                             /\ nodes'[i].length = nodes[i].length
                             /\ Outgrows(nodes'[i], nodes[i])
    /\ \A i \in (Len(nodes) + 1) .. (Len(nodes) + Len(added)) :
          nodes'[i] = added[i - Len(nodes)]

(***************************************************************************)
(* Adding children to p, numbered after the nodes there are, keeps the     *)
(* shape of the tree.                                                      *)
(***************************************************************************)
LEMMA TreeGrown ==
    ASSUME IInv, NEW p \in DOMAIN nodes, ~IsFile(p),
           NEW added, NEW k \in Nat,
           added \in Seq(Node), Len(added) = k,
           \A j \in 1 .. k : Fresh(added[j]),
           Len(nodes[p].children) + k <= MaxChildren,
           NEW more, more = [j \in 1 .. k |-> Len(nodes) + j],
           nodes' = [nodes EXCEPT ![p].children = @ \o more] \o added,
           UNCHANGED s_fd_table
    PROVE  IInv' /\ Grew(added)
<1> DEFINE n == Len(nodes)
           q == [nodes[p] EXCEPT !.children = nodes[p].children \o more]
           left == [nodes EXCEPT ![p] = q]
<1>1. nodes \in Seq(Node) /\ n \in Nat /\ DOMAIN nodes = 1 .. n
  BY Parts, SMT
<1>2. nodes[p] \in Node
  BY <1>1, SMT
<1>3. more \in Seq(Nat) /\ Len(more) = k /\ \A j \in 1 .. k : more[j] = n + j
  BY <1>1, SMT
<1>4. LET c == nodes[p].children \o more IN
      /\ c \in Seq(Nat)
      /\ Len(c) = Len(nodes[p].children) + k
      /\ \A j \in 1 .. Len(nodes[p].children) : c[j] = nodes[p].children[j]
      /\ \A j \in 1 .. k : c[Len(nodes[p].children) + j] = n + j
  <2>1. nodes[p].children \in Seq(Nat)
    BY <1>2, NodeShape
  <2> QED
    BY <2>1, <1>3, SMT
<1>5. /\ q \in Node /\ q.kind = nodes[p].kind /\ q.data = nodes[p].data
      /\ q.length = nodes[p].length /\ q.children = nodes[p].children \o more
      /\ q.name = nodes[p].name
  <2> DEFINE c == nodes[p].children \o more
  <2>1. c \in Seq(Nat) /\ q = [nodes[p] EXCEPT !.children = c]
    BY <1>4
  <2> HIDE DEF c
  <2>2. q = [nodes[p] EXCEPT !.children = c]
    BY <2>1
  <2>3. q \in Node /\ q.kind = nodes[p].kind /\ q.data = nodes[p].data
        /\ q.length = nodes[p].length /\ q.children = c /\ q.name = nodes[p].name
    BY <2>1, <2>2, <1>2, Zenon DEF Node
  <2> QED
    BY <2>3 DEF c
<1>6. nodes' = left \o added
  BY Zenon
<1> HIDE DEF q
<1>7. left \in Seq(Node) /\ Len(left) = n /\ \A i \in 1 .. n : left[i] = IF i = p THEN q ELSE nodes[i]
  BY <1>1, <1>5, SMT
<1> HIDE DEF left
<1>8. /\ nodes' \in Seq(Node) /\ Len(nodes') = n + k
      /\ \A i \in 1 .. n : nodes'[i] = IF i = p THEN q ELSE nodes[i]
      /\ \A i \in (n + 1) .. (n + k) : nodes'[i] = added[i - n]
  <2>1. /\ added \in Seq(Node) /\ left \in Seq(Node) /\ n \in Nat /\ Len(left) = n /\ Len(added) = k
    BY <1>1, <1>7
  <2> HIDE DEF n
  <2>2. /\ left \o added \in Seq(Node)
        /\ Len(left \o added) = Len(left) + Len(added)
        /\ \A i \in 1 .. Len(left) + Len(added) :
              (left \o added)[i] = IF i <= Len(left) THEN left[i] ELSE added[i - Len(left)]
    <3> DEFINE S == Node
    <3>1. left \in Seq(S) /\ added \in Seq(S)
      BY <2>1
    <3> HIDE DEF S
    <3>2. /\ left \o added \in Seq(S)
          /\ Len(left \o added) = Len(left) + Len(added)
          /\ \A i \in 1 .. Len(left) + Len(added) :
                (left \o added)[i] = IF i <= Len(left) THEN left[i] ELSE added[i - Len(left)]
      BY <3>1, ConcatProperties
    <3> QED
      BY <3>2 DEF S
  <2>3. left \o added \in Seq(Node) /\ Len(left \o added) = n + k
    BY <2>1, <2>2, Zenon
  <2>4. \A i \in 1 .. n + k : (left \o added)[i] = IF i <= n THEN left[i] ELSE added[i - n]
    BY <2>1, <2>2, Zenon
  <2>5. \A i \in 1 .. n : (left \o added)[i] = left[i]
    BY <2>4, <2>1, SMT
  <2>6. \A i \in (n + 1) .. (n + k) : (left \o added)[i] = added[i - n]
    BY <2>4, <2>1, SMT
  <2> QED
    BY <1>6, <1>7, <2>3, <2>5, <2>6, Zenon
<1> HIDE DEF n
<1>9. TableOK' /\ \A d \in Descriptors : DescriptorOK(d)'
  <2>1. n <= Len(nodes') /\ n = Len(nodes)
    BY <1>1, <1>8, SMT DEF n
  <2>2. ASSUME NEW i \in DOMAIN nodes
        PROVE  nodes'[i].kind = nodes[i].kind /\ nodes[i].length <= nodes'[i].length
    <3>1. nodes[i] \in Node
      BY <1>1, SMT
    <3>2. nodes[i].length \in Nat
      BY <3>1, NodeShape
    <3>3. nodes'[i].kind = nodes[i].kind /\ nodes'[i].length = nodes[i].length
      BY <1>1, <1>5, <1>8, Zenon
    <3> QED
      BY <3>2, <3>3, SMT
  <2> QED
    BY <1>8, <2>1, <2>2, TableKept
<1>10. \A i \in 1 .. n : NodeOK(i)
  BY <1>1, Parts
<1>11. ASSUME NEW i \in 1 .. n, i # p
       PROVE  NodeOK(i)'
  <2>1. nodes'[i] = nodes[i] /\ NodeOK(i) /\ n = Len(nodes)
    BY <1>8, <1>10, <1>11, Zenon DEF n
  <2>2. \A j \in DOMAIN nodes[i].children : nodes[i].children[j] \in (i + 1) .. (n + k)
    BY <1>1, <2>1, SMT DEF NodeOK
  <2> QED
    BY <1>8, <2>1, <2>2, Zenon DEF NodeOK, IsFile
<1>12. NodeOK(p)'
  <2>1. nodes'[p] = q /\ NodeOK(p) /\ n = Len(nodes) /\ p \in 1 .. n
    BY <1>1, <1>8, <1>10, Zenon DEF n
  <2>2. nodes[p].children \in Seq(Nat)
    BY <1>2, NodeShape
  <2>3. Len(q.children) <= MaxChildren
    BY <1>4, <1>5
  <2>4. \A j \in DOMAIN q.children : q.children[j] \in (p + 1) .. (n + k)
    <3>1. ASSUME NEW j \in 1 .. (Len(nodes[p].children) + k)
          PROVE  q.children[j] \in (p + 1) .. (n + k)
      <4>1. CASE j <= Len(nodes[p].children)
        <5>1. nodes[p].children[j] \in (p + 1) .. n
          BY <2>1, <2>2, <4>1, SMT DEF NodeOK
        <5> QED
          BY <1>1, <1>4, <1>5, <2>1, <2>2, <4>1, <5>1, SMTT(30)
      <4>2. CASE j > Len(nodes[p].children)
        <5>1. j - Len(nodes[p].children) \in 1 .. k
          BY <2>2, <4>2, SMT
        <5>2. q.children[j] = n + (j - Len(nodes[p].children))
          BY <1>4, <1>5, <2>2, <5>1, SMT
        <5>3. \A x \in 1 .. k : n + x \in (p + 1) .. (n + k)
          BY <1>1, <2>1, SMT
        <5> QED
          BY <5>1, <5>2, <5>3, Zenon
      <4> QED
        BY <2>2, <4>1, <4>2, SMT
    <3>2. DOMAIN q.children = 1 .. (Len(nodes[p].children) + k)
      BY <1>4, <1>5, SMT
    <3> QED
      BY <3>1, <3>2
  <2> QED
    BY <1>5, <1>8, <2>1, <2>3, <2>4, Zenon DEF NodeOK, IsFile
<1>13. ASSUME NEW i \in (n + 1) .. (n + k)
       PROVE  NodeOK(i)'
  <2>1. i - n \in 1 .. k
    BY <1>1, SMT
  <2>2. nodes'[i] = added[i - n] /\ Fresh(added[i - n])
    BY <1>8, <2>1
  <2>3. Len(<<>>) <= MaxChildren /\ DOMAIN <<>> = {}
    BY VfsAssumption, SMT
  <2> QED
    BY <2>2, <2>3, Zenon DEF NodeOK, Fresh, IsFile
<1>14. DOMAIN nodes' = 1 .. (n + k)
  BY <1>8, SMT
<1>15. \A i \in DOMAIN nodes' : NodeOK(i)'
  <2>1. \A i \in 1 .. (n + k) : i \in 1 .. n \/ i \in (n + 1) .. (n + k)
    BY <1>1, SMT
  <2> QED
    BY <1>11, <1>12, <1>13, <1>14, <2>1, Zenon
<1>16. Outgrows(q, nodes[p])
  <2> DEFINE c == nodes[p].children
             d == q.children
  <2>1. c \in Seq(Nat) /\ d \in Seq(Nat) /\ Len(d) = Len(c) + k
        /\ \A j \in 1 .. Len(c) : d[j] = c[j]
    BY <1>2, <1>4, <1>5, NodeShape
  <2> HIDE DEF c, d
  <2>2. DOMAIN c = 1 .. Len(c) /\ DOMAIN d = 1 .. (Len(c) + k) /\ Len(c) \in Nat
    BY <2>1, SMT
  <2>3. \A m \in Nat : /\ 1 .. m \subseteq 1 .. (m + k)
                       /\ \A j \in 1 .. m : \A i \in (1 .. (m + k)) \ (1 .. m) : j <= i
    BY SMT
  <2>4. /\ DOMAIN c \subseteq DOMAIN d /\ \A j \in DOMAIN c : d[j] = c[j]
        /\ \A j \in DOMAIN c : \A m \in DOMAIN d \ DOMAIN c : j <= m
    BY <2>1, <2>2, <2>3, Zenon
  <2> QED
    BY <1>5, <2>4, Zenon DEF Outgrows, c, d
<1>17. ASSUME NEW i \in DOMAIN nodes
       PROVE  Outgrows(nodes'[i], nodes[i])
  BY <1>1, <1>8, <1>16, NotGrown, Zenon
<1>18. Grew(added)
  BY <1>1, <1>5, <1>8, <1>14, <1>17, Zenon DEF Grew, n
<1> QED
  BY <1>8, <1>9, <1>15, <1>18, PartsNext

LEMMA CreateStep ==
    ASSUME IInv, NEW p \in DOMAIN nodes, NEW e, Fresh(e), Create(p, e)
    PROVE  IInv' /\ Grew(<<e>>)
<1> DEFINE more == [j \in 1 .. 1 |-> Len(nodes) + j]
<1>1. nodes \in Seq(Node) /\ e \in Node /\ Len(nodes) \in Nat
  BY Parts, SMT DEF Fresh
<1>2. nodes[p] \in Node
  BY <1>1, SMT
<1>3. nodes[p].children \in Seq(Nat)
  BY <1>2, NodeShape
<1>4. Append(nodes[p].children, Len(nodes) + 1) = nodes[p].children \o more
  BY <1>1, <1>3, SMT
<1> DEFINE q == [nodes[p] EXCEPT !.children = nodes[p].children \o more]
           left == [nodes EXCEPT ![p] = q]
<1>5. nodes' = Append(left, e)
  BY <1>4, Zenon DEF Create
<1>6. q \in Node
  <2>1. nodes[p].children \o more \in Seq(Nat)
    BY <1>1, <1>3, <1>4, SMT
  <2> HIDE DEF more
  <2> QED
    BY <1>2, <2>1, Zenon DEF Node
<1>7. left \in Seq(Node)
  <2> HIDE DEF q
  <2> QED
    BY <1>1, <1>6, SMT
<1>8. nodes' = left \o <<e>>
  <2> HIDE DEF left
  <2> QED
    BY <1>1, <1>5, <1>7, SMT
<1>9. ~IsFile(p) /\ Len(nodes[p].children) + 1 <= MaxChildren /\ UNCHANGED s_fd_table
  BY <1>3, VfsAssumption, SMT DEF Create, CanCreate, IsFile
<1>10. <<e>> \in Seq(Node) /\ Len(<<e>>) = 1 /\ \A j \in 1 .. 1 : <<e>>[j] = e
  BY <1>1, SMT
<1>11. \A j \in 1 .. 1 : Fresh(<<e>>[j])
  BY <1>10
<1>12. nodes' = [nodes EXCEPT ![p].children = @ \o more] \o <<e>>
  BY <1>8, Zenon
<1> HIDE DEF left, q
<1>13. 1 \in Nat
  OBVIOUS
<1> QED
  BY <1>9, <1>10, <1>11, <1>12, <1>13, TreeGrown

LEMMA FreshEntry ==
    /\ \A name \in Names : Fresh(Entry(name, "dir", <<>>))
    /\ \A name \in Names, content \in Chunks \cup {<<>>} : Fresh(Entry(name, "file", content))
    /\ \A j \in DOMAIN Devices : Fresh(Entry(Devices[j], Devices[j], <<>>))
                               /\ Devices[j] # "file"
<1>1. ASSUME NEW name \in Names \cup DeviceNames,
             NEW kind \in {"dir", "file"} \cup DeviceNames,
             NEW content \in Chunks \cup {<<>>}
      PROVE  Fresh(Entry(name, kind, content))
  <2>1. content \in Seq(Data)
    <3>1. Chunks \subseteq Seq(Data)
      BY VfsAssumption
    <3>2. <<>> \in Seq(Data)
      BY SMT
    <3> QED
      BY <3>1, <3>2, Zenon
  <2>2. /\ content \in Seq(Byte) /\ Len(content) \in Nat
        /\ \A j \in 1 .. Len(content) : content[j] # UNINIT
    BY <2>1, VfsAssumption, SMT DEF Byte
  <2>3. Entry(name, kind, content) \in Node
    BY <2>2, SMT DEF Entry, Node
  <2> QED
    BY <2>2, <2>3, SMT DEF Fresh, Entry
<1>2. \A j \in DOMAIN Devices : Devices[j] \in DeviceNames /\ Devices[j] # "file"
  BY VfsAssumption, SMT DEF DeviceNames
<1> QED
  BY <1>1, <1>2, Zenon

LEMMA DevfsInitStep ==
    ASSUME IInv, NEW p \in DOMAIN nodes, DevfsInit(p)
    PROVE  IInv' /\ \E added : /\ Len(added) \in Nat
                               /\ \A j \in 1 .. Len(added) : added[j].kind # "file"
                               /\ Grew(added)
<1> DEFINE k == Fitting(p)
           more == [j \in 1 .. k |-> Len(nodes) + j]
           added == [j \in 1 .. k |-> Entry(Devices[j], Devices[j], <<>>)]
<1>1. nodes \in Seq(Node) /\ Len(nodes) \in Nat /\ NodeOK(p)
  BY Parts, SMT
<1>2. nodes[p] \in Node
  BY <1>1, SMT
<1>3. nodes[p].children \in Seq(Nat)
  BY <1>2, NodeShape
<1>4. Len(nodes[p].children) \in Nat /\ Len(nodes[p].children) <= MaxChildren
  BY <1>1, <1>3, SMT DEF NodeOK
<1>5. MaxChildren \in Nat /\ Len(Devices) \in Nat /\ DOMAIN Devices = 1 .. Len(Devices)
  BY VfsAssumption, SMT
<1>6. k \in Nat /\ k <= Len(Devices) /\ Len(nodes[p].children) + k <= MaxChildren
  <2> DEFINE x == Len(nodes[p].children)
  <2>1. k = Least(Len(Devices), MaxChildren - x)
    BY Zenon DEF Fitting
  <2>2. x \in Nat /\ x <= MaxChildren
    BY <1>4
  <2> HIDE DEF x, k
  <2>3. k \in Nat /\ k <= Len(Devices) /\ x + k <= MaxChildren
    BY <1>5, <2>1, <2>2, SMT DEF Least
  <2> QED
    BY <2>3 DEF x
<1> HIDE DEF k
<1>7. \A j \in 1 .. k : Fresh(Entry(Devices[j], Devices[j], <<>>))
  <2>1. \A j \in 1 .. k : j \in DOMAIN Devices
    BY <1>5, <1>6, SMT
  <2> QED
    BY <2>1, FreshEntry, Zenon
<1>8. \A j \in 1 .. k : Entry(Devices[j], Devices[j], <<>>) \in Node
  BY <1>7, Zenon DEF Fresh
<1>9. added \in Seq(Node) /\ Len(added) = k /\ \A j \in 1 .. k : added[j] = Entry(Devices[j], Devices[j], <<>>)
  BY <1>6, <1>8, SMT
<1>10. \A j \in 1 .. k : Fresh(added[j])
  BY <1>7, <1>9, Zenon
<1>11. /\ nodes' = [nodes EXCEPT ![p].children = @ \o more] \o added
       /\ UNCHANGED s_fd_table /\ ~IsFile(p)
  BY Zenon DEF DevfsInit, IsFile, k
<1>12. more = [j \in 1 .. k |-> Len(nodes) + j]
  OBVIOUS
<1>13. \A j \in 1 .. k : added[j].kind # "file"
  <2>1. \A j \in 1 .. k : Devices[j] # "file"
    BY <1>5, <1>6, FreshEntry, SMT
  <2> QED
    BY <1>9, <2>1, Zenon DEF Entry
<1> HIDE DEF added, more
<1>14. IInv' /\ Grew(added)
  BY <1>6, <1>9, <1>10, <1>11, <1>12, TreeGrown
<1> QED
  BY <1>6, <1>9, <1>13, <1>14

LEMMA OpenStep ==
    ASSUME IInv, NEW path, Open(path)
    PROVE  IInv'
<1> DEFINE slot == [node |-> Lookup(path), offset |-> 0]
<1>1. nodes \in Seq(Node) /\ TableOK
  BY Parts
<1>2. PICK d \in Descriptors : s_fd_table' = [s_fd_table EXCEPT ![d] = slot]
  BY Zenon DEF Open
<1>3. nodes' = nodes
  BY Zenon DEF Open
<1>4. Lookup(path) \in DOMAIN nodes
  BY Zenon DEF Open
<1>5. TableOK'
  <2>1. slot \in [node : DOMAIN nodes \cup {NULL}, offset : Nat]
    BY <1>4, SMT
  <2> HIDE DEF slot
  <2> QED
    BY <1>1, <1>2, <1>3, <2>1, Zenon DEF TableOK
<1>6. \A c \in Descriptors : s_fd_table'[c] = IF c = d THEN slot ELSE s_fd_table[c]
  BY <1>1, <1>2, Zenon DEF TableOK
<1>7. ASSUME NEW c \in Descriptors
      PROVE  DescriptorOK(c)'
  <2>1. CASE c = d
    <3>1. s_fd_table'[c].node = Lookup(path) /\ s_fd_table'[c].offset = 0
      <4>1. slot.node = Lookup(path) /\ slot.offset = 0
        BY Zenon
      <4> HIDE DEF slot
      <4> QED
        BY <1>6, <2>1, <4>1, Zenon
    <3>2. nodes[Lookup(path)] \in Node
      BY <1>1, <1>4, SMT
    <3>3. 0 <= nodes[Lookup(path)].length
      BY <3>2, NodeShape, SMT
    <3> QED
      BY <1>3, <3>1, <3>3, Zenon DEF DescriptorOK
  <2>2. CASE c # d
    BY <1>3, <1>6, <2>2, Parts, Zenon DEF DescriptorOK, IsFile
  <2> QED
    BY <2>1, <2>2
<1>8. \A i \in DOMAIN nodes' : NodeOK(i)'
  BY <1>3, Parts, Zenon DEF NodeOK, IsFile
<1> QED
  BY <1>1, <1>3, <1>5, <1>7, <1>8, PartsNext, Zenon

LEMMA CloseStep ==
    ASSUME IInv, NEW d \in Descriptors, Close(d)
    PROVE  IInv'
<1>1. nodes \in Seq(Node) /\ TableOK
  BY Parts
<1>2. nodes' = nodes /\ s_fd_table' = [s_fd_table EXCEPT ![d].node = NULL]
  BY Zenon DEF Close
<1>3. /\ TableOK'
      /\ \A c \in Descriptors : s_fd_table'[c].offset = s_fd_table[c].offset
      /\ \A c \in Descriptors : s_fd_table'[c].node = IF c = d THEN NULL ELSE s_fd_table[c].node
  BY <1>1, <1>2, SMT DEF TableOK
<1>4. \A c \in Descriptors : DescriptorOK(c)'
  BY <1>2, <1>3, Parts, Zenon DEF DescriptorOK, IsFile
<1>5. \A i \in DOMAIN nodes' : NodeOK(i)'
  BY <1>2, Parts, Zenon DEF NodeOK, IsFile
<1> QED
  BY <1>1, <1>2, <1>3, <1>4, <1>5, PartsNext, Zenon

-----------------------------------------------------------------------------
(* A read yields no more than what is left of the file. *)
LEMMA ReadInside ==
    ASSUME NEW e \in Node, e.length <= Len(e.data), NEW offset \in Nat, NEW n \in Nat
    PROVE  /\ Len(RamfsRead(e, offset, n)) \in Nat
           /\ offset <= e.length => offset + Len(RamfsRead(e, offset, n)) <= e.length
<1>1. e.length \in Nat /\ e.data \in Seq(Byte) /\ Len(e.data) \in Nat
  <2>1. e.length \in Nat /\ e.data \in Seq(Byte)
    BY NodeShape
  <2> QED
    BY <2>1, SMT
<1>2. CASE offset >= e.length
  <2>1. RamfsRead(e, offset, n) = <<>>
    BY <1>2, Zenon DEF RamfsRead
  <2> QED
    BY <1>1, <2>1, SMT
<1>3. CASE ~(offset >= e.length)
  <2> DEFINE m == Least(offset + n, e.length)
             data == e.data
             length == e.length
  <2>1. RamfsRead(e, offset, n) = SubSeq(data, offset + 1, m)
    BY <1>3, Zenon DEF RamfsRead
  <2>2. length \in Nat /\ data \in Seq(Byte) /\ Len(data) \in Nat /\ length <= Len(data) /\ offset < length
    BY <1>1, <1>3, SMT
  <2>3. m = Least(offset + n, length)
    OBVIOUS
  <2> HIDE DEF m, data, length
  <2>4. m \in Nat /\ offset <= m /\ m <= length
    BY <2>2, <2>3, SMT DEF Least
  <2>5. offset + 1 \in Int /\ m \in Int /\ \A j \in (offset + 1) .. m : data[j] \in Byte
    BY <2>2, <2>4, SMT
  <2>6. Len(SubSeq(data, offset + 1, m)) =
           IF offset + 1 <= m THEN m - (offset + 1) + 1 ELSE 0
    BY <2>5, SubSeqProperties
  <2>7. Len(SubSeq(data, offset + 1, m)) = m - offset
    BY <2>4, <2>6, SMT
  <2> QED
    BY <2>1, <2>2, <2>4, <2>7, SMT DEF length
<1> QED
  BY <1>2, <1>3

LEMMA ReplyLength ==
    ASSUME NEW e \in Node, e.length <= Len(e.data), NEW offset \in Nat, NEW n \in Nat,
           NEW reply \in Replies(e, offset, n)
    PROVE  /\ Len(reply) \in Nat
           /\ e.kind = "file" => reply = RamfsRead(e, offset, n)
<1>1. CASE e.kind = "zero"
  <2>1. reply = [j \in 1 .. n |-> ZERO]
    BY <1>1, Zenon DEF Replies
  <2> QED
    BY <1>1, <2>1, SMT
<1>2. CASE e.kind = "kbd"
  <2>1. reply = <<>> \/ \E ch \in Typed : reply = <<ch>>
    BY <1>2, SMT DEF Replies
  <2> QED
    BY <1>2, <2>1, SMT
<1>3. CASE e.kind # "zero" /\ e.kind # "kbd"
  <2>1. reply = RamfsRead(e, offset, n)
    BY <1>3, Zenon DEF Replies
  <2> QED
    BY <2>1, ReadInside
<1> QED
  BY <1>1, <1>2, <1>3

(* What moving a descriptor does to the table. *)
LEMMA Moved ==
    ASSUME TableOK, NEW d \in Descriptors, NEW n \in Nat, Move(d, n)
    PROVE  /\ s_fd_table' \in [Descriptors -> [node : DOMAIN nodes \cup {NULL}, offset : Nat]]
           /\ \A c \in Descriptors : s_fd_table'[c].node = s_fd_table[c].node
           /\ \A c \in Descriptors \ {d} : s_fd_table'[c].offset = s_fd_table[c].offset
           /\ s_fd_table'[d].offset = s_fd_table[d].offset + n
<1> DEFINE to == s_fd_table[d].offset + n
<1>1. s_fd_table' = [s_fd_table EXCEPT ![d].offset = to]
  BY Zenon DEF Move
<1>2. to \in Nat
  BY SMT DEF TableOK
<1> HIDE DEF to
<1>3. /\ s_fd_table' \in [Descriptors -> [node : DOMAIN nodes \cup {NULL}, offset : Nat]]
      /\ \A c \in Descriptors : s_fd_table'[c].node = s_fd_table[c].node
      /\ \A c \in Descriptors \ {d} : s_fd_table'[c].offset = s_fd_table[c].offset
      /\ s_fd_table'[d].offset = to
  BY <1>1, <1>2, SMT DEF TableOK
<1> QED
  BY <1>3 DEF to

LEMMA ReadStep ==
    ASSUME IInv, NEW d \in Descriptors, NEW n \in Counts, Read(d, n)
    PROVE  IInv'
<1> DEFINE i == s_fd_table[d].node
           offset == s_fd_table[d].offset
<1>1. nodes \in Seq(Node) /\ TableOK
  BY Parts
<1>2. PICK reply \in Replies(nodes[i], offset, n) : Move(d, Len(reply))
  BY Zenon DEF Read
<1>3. i \in DOMAIN nodes /\ offset \in Nat /\ n \in Nat
  BY <1>1, VfsAssumption, SMT DEF Read, TableOK
<1>4. nodes' = nodes
  BY Zenon DEF Read
<1>5. nodes[i] \in Node /\ nodes[i].length <= Len(nodes[i].data)
  <2>1. nodes[i] \in Node
    BY <1>1, <1>3, SMT
  <2> QED
    BY <1>3, <2>1, Parts, Zenon DEF NodeOK
<1>6. /\ Len(reply) \in Nat
      /\ IsFile(i) => (offset <= nodes[i].length => offset + Len(reply) <= nodes[i].length)
  BY <1>2, <1>3, <1>5, ReplyLength, ReadInside, Zenon DEF IsFile
<1>7. /\ s_fd_table' \in [Descriptors -> [node : DOMAIN nodes \cup {NULL}, offset : Nat]]
      /\ \A c \in Descriptors : s_fd_table'[c].node = s_fd_table[c].node
      /\ \A c \in Descriptors \ {d} : s_fd_table'[c].offset = s_fd_table[c].offset
      /\ s_fd_table'[d].offset = offset + Len(reply)
  BY <1>1, <1>2, <1>6, Moved
<1>8. \A c \in Descriptors : DescriptorOK(c)
  BY Parts
<1>9. DescriptorOK(d)'
  BY <1>4, <1>6, <1>7, <1>8, Zenon DEF DescriptorOK, IsFile
<1>10. \A c \in Descriptors \ {d} : DescriptorOK(c)'
  BY <1>4, <1>7, <1>8, Zenon DEF DescriptorOK, IsFile
<1>11. \A k \in DOMAIN nodes' : NodeOK(k)'
  BY <1>4, Parts, Zenon DEF NodeOK, IsFile
<1> QED
  BY <1>1, <1>4, <1>7, <1>9, <1>10, <1>11, PartsNext, Zenon DEF TableOK

LEMMA WrittenFills ==
    ASSUME NEW e \in Node, e.length <= Len(e.data), NEW offset \in Nat, NEW chunk \in Chunks
    PROVE  Filled(e, offset, chunk, Written(e, offset, chunk))
<1>1. CASE e.kind \in {"serial", "null"}
  <2>1. Written(e, offset, chunk) = e /\ e.kind # "file"
    BY <1>1, Zenon DEF Written
  <2>2. e.length \in Nat
    BY NodeShape
  <2>3. e.length <= e.length
    BY <2>2, SMT
  <2> QED
    BY <2>1, <2>3, Zenon DEF Filled
<1>2. CASE e.kind \notin {"serial", "null"}
  <2>1. Written(e, offset, chunk) = RamfsWrite(e, offset, chunk)
    BY <1>2, Zenon DEF Written
  <2> QED
    BY <2>1, RamfsWriteFills
<1> QED
  BY <1>1, <1>2

LEMMA WriteStep ==
    ASSUME IInv, NEW d \in Descriptors, NEW chunk \in Chunks, Write(d, chunk)
    PROVE  /\ IInv'
           /\ DOMAIN nodes' = DOMAIN nodes
           /\ \A k \in DOMAIN nodes : Outgrows(nodes'[k], nodes[k])
<1> DEFINE i == s_fd_table[d].node
           offset == s_fd_table[d].offset
           w == Written(nodes[i], offset, chunk)
<1>1. nodes \in Seq(Node) /\ TableOK
  BY Parts
<1>2. nodes' = [nodes EXCEPT ![i] = w] /\ Move(d, Len(chunk))
  BY Zenon DEF Write
<1>3. i \in DOMAIN nodes /\ offset \in Nat
  BY <1>1, SMT DEF Write, TableOK
<1>4. nodes[i] \in Node
  BY <1>1, <1>3, SMT
<1>5. NodeOK(i) /\ DescriptorOK(d) /\ i # NULL
  BY <1>3, Parts, Zenon DEF Write
<1>6. nodes[i].length <= Len(nodes[i].data)
  BY <1>5, Zenon DEF NodeOK
<1>7. Filled(nodes[i], offset, chunk, w)
  <2> HIDE DEF i, offset
  <2> QED
    BY <1>3, <1>4, <1>6, WrittenFills
<1> HIDE DEF w
<1>8. /\ nodes' \in Seq(Node) /\ Len(nodes') = Len(nodes) /\ DOMAIN nodes' = DOMAIN nodes
      /\ \A k \in DOMAIN nodes : nodes'[k] = IF k = i THEN w ELSE nodes[k]
  <2> HIDE DEF i
  <2> QED
    BY <1>1, <1>2, <1>3, <1>7, SMT DEF Filled
<1>9. Len(chunk) \in Nat
  <2>1. chunk \in Seq(Data)
    BY VfsAssumption
  <2> QED
    BY <2>1, SMT
<1>10. /\ s_fd_table' \in [Descriptors -> [node : DOMAIN nodes \cup {NULL}, offset : Nat]]
       /\ \A c \in Descriptors : s_fd_table'[c].node = s_fd_table[c].node
       /\ \A c \in Descriptors \ {d} : s_fd_table'[c].offset = s_fd_table[c].offset
       /\ s_fd_table'[d].offset = offset + Len(chunk)
  BY <1>1, <1>2, <1>9, Moved
<1>11. ASSUME NEW k \in DOMAIN nodes'
       PROVE  NodeOK(k)'
  <2>1. k \in DOMAIN nodes /\ NodeOK(k)
    BY <1>8, Parts
  <2>2. CASE k # i
    BY <1>8, <2>1, <2>2, Zenon DEF NodeOK, IsFile
  <2>3. CASE k = i
    <3>1. nodes'[k] = w /\ nodes[k] = nodes[i]
      BY <1>8, <2>1, <2>3
    <3>2. IsFile(i) => \A j \in 1 .. w.length : w.data[j] # UNINIT
      BY <1>5, <1>7, Zenon DEF NodeOK, DescriptorOK, IsFile, Filled
    <3> HIDE DEF i
    <3> QED
      BY <1>5, <1>7, <1>8, <2>3, <3>1, <3>2, Zenon DEF NodeOK, IsFile, Filled
  <2> QED
    BY <2>2, <2>3
<1>12. ASSUME NEW c \in Descriptors
       PROVE  DescriptorOK(c)'
  <2> DEFINE t == s_fd_table[c].node
  <2>1. SUFFICES ASSUME t # NULL, nodes'[t].kind = "file"
                 PROVE  s_fd_table'[c].offset <= nodes'[t].length
    BY <1>10, Zenon DEF DescriptorOK, IsFile
  <2>2. t \in DOMAIN nodes
    BY <1>1, <2>1, SMT DEF TableOK
  <2>3. nodes'[t].kind = nodes[t].kind
    BY <1>7, <1>8, <2>2, Zenon DEF Filled
  <2>4. s_fd_table[c].offset <= nodes[t].length
    BY <2>1, <2>3, Parts, Zenon DEF DescriptorOK, IsFile
  <2>5. CASE c = d
    BY <1>7, <1>8, <1>10, <2>1, <2>2, <2>3, <2>5, Zenon DEF Filled
  <2>6. CASE c # d
    <3>1. s_fd_table'[c].offset = s_fd_table[c].offset
      BY <1>10, <2>6
    <3>2. CASE t = i
      <4>1. nodes[t].length <= nodes'[t].length
        BY <1>7, <1>8, <2>2, <3>2, Zenon DEF Filled
      <4>2. nodes[t] \in Node /\ nodes'[t] \in Node
        BY <1>1, <1>8, <2>2, SMT
      <4>3. /\ nodes[t].length \in Nat /\ nodes'[t].length \in Nat
            /\ s_fd_table[c].offset \in Nat
        BY <1>1, <4>2, NodeShape, SMT DEF TableOK
      <4> QED
        BY <2>4, <3>1, <4>1, <4>3, SMT
    <3>3. CASE t # i
      BY <1>8, <2>2, <2>4, <3>1, <3>3, Zenon
    <3> QED
      BY <3>2, <3>3
  <2> QED
    BY <2>5, <2>6
<1>13. ASSUME NEW k \in DOMAIN nodes
       PROVE  Outgrows(nodes'[k], nodes[k])
  BY <1>7, <1>8, NotGrown, Zenon DEF Filled
<1> QED
  BY <1>8, <1>10, <1>11, <1>12, <1>13, PartsNext, Zenon DEF TableOK

-----------------------------------------------------------------------------
LEMMA NextKeeps == IInv /\ [Next]_vars => IInv'
<1> SUFFICES ASSUME IInv, [Next]_vars PROVE IInv'
  OBVIOUS
<1>1. ASSUME NEW p \in DOMAIN nodes, NEW name \in Names, CreateDir(p, name)
      PROVE  IInv'
  BY <1>1, FreshEntry, CreateStep DEF CreateDir
<1>2. ASSUME NEW p \in DOMAIN nodes, NEW name \in Names,
             NEW content \in Chunks \cup {<<>>}, CreateFile(p, name, content)
      PROVE  IInv'
  BY <1>2, FreshEntry, CreateStep DEF CreateFile
<1>3. ASSUME NEW p \in DOMAIN nodes, DevfsInit(p)
      PROVE  IInv'
  BY <1>3, DevfsInitStep
<1>4. ASSUME NEW path \in Paths, Open(path)
      PROVE  IInv'
  BY <1>4, OpenStep
<1>5. ASSUME NEW d \in Descriptors, Close(d)
      PROVE  IInv'
  BY <1>5, CloseStep
<1>6. ASSUME NEW d \in Descriptors, NEW n \in Counts, Read(d, n)
      PROVE  IInv'
  BY <1>6, ReadStep
<1>7. ASSUME NEW d \in Descriptors, NEW chunk \in Chunks, Write(d, chunk)
      PROVE  IInv'
  BY <1>7, WriteStep
<1>8. ASSUME UNCHANGED vars
      PROVE  IInv'
  BY <1>8, Zenon DEF vars, IInv, TypeOK, Initialised, OffsetsInside, Opened, IsFile
<1> QED
  BY <1>1, <1>2, <1>3, <1>4, <1>5, <1>6, <1>7, <1>8, Zenon DEF Next

LEMMA Invariance == Spec => []IInv
  BY InitHolds, NextKeeps, PTL DEF Spec

(***************************************************************************)
(* The tree and the descriptor table keep their shape: directories never   *)
(* overflow their array, contents never outgrow their memory, and an open  *)
(* descriptor denotes a node (vfs.c, ramfs.c).                             *)
(***************************************************************************)
THEOREM TypeCorrect == Spec => []TypeOK
<1>1. IInv => TypeOK
  BY Zenon DEF IInv
<1> QED
  BY <1>1, Invariance, PTL

(***************************************************************************)
(* Every byte of a regular file below its length was written, whatever     *)
(* growth did to its memory (ramfs.c:23-40).                               *)
(***************************************************************************)
THEOREM InitialisedCorrect == Spec => []Initialised
<1>1. IInv => Initialised
  BY Zenon DEF IInv
<1> QED
  BY <1>1, Invariance, PTL

(***************************************************************************)
(* No open descriptor of a regular file stands past its end, so that no    *)
(* write through one leaves a gap (vfs.c:65-87).                           *)
(***************************************************************************)
THEOREM OffsetsInsideCorrect == Spec => []OffsetsInside
<1>1. IInv => OffsetsInside
  BY Zenon DEF IInv
<1> QED
  BY <1>1, Invariance, PTL

-----------------------------------------------------------------------------
(***************************************************************************)
(* The refinement.  The files of the store change only when a regular file *)
(* is made or written; the other steps leave them as they are.             *)
(***************************************************************************)
LEMMA StoreKept ==
    ASSUME IInv, UNCHANGED s_fd_table, DOMAIN nodes \subseteq DOMAIN nodes',
           DOMAIN nodes' \subseteq Nat,
           \A i \in DOMAIN nodes : /\ nodes'[i].kind = nodes[i].kind
                                  /\ nodes'[i].data = nodes[i].data
                                  /\ nodes'[i].length = nodes[i].length
    PROVE  /\ Positions' = Positions
           /\ FileNodes' = FileNodes \cup {i \in DOMAIN nodes' \ DOMAIN nodes : IsFile(i)'}
           /\ \A i \in FileNodes : SubSeq(nodes'[i].data, 1, nodes'[i].length) = Contents[i]
<1>1. FileNodes' = FileNodes \cup {i \in DOMAIN nodes' \ DOMAIN nodes : IsFile(i)'}
  BY Zenon DEF FileNodes, IsFile
<1>2. TableOK /\ NULL \notin Nat /\ DOMAIN nodes \subseteq Nat
  <2>1. nodes \in Seq(Node)
    BY Parts
  <2> QED
    BY <2>1, Parts, VfsAssumption, SMT
<1>3. ASSUME NEW d \in Descriptors
      PROVE  Position(d)' = Position(d)
  <2>1. s_fd_table[d].node \in DOMAIN nodes \cup {NULL}
    BY <1>2, SMT DEF TableOK
  <2>2. s_fd_table[d].node \in FileNodes' <=> s_fd_table[d].node \in FileNodes
    <3>1. CASE s_fd_table[d].node \in DOMAIN nodes
      BY <1>1, <3>1, Zenon
    <3>2. CASE s_fd_table[d].node = NULL
      <4>1. NULL \notin FileNodes /\ NULL \notin FileNodes'
        BY <1>2, Zenon DEF FileNodes
      <4> QED
        BY <3>2, <4>1
    <3> QED
      BY <2>1, <3>1, <3>2
  <2> QED
    BY <2>2, Zenon DEF Position
<1>4. Positions' = Positions
  BY <1>3, Zenon DEF Positions
<1>5. \A i \in FileNodes : SubSeq(nodes'[i].data, 1, nodes'[i].length) = Contents[i]
  BY Zenon DEF Contents, FileNodes
<1> QED
  BY <1>1, <1>4, <1>5

LEMMA GrewDomain ==
    ASSUME IInv, NEW added, Len(added) \in Nat, Grew(added)
    PROVE  /\ Len(nodes) \in Nat /\ DOMAIN nodes = 1 .. Len(nodes)
           /\ DOMAIN nodes \subseteq DOMAIN nodes' /\ DOMAIN nodes' \subseteq Nat
           /\ DOMAIN nodes' \ DOMAIN nodes = (Len(nodes) + 1) .. (Len(nodes) + Len(added))
<1> DEFINE n == Len(nodes)
           k == Len(added)
<1>1. nodes \in Seq(Node)
  BY Parts
<1>2. n \in Nat /\ DOMAIN nodes = 1 .. n /\ k \in Nat
  BY <1>1, SMT
<1>3. DOMAIN nodes' = 1 .. (n + k)
  BY Zenon DEF Grew
<1> HIDE DEF n, k
<1>4. /\ 1 .. n \subseteq 1 .. (n + k) /\ 1 .. (n + k) \subseteq Nat
      /\ (1 .. (n + k)) \ (1 .. n) = (n + 1) .. (n + k)
  BY <1>2, SMT
<1>5. /\ n \in Nat /\ DOMAIN nodes = 1 .. n
      /\ DOMAIN nodes \subseteq DOMAIN nodes' /\ DOMAIN nodes' \subseteq Nat
      /\ DOMAIN nodes' \ DOMAIN nodes = (n + 1) .. (n + k)
  BY <1>2, <1>3, <1>4, Zenon
<1> QED
  BY <1>5 DEF n, k

(* Making directories and devices makes no file of the store. *)
LEMMA NoFileMade ==
    ASSUME IInv, UNCHANGED <<s_fd_table, got>>, NEW added, Len(added) \in Nat,
           \A j \in 1 .. Len(added) : added[j].kind # "file", Grew(added)
    PROVE  UNCHANGED <<Contents, Positions, got>>
<1>1. /\ Len(nodes) \in Nat
      /\ DOMAIN nodes \subseteq DOMAIN nodes' /\ DOMAIN nodes' \subseteq Nat
      /\ DOMAIN nodes' \ DOMAIN nodes = (Len(nodes) + 1) .. (Len(nodes) + Len(added))
  BY GrewDomain
<1>2. \A i \in DOMAIN nodes' \ DOMAIN nodes : ~IsFile(i)'
  <2>1. \A i \in (Len(nodes) + 1) .. (Len(nodes) + Len(added)) : i - Len(nodes) \in 1 .. Len(added)
    BY <1>1, SMT
  <2> QED
    BY <1>1, <2>1, ZenonT(40) DEF Grew, IsFile
<1>3. /\ Positions' = Positions
      /\ FileNodes' = FileNodes \cup {i \in DOMAIN nodes' \ DOMAIN nodes : IsFile(i)'}
      /\ \A i \in FileNodes : SubSeq(nodes'[i].data, 1, nodes'[i].length) = Contents[i]
  BY <1>1, StoreKept, Zenon DEF Grew
<1>4. FileNodes' = FileNodes
  BY <1>2, <1>3, Zenon
<1>5. Contents' = [i \in FileNodes |-> SubSeq(nodes'[i].data, 1, nodes'[i].length)]
  BY <1>4, Zenon DEF Contents
<1>6. Contents' = Contents
  BY <1>3, <1>5, Zenon DEF Contents
<1> QED
  BY <1>3, <1>6

LEMMA FileMade ==
    ASSUME IInv, UNCHANGED <<s_fd_table, got>>, NEW e, Fresh(e), e.kind = "file",
           e.length = Len(e.data), Grew(<<e>>)
    PROVE  Store!Create(Len(nodes) + 1, e.data)
<1> DEFINE f == Len(nodes) + 1
<1>1. Len(<<e>>) = 1 /\ <<e>>[1] = e
  BY SMT
<1>2. /\ Len(nodes) \in Nat /\ DOMAIN nodes = 1 .. Len(nodes)
      /\ DOMAIN nodes \subseteq DOMAIN nodes' /\ DOMAIN nodes' \subseteq Nat
      /\ DOMAIN nodes' \ DOMAIN nodes = (Len(nodes) + 1) .. (Len(nodes) + 1)
  BY <1>1, GrewDomain
<1>3. DOMAIN nodes' \ DOMAIN nodes = {f} /\ f \notin DOMAIN nodes
  BY <1>2, SMT
<1>4. nodes'[f] = e
  <2>1. f \in (Len(nodes) + 1) .. (Len(nodes) + 1) /\ f - Len(nodes) = 1
    BY <1>2, SMT
  <2> QED
    BY <1>1, <2>1, Zenon DEF Grew
<1>5. /\ Positions' = Positions
      /\ FileNodes' = FileNodes \cup {i \in DOMAIN nodes' \ DOMAIN nodes : IsFile(i)'}
      /\ \A i \in FileNodes : SubSeq(nodes'[i].data, 1, nodes'[i].length) = Contents[i]
  BY <1>2, StoreKept, Zenon DEF Grew
<1>6. FileNodes' = FileNodes \cup {f} /\ f \notin FileNodes
  BY <1>3, <1>4, <1>5, Zenon DEF FileNodes, IsFile
<1>7. SubSeq(nodes'[f].data, 1, nodes'[f].length) = e.data
  <2>1. e.data \in Seq(Byte)
    BY NodeShape DEF Fresh
  <2> QED
    BY <1>4, <2>1, SubSeqFull
<1> HIDE DEF f
<1>8. DOMAIN Contents = FileNodes
  BY Zenon DEF Contents
<1>9. Contents' = [i \in FileNodes' |-> SubSeq(nodes'[i].data, 1, nodes'[i].length)]
  BY Zenon DEF Contents
<1>10. \A i \in FileNodes \cup {f} :
          SubSeq(nodes'[i].data, 1, nodes'[i].length) = IF i = f THEN e.data ELSE Contents[i]
  BY <1>5, <1>6, <1>7, Zenon
<1>11. Contents' = [i \in FileNodes \cup {f} |-> IF i = f THEN e.data ELSE Contents[i]]
  BY <1>6, <1>9, <1>10, Zenon
<1>12. Store!Create(f, e.data)
  BY <1>5, <1>6, <1>8, <1>11, Zenon DEF Store!Create
<1> QED
  BY <1>12 DEF f

(* A descriptor denotes a file of the store, or none. *)
LEMMA PositionValues ==
    ASSUME IInv, NEW d \in Descriptors
    PROVE  /\ Positions[d] = Position(d) /\ DOMAIN Positions = Descriptors
           /\ Position(d) # NULL <=> s_fd_table[d].node \in FileNodes
           /\ s_fd_table[d].node \in FileNodes =>
                 /\ Position(d).file = s_fd_table[d].node
                 /\ Position(d).at = s_fd_table[d].offset
<1>1. TableOK /\ nodes \in Seq(Node)
  BY Parts
<1>2. s_fd_table[d].offset \in Nat
  BY <1>1, SMT DEF TableOK
<1>3. FileNodes \subseteq Nat
  BY <1>1, SMT DEF FileNodes
<1>4. s_fd_table[d].node \in FileNodes =>
         [file |-> s_fd_table[d].node, at |-> s_fd_table[d].offset] \in [file : Nat, at : Nat]
  BY <1>2, <1>3, Zenon
<1>5. NULL \notin [file : Nat, at : Nat]
  BY VfsAssumption
<1> QED
  BY <1>4, <1>5, Zenon DEF Positions, Position

LEMMA OpenImplements ==
    ASSUME IInv, NEW path, Open(path)
    PROVE  [Store!Next]_(Store!vars)
<1> DEFINE f == Lookup(path)
<1>1. PICK d \in Descriptors :
         /\ s_fd_table[d].node = NULL
         /\ s_fd_table' = [s_fd_table EXCEPT ![d] = [node |-> f, offset |-> 0]]
  BY Zenon DEF Open, IsFirstFree
<1>2. nodes' = nodes /\ got' = got /\ f \in DOMAIN nodes
  BY Zenon DEF Open
<1> HIDE DEF f
<1>3. Contents' = Contents /\ FileNodes' = FileNodes /\ DOMAIN Contents = FileNodes
  BY <1>2, Zenon DEF Contents, FileNodes, IsFile
<1>4. NULL \notin FileNodes
  BY Parts, VfsAssumption, SMT DEF FileNodes
<1>5. TableOK
  BY Parts
<1>6. /\ \A c \in Descriptors \ {d} : s_fd_table'[c] = s_fd_table[c]
      /\ s_fd_table'[d].node = f /\ s_fd_table'[d].offset = 0
  BY <1>1, <1>5, Zenon DEF TableOK
<1>7. \A c \in Descriptors \ {d} : Position(c)' = Position(c)
  BY <1>3, <1>6, Zenon DEF Position
<1>8. Position(d) = NULL
  BY <1>1, <1>4, Zenon DEF Position
<1>9. CASE f \in FileNodes
  <2>1. Position(d)' = [file |-> f, at |-> 0]
    BY <1>3, <1>6, <1>9, Zenon DEF Position
  <2>2. Positions' = [Positions EXCEPT ![d] = [file |-> f, at |-> 0]]
    BY <1>7, <2>1, Zenon DEF Positions
  <2>3. Store!Open(d, f)
    BY <1>2, <1>3, <1>8, <2>2, Zenon DEF Store!Open, Positions
  <2> QED
    BY <1>3, <1>9, <2>3, Zenon DEF Store!Next
<1>10. CASE f \notin FileNodes
  <2>1. Position(d)' = NULL
    BY <1>3, <1>6, <1>10, Zenon DEF Position
  <2>2. Positions' = Positions
    BY <1>7, <1>8, <2>1, Zenon DEF Positions
  <2> QED
    BY <1>2, <1>3, <2>2, Zenon DEF Store!vars
<1> QED
  BY <1>9, <1>10

LEMMA CloseImplements ==
    ASSUME IInv, NEW d \in Descriptors, Close(d)
    PROVE  Store!Next
<1>1. nodes' = nodes /\ got' = got /\ s_fd_table' = [s_fd_table EXCEPT ![d].node = NULL]
  BY Zenon DEF Close
<1>2. Contents' = Contents /\ FileNodes' = FileNodes
  BY <1>1, Zenon DEF Contents, FileNodes, IsFile
<1>3. NULL \notin FileNodes
  BY Parts, VfsAssumption, SMT DEF FileNodes
<1>4. TableOK
  BY Parts
<1>5. /\ \A c \in Descriptors \ {d} : s_fd_table'[c] = s_fd_table[c]
      /\ s_fd_table'[d].node = NULL
  BY <1>1, <1>4, Zenon DEF TableOK
<1>6. \A c \in Descriptors \ {d} : Position(c)' = Position(c)
  BY <1>2, <1>5, Zenon DEF Position
<1>7. Position(d)' = NULL
  BY <1>2, <1>3, <1>5, Zenon DEF Position
<1>8. Positions' = [Positions EXCEPT ![d] = NULL]
  BY <1>6, <1>7, Zenon DEF Positions
<1>9. Store!Close(d)
  BY <1>1, <1>2, <1>8, Zenon DEF Store!Close
<1> QED
  BY <1>9, Zenon DEF Store!Next

-----------------------------------------------------------------------------
(* The first n bytes. *)
LEMMA Prefix ==
    ASSUME NEW s \in Seq(Byte), NEW n \in Nat, n <= Len(s)
    PROVE  /\ SubSeq(s, 1, n) \in Seq(Byte)
           /\ Len(SubSeq(s, 1, n)) = n
           /\ \A j \in 1 .. n : SubSeq(s, 1, n)[j] = s[j]
<1>1. 1 \in Int /\ n \in Int /\ \A j \in 1 .. n : s[j] \in Byte
  BY SMT
<1>2. /\ SubSeq(s, 1, n) \in Seq(Byte)
      /\ Len(SubSeq(s, 1, n)) = IF 1 <= n THEN n - 1 + 1 ELSE 0
      /\ \A j \in 1 .. n - 1 + 1 : SubSeq(s, 1, n)[j] = s[1 + j - 1]
  BY <1>1, SubSeqProperties
<1>3. (IF 1 <= n THEN n - 1 + 1 ELSE 0) = n /\ n - 1 + 1 = n /\ \A j \in 1 .. n : 1 + j - 1 = j
  BY SMT
<1> QED
  BY <1>2, <1>3, Zenon

(* What lies behind the first m bytes, up to the n-th. *)
LEMMA Behind ==
    ASSUME NEW s \in Seq(Byte), NEW m \in Nat, NEW n \in Nat, n <= Len(s)
    PROVE  /\ SubSeq(s, m + 1, n) \in Seq(Byte)
           /\ Len(SubSeq(s, m + 1, n)) = IF m <= n THEN n - m ELSE 0
           /\ \A j \in 1 .. (n - m) : SubSeq(s, m + 1, n)[j] = s[m + j]
<1>1. m + 1 \in Int /\ n \in Int /\ \A j \in (m + 1) .. n : s[j] \in Byte
  BY SMT
<1>2. /\ SubSeq(s, m + 1, n) \in Seq(Byte)
      /\ Len(SubSeq(s, m + 1, n)) = IF m + 1 <= n THEN n - (m + 1) + 1 ELSE 0
      /\ \A j \in 1 .. n - (m + 1) + 1 : SubSeq(s, m + 1, n)[j] = s[(m + 1) + j - 1]
  BY <1>1, SubSeqProperties
<1>3. /\ (IF m + 1 <= n THEN n - (m + 1) + 1 ELSE 0) = IF m <= n THEN n - m ELSE 0
      /\ n - (m + 1) + 1 = n - m
      /\ \A j \in 1 .. (n - m) : (m + 1) + j - 1 = m + j
  BY SMT
<1> QED
  BY <1>2, <1>3, Zenon

LEMMA ReadBytes ==
    ASSUME NEW e \in Node, e.length <= Len(e.data), NEW offset \in Nat, NEW n \in Nat,
           offset <= e.length
    PROVE  LET bytes == SubSeq(e.data, 1, e.length) IN
           RamfsRead(e, offset, n) =
               SubSeq(bytes, offset + 1, Store!Least(offset + n, Len(bytes)))
<1> DEFINE bytes == SubSeq(e.data, 1, e.length)
           m == Least(offset + n, e.length)
           data == e.data
           length == e.length
<1>1. data \in Seq(Byte) /\ length \in Nat /\ length <= Len(data) /\ offset <= length
  BY NodeShape
<1>2. bytes = SubSeq(data, 1, length) /\ m = Least(offset + n, length)
  OBVIOUS
<1>3. RamfsRead(e, offset, n) = IF offset >= length THEN <<>> ELSE SubSeq(data, offset + 1, m)
  BY Zenon DEF RamfsRead
<1>4. Store!Least(offset + n, length) = m
  BY Zenon DEF Store!Least, Least
<1> HIDE DEF m, data, length, bytes
<1>5. m \in Nat /\ offset <= m /\ m <= length
  BY <1>1, <1>2, SMT DEF Least
<1>6. bytes \in Seq(Byte) /\ Len(bytes) = length /\ \A j \in 1 .. length : bytes[j] = data[j]
  BY <1>1, <1>2, Prefix
<1> DEFINE t == SubSeq(bytes, offset + 1, m)
<1>7. t \in Seq(Byte) /\ Len(t) = m - offset /\ \A j \in 1 .. (m - offset) : t[j] = bytes[offset + j]
  BY <1>5, <1>6, Behind
<1>8. CASE offset >= length
  <2>1. Len(t) = 0
    BY <1>1, <1>5, <1>7, <1>8, SMT
  <2>2. t = <<>>
    BY <1>7, <2>1, EmptySeq, SMT
  <2> QED
    BY <1>3, <1>4, <1>6, <1>8, <2>2 DEF bytes
<1>9. CASE ~(offset >= length)
  <2> DEFINE r == SubSeq(data, offset + 1, m)
  <2>1. m <= Len(data)
    BY <1>1, <1>5, SMT
  <2>2. r \in Seq(Byte) /\ Len(r) = m - offset /\ \A j \in 1 .. (m - offset) : r[j] = data[offset + j]
    BY <1>1, <1>5, <2>1, Behind
  <2>3. \A j \in 1 .. (m - offset) : offset + j \in 1 .. length
    BY <1>1, <1>5, SMT
  <2>4. \A j \in 1 .. Len(t) : r[j] = t[j]
    BY <1>6, <1>7, <2>2, <2>3, Zenon
  <2> HIDE DEF r, t
  <2>5. r = t
    BY <1>7, <2>2, <2>4, SeqEqual
  <2> QED
    BY <1>3, <1>4, <1>6, <1>9, <2>5 DEF bytes, r, t
<1> QED
  BY <1>8, <1>9

LEMMA AtReplaced ==
    ASSUME NEW f, NEW at, NEW to
    PROVE  [[file |-> f, at |-> at] EXCEPT !.at = to] = [file |-> f, at |-> to]
  BY SMT

LEMMA PositionMoved ==
    ASSUME IInv, NEW d \in Descriptors, NEW n \in Nat, Move(d, n), FileNodes' = FileNodes
    PROVE  Positions' = IF s_fd_table[d].node \in FileNodes
                        THEN [Positions EXCEPT ![d].at = s_fd_table[d].offset + n]
                        ELSE Positions
<1> DEFINE i == s_fd_table[d].node
           to == s_fd_table[d].offset + n
<1>1. TableOK
  BY Parts
<1>2. /\ \A c \in Descriptors : s_fd_table'[c].node = s_fd_table[c].node
      /\ \A c \in Descriptors \ {d} : s_fd_table'[c].offset = s_fd_table[c].offset
      /\ s_fd_table'[d].offset = to
  BY <1>1, Moved
<1> HIDE DEF to
<1>3. \A c \in Descriptors \ {d} : Position(c)' = Position(c)
  BY <1>2, Zenon DEF Position
<1>4. CASE i \in FileNodes
  <2>1. Position(d)' = [file |-> i, at |-> to]
    BY <1>2, <1>4, Zenon DEF Position
  <2>2. Position(d) = [file |-> i, at |-> s_fd_table[d].offset]
    BY <1>4, Zenon DEF Position
  <2>3. [Position(d) EXCEPT !.at = to] = [file |-> i, at |-> to]
    BY <2>2, AtReplaced
  <2>4. Positions' = [Positions EXCEPT ![d] = [Position(d) EXCEPT !.at = to]]
    BY <1>3, <2>1, <2>3, Zenon DEF Positions
  <2>5. Positions[d] = Position(d)
    BY Zenon DEF Positions
  <2>6. Positions' = [Positions EXCEPT ![d].at = to]
    BY <2>4, <2>5, Zenon
  <2> QED
    BY <1>4, <2>6 DEF to
<1>5. CASE i \notin FileNodes
  <2>1. Position(d)' = Position(d)
    BY <1>2, <1>5, Zenon DEF Position
  <2>2. Positions' = Positions
    BY <1>3, <2>1, Zenon DEF Positions
  <2> QED
    BY <1>5, <2>2
<1> QED
  BY <1>4, <1>5

LEMMA ReadImplements ==
    ASSUME IInv, NEW d \in Descriptors, NEW n \in Counts, Read(d, n)
    PROVE  [Store!Next]_(Store!vars)
<1> DEFINE i == s_fd_table[d].node
           offset == s_fd_table[d].offset
<1>1. nodes \in Seq(Node) /\ TableOK
  BY Parts
<1>2. PICK reply \in Replies(nodes[i], offset, n) :
         /\ Move(d, Len(reply))
         /\ got' = IF nodes[i].kind = "file" THEN reply ELSE got
  BY Zenon DEF Read
<1>3. i # NULL /\ i \in DOMAIN nodes /\ offset \in Nat /\ n \in Nat
  BY <1>1, VfsAssumption, SMT DEF Read, TableOK
<1>4. nodes' = nodes
  BY Zenon DEF Read
<1>5. Contents' = Contents /\ FileNodes' = FileNodes
  BY <1>4, Zenon DEF Contents, FileNodes, IsFile
<1>6. nodes[i] \in Node /\ nodes[i].length <= Len(nodes[i].data)
  <2>1. nodes[i] \in Node
    BY <1>1, <1>3, SMT
  <2> QED
    BY <1>3, <2>1, Parts, Zenon DEF NodeOK
<1>7. Len(reply) \in Nat /\ (nodes[i].kind = "file" => reply = RamfsRead(nodes[i], offset, n))
  BY <1>2, <1>3, <1>6, ReplyLength
<1>8. Positions' = IF i \in FileNodes THEN [Positions EXCEPT ![d].at = offset + Len(reply)]
                   ELSE Positions
  BY <1>2, <1>5, <1>7, PositionMoved
<1>9. CASE i \in FileNodes
  <2>1. nodes[i].kind = "file" /\ offset <= nodes[i].length
    BY <1>3, <1>9, Parts, Zenon DEF FileNodes, IsFile, DescriptorOK
  <2>2. Contents[i] = SubSeq(nodes[i].data, 1, nodes[i].length)
    BY <1>9, Zenon DEF Contents
  <2>3. got' = SubSeq(Contents[i], offset + 1, Store!Least(offset + n, Len(Contents[i])))
    BY <1>2, <1>3, <1>6, <1>7, <2>1, <2>2, ReadBytes, ZenonT(40)
  <2>4. got' = reply
    BY <1>2, <2>1
  <2>5. /\ Positions[d] # NULL /\ Positions[d].file = i /\ Positions[d].at = offset
    BY <1>9, PositionValues
  <2>6. Positions' = [Positions EXCEPT ![d].at = offset + Len(got')]
    BY <1>8, <1>9, <2>4
  <2> HIDE DEF i, offset
  <2>7. Store!Read(d, n)
    BY <1>5, <2>3, <2>5, <2>6, Zenon DEF Store!Read
  <2> QED
    BY <2>7, Zenon DEF Store!Next
<1>10. CASE i \notin FileNodes
  <2>1. nodes[i].kind # "file"
    BY <1>3, <1>10, Zenon DEF FileNodes, IsFile
  <2> QED
    BY <1>2, <1>5, <1>8, <1>10, <2>1, Zenon DEF Store!vars
<1> QED
  BY <1>9, <1>10

LEMMA Joined ==
    ASSUME NEW s \in Seq(Byte), NEW t \in Seq(Byte),
           NEW m, m = Len(s), NEW k, k = Len(t), NEW joined, joined = s \o t
    PROVE  /\ joined \in Seq(Byte) /\ Len(joined) = m + k
           /\ \A j \in 1 .. m + k : joined[j] = IF j <= m THEN s[j] ELSE t[j - m]
<1> DEFINE S == Byte
<1>1. s \in Seq(S) /\ t \in Seq(S)
  OBVIOUS
<1> HIDE DEF S
<1>2. /\ s \o t \in Seq(S) /\ Len(s \o t) = Len(s) + Len(t)
      /\ \A j \in 1 .. Len(s) + Len(t) :
            (s \o t)[j] = IF j <= Len(s) THEN s[j] ELSE t[j - Len(s)]
  BY <1>1, ConcatProperties
<1> QED
  BY <1>2 DEF S

(***************************************************************************)
(* Below its new length a file that is written holds what it held, with    *)
(* the chunk in place of what was at the offset.                           *)
(***************************************************************************)
IsSpliced(data, length, new, longer, at, chunk) ==
    /\ data \in Seq(Byte) /\ length \in Nat /\ length <= Len(data)
    /\ new \in Seq(Byte) /\ longer \in Nat /\ longer <= Len(new)
    /\ at \in Nat /\ at <= length
    /\ chunk \in Seq(Byte)
    /\ longer = IF at + Len(chunk) > length THEN at + Len(chunk) ELSE length
    /\ \A j \in 1 .. longer :
          new[j] = IF j \in (at + 1) .. (at + Len(chunk)) THEN chunk[j - at] ELSE data[j]

Splice(bytes, at, chunk) ==
    SubSeq(bytes, 1, at) \o chunk \o SubSeq(bytes, (at + Len(chunk)) + 1, Len(bytes))

LEMMA Spliced ==
    ASSUME NEW data, NEW length, NEW new, NEW longer, NEW at, NEW chunk,
           IsSpliced(data, length, new, longer, at, chunk)
    PROVE  SubSeq(new, 1, longer) = Splice(SubSeq(data, 1, length), at, chunk)
<1>1. /\ data \in Seq(Byte) /\ length \in Nat /\ length <= Len(data)
      /\ new \in Seq(Byte) /\ longer \in Nat /\ longer <= Len(new)
      /\ at \in Nat /\ at <= length
      /\ chunk \in Seq(Byte)
      /\ longer = IF at + Len(chunk) > length THEN at + Len(chunk) ELSE length
      /\ \A j \in 1 .. longer :
            new[j] = IF j \in (at + 1) .. (at + Len(chunk)) THEN chunk[j - at] ELSE data[j]
  BY Zenon DEF IsSpliced
<1> DEFINE bytes == SubSeq(data, 1, length)
           past == at + Len(chunk)
           before == SubSeq(bytes, 1, at)
           behind == SubSeq(bytes, past + 1, Len(bytes))
           left == SubSeq(new, 1, longer)
           mid == before \o chunk
           right == mid \o behind
           k == Len(chunk)
<1>2. past \in Nat /\ past = at + k /\ k \in Nat
  BY <1>1, SMT
<1>3. bytes \in Seq(Byte) /\ Len(bytes) = length /\ \A j \in 1 .. length : bytes[j] = data[j]
  BY <1>1, Prefix
<1>4. left \in Seq(Byte) /\ Len(left) = longer /\ \A j \in 1 .. longer : left[j] = new[j]
  BY <1>1, Prefix
<1>5. before \in Seq(Byte) /\ Len(before) = at /\ \A j \in 1 .. at : before[j] = bytes[j]
  BY <1>1, <1>3, Prefix
<1> HIDE DEF past
<1>6. /\ behind \in Seq(Byte) /\ Len(behind) = IF past <= length THEN length - past ELSE 0
      /\ \A j \in 1 .. (length - past) : behind[j] = bytes[past + j]
  BY <1>1, <1>2, <1>3, Behind
<1>7. mid = before \o chunk /\ k = Len(chunk) /\ right = mid \o behind
  OBVIOUS
<1> HIDE DEF before, behind, left, mid, right, k
<1>8. /\ mid \in Seq(Byte) /\ Len(mid) = at + k
      /\ \A j \in 1 .. at + k :
            mid[j] = IF j <= at THEN before[j] ELSE chunk[j - at]
  <2>1. /\ before \in Seq(Byte) /\ chunk \in Seq(Byte)
        /\ at = Len(before) /\ k = Len(chunk) /\ mid = before \o chunk
    BY <1>1, <1>5, <1>7
  <2> QED
    BY <2>1, Joined
<1> DEFINE b == Len(behind)
<1>9. Len(mid) = past /\ longer = IF past > length THEN past ELSE length
  BY <1>1, <1>2, <1>8 DEF past
<1>10. /\ right \in Seq(Byte) /\ Len(right) = past + b
      /\ \A j \in 1 .. past + b :
            right[j] = IF j <= past THEN mid[j] ELSE behind[j - past]
  <2>1. b = Len(behind)
    OBVIOUS
  <2> HIDE DEF b
  <2>2. /\ mid \in Seq(Byte) /\ behind \in Seq(Byte)
        /\ past = Len(mid) /\ right = mid \o behind
    BY <1>6, <1>8, <1>9, <1>7
  <2> QED
    BY <2>1, <2>2, Joined
<1>11. longer = past + b
  <2>1. b = IF past <= length THEN length - past ELSE 0
    BY <1>6
  <2>2. past \in Nat /\ length \in Nat
    BY <1>1, <1>2
  <2> HIDE DEF b
  <2> QED
    BY <1>9, <2>1, <2>2, SMT
<1>12. \A j \in 1 .. longer : left[j] = IF j \in (at + 1) .. past THEN chunk[j - at] ELSE data[j]
  BY <1>1, <1>4 DEF past
<1>13. ASSUME NEW j \in 1 .. longer
       PROVE  left[j] = right[j]
  <2>1. j \in 1 .. past + b
    BY <1>11
  <2>2. CASE j <= at
    <3>1. j \in 1 .. at /\ j \in 1 .. length /\ j <= past /\ j \in 1 .. at + k
          /\ j \notin (at + 1) .. past
      BY <1>1, <1>2, <2>2, SMT
    <3> QED
      BY <1>3, <1>5, <1>8, <1>10, <1>12, <2>1, <2>2, <3>1, Zenon
  <2>3. CASE ~(j <= at) /\ j <= past
    <3>1. j \in 1 .. at + k /\ j \in (at + 1) .. past
      BY <1>1, <1>2, <2>3, SMT
    <3> QED
      BY <1>8, <1>10, <1>12, <2>1, <2>3, <3>1, Zenon
  <2>4. CASE ~(j <= past)
    <3>1. /\ j - past \in 1 .. (length - past) /\ past + (j - past) = j
          /\ j \in 1 .. length /\ j \notin (at + 1) .. past
      BY <1>1, <1>2, <1>9, <2>4, SMT
    <3>2. right[j] = behind[j - past]
      BY <1>10, <2>1, <2>4, Zenon
    <3>3. behind[j - past] = bytes[j]
      BY <1>6, <3>1, Zenon
    <3> QED
      BY <1>3, <1>12, <3>1, <3>2, <3>3, Zenon
  <2> QED
    BY <2>2, <2>3, <2>4
<1>14. left = right
  BY <1>4, <1>10, <1>11, <1>13, SeqEqual
<1> QED
  BY <1>14 DEF left, right, mid, before, behind, past, Splice

LEMMA WriteImplements ==
    ASSUME IInv, NEW d \in Descriptors, NEW chunk \in Chunks, Write(d, chunk)
    PROVE  [Store!Next]_(Store!vars)
<1> DEFINE i == s_fd_table[d].node
           offset == s_fd_table[d].offset
           w == Written(nodes[i], offset, chunk)
           e == nodes[i]
<1>1. nodes \in Seq(Node) /\ TableOK
  BY Parts
<1>2. nodes' = [nodes EXCEPT ![i] = w] /\ Move(d, Len(chunk)) /\ got' = got
  BY Zenon DEF Write
<1>3. i # NULL /\ i \in DOMAIN nodes /\ offset \in Nat
  BY <1>1, SMT DEF Write, TableOK
<1>4. chunk \in Seq(Byte) /\ Len(chunk) \in Nat
  <2>1. chunk \in Seq(Data) /\ Data \subseteq Byte
    BY VfsAssumption DEF Byte
  <2> QED
    BY <2>1, SMT
<1>5. e \in Node /\ e.length <= Len(e.data)
  <2>1. nodes[i] \in Node
    BY <1>1, <1>3, SMT
  <2> QED
    BY <1>3, <2>1, Parts, Zenon DEF NodeOK
<1>6. Filled(e, offset, chunk, w)
  <2>1. w = Written(e, offset, chunk)
    OBVIOUS
  <2> HIDE DEF w, i, offset, e
  <2> QED
    BY <1>3, <1>5, <2>1, WrittenFills
<1>7. w \in Node /\ w.kind = e.kind
  BY <1>6, Zenon DEF Filled
<1> HIDE DEF w
<1>8. /\ DOMAIN nodes' = DOMAIN nodes
      /\ \A k \in DOMAIN nodes : nodes'[k] = IF k = i THEN w ELSE nodes[k]
  BY <1>2, <1>3, Zenon
<1>9. FileNodes' = FileNodes
  BY <1>7, <1>8, ZenonT(40) DEF FileNodes, IsFile
<1>10. Positions' = IF i \in FileNodes THEN [Positions EXCEPT ![d].at = offset + Len(chunk)]
                    ELSE Positions
  BY <1>2, <1>4, <1>9, PositionMoved
<1>11. Contents' = [k \in FileNodes |-> IF k = i THEN SubSeq(w.data, 1, w.length)
                                        ELSE Contents[k]]
  BY <1>8, <1>9, Zenon DEF Contents, FileNodes
<1>12. CASE i \in FileNodes
  <2> DEFINE bytes == Contents[i]
             past == offset + Len(chunk)
             spliced == SubSeq(bytes, 1, offset) \o chunk \o SubSeq(bytes, past + 1, Len(bytes))
  <2>1. e.kind = "file" /\ offset <= e.length
    BY <1>3, <1>12, Parts, Zenon DEF FileNodes, IsFile, DescriptorOK
  <2>2. bytes = SubSeq(e.data, 1, e.length)
    BY <1>12, Zenon DEF Contents
  <2>3. /\ w.length <= Len(w.data)
        /\ w.length = IF past > e.length THEN past ELSE e.length
        /\ \A j \in 1 .. w.length :
              w.data[j] = IF j \in (offset + 1) .. past THEN chunk[j - offset] ELSE e.data[j]
    BY <1>6, <2>1, Zenon DEF Filled, LengthAfter
  <2>4. /\ e.data \in Seq(Byte) /\ e.length \in Nat
        /\ w.data \in Seq(Byte) /\ w.length \in Nat
    BY <1>5, <1>7, NodeShape
  <2>5. SubSeq(w.data, 1, w.length) = spliced
    <3> DEFINE data == e.data
               length == e.length
               new == w.data
               longer == w.length
               at == offset
    <3>1. data \in Seq(Byte) /\ length \in Nat /\ length <= Len(data)
      BY <1>5, <2>4
    <3>2. new \in Seq(Byte) /\ longer \in Nat /\ longer <= Len(new)
      BY <2>3, <2>4
    <3>3. at \in Nat /\ at <= length
      BY <1>3, <2>1
    <3>4. longer = IF at + Len(chunk) > length THEN at + Len(chunk) ELSE length
      BY <2>3
    <3>5. \A j \in 1 .. longer :
             new[j] = IF j \in (at + 1) .. (at + Len(chunk)) THEN chunk[j - at] ELSE data[j]
      BY <2>3
    <3>6. bytes = SubSeq(data, 1, length)
      BY <2>2
    <3> HIDE DEF data, length, new, longer, at
    <3>7. IsSpliced(data, length, new, longer, at, chunk)
      BY <1>4, <3>1, <3>2, <3>3, <3>4, <3>5, Zenon DEF IsSpliced
    <3>8. SubSeq(new, 1, longer) = Splice(bytes, at, chunk)
      BY <3>6, <3>7, Spliced
    <3> QED
      BY <3>8 DEF new, longer, at, Splice
  <2>6. DOMAIN Contents = FileNodes
    BY Zenon DEF Contents
  <2> HIDE DEF spliced
  <2>7. Contents' = [Contents EXCEPT ![i] = spliced]
    BY <1>11, <2>5, <2>6, Zenon
  <2>8. /\ Positions[d] # NULL /\ Positions[d].file = i /\ Positions[d].at = offset
    BY <1>12, PositionValues
  <2>9. Positions' = [Positions EXCEPT ![d].at = past]
    BY <1>10, <1>12
  <2>10. spliced = SubSeq(bytes, 1, offset) \o chunk \o SubSeq(bytes, past + 1, Len(bytes))
    BY DEF spliced
  <2> HIDE DEF i, offset
  <2>11. Store!Write(d, chunk)
    BY <1>2, <2>7, <2>8, <2>9, <2>10, Zenon DEF Store!Write
  <2> QED
    BY <2>11, Zenon DEF Store!Next
<1>13. CASE i \notin FileNodes
  <2>1. Contents' = Contents
    BY <1>11, <1>13, Zenon DEF Contents
  <2> QED
    BY <1>2, <1>10, <1>13, <2>1, Zenon DEF Store!vars
<1> QED
  BY <1>12, <1>13

LEMMA StepImplements == IInv /\ [Next]_vars => [Store!Next]_(Store!vars)
<1> SUFFICES ASSUME IInv, [Next]_vars PROVE [Store!Next]_(Store!vars)
  OBVIOUS
<1>1. ASSUME NEW p \in DOMAIN nodes, NEW name \in Names, CreateDir(p, name)
      PROVE  UNCHANGED Store!vars
  <2> DEFINE e == Entry(name, "dir", <<>>)
  <2>1. Fresh(e) /\ Create(p, e) /\ e.kind # "file"
    BY <1>1, FreshEntry, Zenon DEF CreateDir, Entry
  <2> HIDE DEF e
  <2>2. Grew(<<e>>) /\ UNCHANGED <<s_fd_table, got>>
    BY <2>1, CreateStep DEF Create
  <2>3. Len(<<e>>) \in Nat /\ \A j \in 1 .. Len(<<e>>) : <<e>>[j].kind # "file"
    BY <2>1, SMT
  <2> QED
    BY <2>2, <2>3, NoFileMade, Zenon DEF Store!vars
<1>2. ASSUME NEW p \in DOMAIN nodes, NEW name \in Names,
             NEW content \in Chunks \cup {<<>>}, CreateFile(p, name, content)
      PROVE  Store!Next
  <2> DEFINE e == Entry(name, "file", content)
  <2>1. Fresh(e) /\ Create(p, e) /\ e.kind = "file" /\ e.data = content /\ e.length = Len(content)
    BY <1>2, FreshEntry, Zenon DEF CreateFile, Entry
  <2> HIDE DEF e
  <2>2. Grew(<<e>>) /\ UNCHANGED <<s_fd_table, got>>
    BY <2>1, CreateStep DEF Create
  <2>3. Store!Create(Len(nodes) + 1, content)
    BY <2>1, <2>2, FileMade
  <2>4. Len(nodes) + 1 \in 1 .. MaxNodes
    <3>1. nodes \in Seq(Node) /\ MaxNodes \in Nat /\ Len(nodes) < MaxNodes
      BY <2>1, Parts, VfsAssumption DEF Create
    <3> QED
      BY <3>1, SMT
  <2> QED
    BY <2>3, <2>4, Zenon DEF Store!Next
<1>3. ASSUME NEW p \in DOMAIN nodes, DevfsInit(p)
      PROVE  UNCHANGED Store!vars
  <2>1. PICK added : /\ Len(added) \in Nat
                     /\ \A j \in 1 .. Len(added) : added[j].kind # "file"
                     /\ Grew(added)
    BY <1>3, DevfsInitStep
  <2>2. UNCHANGED <<s_fd_table, got>>
    BY <1>3 DEF DevfsInit
  <2> QED
    BY <2>1, <2>2, NoFileMade, Zenon DEF Store!vars
<1>4. ASSUME NEW path \in Paths, Open(path)
      PROVE  [Store!Next]_(Store!vars)
  BY <1>4, OpenImplements
<1>5. ASSUME NEW d \in Descriptors, Close(d)
      PROVE  Store!Next
  BY <1>5, CloseImplements
<1>6. ASSUME NEW d \in Descriptors, NEW n \in Counts, Read(d, n)
      PROVE  [Store!Next]_(Store!vars)
  BY <1>6, ReadImplements
<1>7. ASSUME NEW d \in Descriptors, NEW chunk \in Chunks, Write(d, chunk)
      PROVE  [Store!Next]_(Store!vars)
  BY <1>7, WriteImplements
<1>8. ASSUME UNCHANGED vars
      PROVE  UNCHANGED Store!vars
  BY <1>8, Zenon DEF vars, Store!vars, Contents, Positions, Position, FileNodes, IsFile
<1> QED
  BY <1>1, <1>2, <1>3, <1>4, <1>5, <1>6, <1>7, <1>8, Zenon DEF Next

(***************************************************************************)
(* The descriptor table over the RAM file system implements the store of   *)
(* byte sequences: whatever is opened, closed, read and written in which   *)
(* order, a read of a regular file returns the bytes that follow those its *)
(* descriptor has passed (vfs.c:40-87, ramfs.c:13-40).                     *)
(***************************************************************************)
THEOREM Implementation == Spec => ImplementsFileStore
<1>1. Init => Store!Init
  <2> SUFFICES ASSUME Init PROVE Store!Init
    OBVIOUS
  <2>1. DOMAIN nodes = {1} /\ nodes[1].kind = "dir"
    BY SMT DEF Init, Entry
  <2>2. FileNodes = {}
    BY <2>1, Zenon DEF FileNodes, IsFile
  <2>3. Contents = [f \in {} |-> <<>>]
    BY <2>2, Zenon DEF Contents
  <2>4. Positions = [d \in Descriptors |-> NULL]
    BY <2>2, Zenon DEF Positions, Position
  <2> QED
    BY <2>3, <2>4, Zenon DEF Store!Init, Init
<1> QED
  BY <1>1, StepImplements, Invariance, PTL DEF Spec, Store!Spec, ImplementsFileStore

-----------------------------------------------------------------------------
(***************************************************************************)
(* Paths.  Lookup is asked of two trees, the one before and the one after  *)
(* a step, so it is taken here as a function of the tree.                  *)
(***************************************************************************)
NamedIn(ns, p, name) ==
    {j \in DOMAIN ns[p].children : ns[ns[p].children[j]].name = name}

Child(ns, p, name) ==
    IF p = NULL THEN NULL
    ELSE IF ns[p].kind # "dir" THEN NULL
    ELSE IF NamedIn(ns, p, name) = {} THEN NULL
    ELSE ns[p].children[Min(NamedIn(ns, p, name))]

(* f lists the nodes along the first m names of a path, from the root on. *)
Along(ns, path, m, f) ==
    f = [n \in 0 .. m |-> IF n = 0 THEN Root ELSE Child(ns, f[n - 1], path[n])]

Reached(ns, path) == (CHOOSE f : Along(ns, path, Len(path), f))[Len(path)]

LEMMA LookupReaches ==
    ASSUME NEW path
    PROVE  Lookup(path) = Reached(nodes, path) /\ Lookup(path)' = Reached(nodes', path)
<1>1. Lookup(path) = Reached(nodes, path)
  BY Zenon DEF Lookup, Reached, Along, Child, Finddir, Named, NamedIn
<1>2. Lookup(path)' = Reached(nodes', path)
  BY Zenon DEF Lookup, Reached, Along, Child, Finddir, Named, NamedIn
<1> QED
  BY <1>1, <1>2

(* What one tree has, the later one has, name for name. *)
TreeOK(ns) ==
    \A i \in DOMAIN ns :
        \A j \in DOMAIN ns[i].children : ns[i].children[j] \in DOMAIN ns

GrownTree(ns, ms) ==
    /\ DOMAIN ns \subseteq DOMAIN ms
    /\ \A i \in DOMAIN ns : Outgrows(ms[i], ns[i])

(* A set of numbers that is not empty has a least one. *)
LEMMA LeastOf ==
    ASSUME NEW S, S \subseteq Nat, S # {}
    PROVE  \E a \in S : \A y \in S : a <= y
<1>1. PICK a \in S : \A y \in Nat : <<y, a>> \in OpToRel(<, Nat) => y \notin S
  BY NatLessThanWellFounded, WFMin
<1>2. ASSUME NEW y \in S PROVE a <= y
  <2>1. y \in Nat /\ a \in Nat /\ ~(y < a)
    BY <1>1, Zenon DEF OpToRel
  <2> QED
    BY <2>1, SMT
<1> QED
  BY <1>2

(* The first of the children of a name stays the first. *)
LEMMA ChildKept ==
    ASSUME NEW ns, NEW ms, TreeOK(ns), GrownTree(ns, ms),
           NEW p \in DOMAIN ns \cup {NULL}, NEW name, Child(ns, p, name) # NULL,
           \A i \in DOMAIN ns : DOMAIN ns[i].children \subseteq Nat,
           \A i \in DOMAIN ns : DOMAIN ms[i].children \subseteq Nat
    PROVE  /\ Child(ns, p, name) \in DOMAIN ns
           /\ Child(ms, p, name) = Child(ns, p, name)
<1> DEFINE A == NamedIn(ns, p, name)
           B == NamedIn(ms, p, name)
<1>1. /\ p # NULL /\ p \in DOMAIN ns /\ ns[p].kind = "dir" /\ A # {}
      /\ Child(ns, p, name) = ns[p].children[Min(A)]
  BY Zenon DEF Child
<1>2. Outgrows(ms[p], ns[p])
  BY <1>1, Zenon DEF GrownTree
<1>3. ASSUME NEW j \in DOMAIN ns[p].children
      PROVE  j \in A <=> j \in B
  <2> DEFINE c == ns[p].children[j]
  <2>1. c \in DOMAIN ns /\ ms[p].children[j] = c /\ j \in DOMAIN ms[p].children
    BY <1>1, <1>2, Zenon DEF TreeOK, Outgrows
  <2>2. ms[c].name = ns[c].name
    BY <2>1, Zenon DEF GrownTree, Outgrows
  <2> QED
    BY <2>1, <2>2, Zenon DEF NamedIn
<1>4. A \subseteq DOMAIN ns[p].children /\ B \subseteq DOMAIN ms[p].children
  BY Zenon DEF NamedIn
<1>5. A \subseteq B /\ \A j \in A : \A m \in B \ A : j <= m
  BY <1>2, <1>3, <1>4, Zenon DEF Outgrows
<1>6. A \subseteq Nat /\ B \subseteq Nat
  BY <1>1, <1>4, Zenon
<1> HIDE DEF A, B
<1>7. Min(A) \in A /\ Min(B) = Min(A)
  <2>1. PICK a \in A : \A y \in A : a <= y
    BY <1>1, <1>6, LeastOf
  <2>2. \A y \in B : a <= y
    BY <1>5, <2>1, Zenon
  <2>3. ASSUME NEW S, S \subseteq Nat, a \in S, \A y \in S : a <= y
        PROVE  Min(S) = a
    <3>1. Min(S) \in S /\ \A y \in S : Min(S) <= y
      BY <2>3, Zenon DEF Min
    <3>2. Min(S) <= a /\ a <= Min(S) /\ a \in Nat /\ Min(S) \in Nat
      BY <2>3, <3>1, Zenon
    <3> QED
      BY <3>2, SMT
  <2>4. Min(A) = a
    BY <1>6, <2>1, <2>3
  <2>5. Min(B) = a
    BY <1>5, <1>6, <2>1, <2>2, <2>3
  <2> QED
    BY <2>1, <2>4, <2>5
<1>8. ms[p].children[Min(A)] = ns[p].children[Min(A)] /\ ns[p].children[Min(A)] \in DOMAIN ns
  BY <1>1, <1>2, <1>4, <1>7, Zenon DEF Outgrows, TreeOK
<1>9. B # {} /\ ms[p].kind = "dir"
  BY <1>1, <1>2, <1>5, Zenon DEF Outgrows
<1>10. Child(ms, p, name) = ms[p].children[Min(B)]
  BY <1>1, <1>9, Zenon DEF Child, B
<1> QED
  BY <1>1, <1>7, <1>8, <1>10, Zenon

LEMMA InductionTo ==
    ASSUME NEW S, 0 \in S, \A n \in Nat : n \in S => n + 1 \in S
    PROVE  Nat \subseteq S
<1> DEFINE K == Nat \ S
<1>1. SUFFICES ASSUME K # {} PROVE FALSE
  OBVIOUS
<1>2. PICK m \in K : \A y \in K : m <= y
  <2>1. K \subseteq Nat
    OBVIOUS
  <2> HIDE DEF K
  <2> QED
    BY <1>1, <2>1, LeastOf
<1>3. m \in Nat /\ m # 0 /\ m \notin S
  OBVIOUS
<1>4. m - 1 \in Nat /\ ~(m <= m - 1) /\ (m - 1) + 1 = m
  BY <1>3, SMT
<1>5. m - 1 \in S
  BY <1>2, <1>4, Zenon
<1> QED
  BY <1>3, <1>4, <1>5, Zenon

(* Every path can be followed: the nodes along it are defined. *)
LEMMA AlongDefined ==
    ASSUME NEW ns, NEW path, NEW m \in Nat
    PROVE  \E f : Along(ns, path, m, f)
<1> DEFINE S == {k \in Nat : \E f : Along(ns, path, k, f)}
<1>1. 0 \in S
  <2>1. 0 .. 0 = {0}
    BY SMT
  <2> DEFINE f == [n \in 0 .. 0 |-> Root]
  <2>2. Along(ns, path, 0, f)
    BY <2>1, Zenon DEF Along
  <2> QED
    BY <2>2
<1>2. ASSUME NEW k \in Nat, k \in S
      PROVE  k + 1 \in S
  <2>1. PICK f : Along(ns, path, k, f)
    BY <1>2
  <2> DEFINE g == [n \in 0 .. (k + 1) |-> IF n = k + 1 THEN Child(ns, f[k], path[k + 1]) ELSE f[n]]
  <2>2. f = [n \in 0 .. k |-> IF n = 0 THEN Root ELSE Child(ns, f[n - 1], path[n])]
    BY <2>1, Zenon DEF Along
  <2>3. \A n \in 0 .. k : f[n] = IF n = 0 THEN Root ELSE Child(ns, f[n - 1], path[n])
    BY <2>2, Zenon
  <2>4. \A n \in 0 .. (k + 1) : n = k + 1 \/ (n \in 0 .. k /\ n # k + 1)
    BY SMT
  <2>5. \A n \in 0 .. (k + 1) : n # 0 => n - 1 \in 0 .. (k + 1) /\ n - 1 # k + 1
    BY SMT
  <2>6. k + 1 # 0 /\ (k + 1) - 1 = k
    BY SMT
  <2>7. \A n \in 0 .. (k + 1) : g[n] = IF n = k + 1 THEN Child(ns, f[k], path[k + 1]) ELSE f[n]
    BY Zenon
  <2>8. ASSUME NEW n \in 0 .. (k + 1)
        PROVE  g[n] = IF n = 0 THEN Root ELSE Child(ns, g[n - 1], path[n])
    <3>1. n # 0 => g[n - 1] = f[n - 1]
      BY <2>5, <2>7, Zenon
    <3>2. CASE n = k + 1
      <4>1. n # 0 /\ n - 1 = k
        BY <2>6, <3>2
      <4>2. g[n] = Child(ns, f[k], path[n])
        BY <2>7, <3>2, Zenon
      <4> QED
        BY <3>1, <4>1, <4>2, Zenon
    <3>3. CASE n \in 0 .. k /\ n # k + 1
      BY <2>3, <2>7, <3>1, <3>3, Zenon
    <3> QED
      BY <2>4, <3>2, <3>3
  <2>9. g = [n \in 0 .. (k + 1) |-> IF n = 0 THEN Root ELSE Child(ns, g[n - 1], path[n])]
    <3>1. DOMAIN g = 0 .. (k + 1) /\ g = [n \in 0 .. (k + 1) |-> g[n]]
      BY Zenon
    <3> HIDE DEF g
    <3> QED
      BY <2>8, <3>1, Zenon
  <2> HIDE DEF g
  <2>10. Along(ns, path, k + 1, g)
    BY <2>9, Zenon DEF Along
  <2> QED
    BY <2>10
<1> HIDE DEF S
<1>3. m \in S
  BY <1>1, <1>2, InductionTo
<1> QED
  BY <1>3 DEF S

(* g goes on where f leads, as long as f leads anywhere. *)
Follows(ns, m, g, f) ==
    \A n \in 0 .. m : f[n] # NULL => f[n] \in DOMAIN ns /\ g[n] = f[n]

(* What a path reaches in a tree it reaches in a tree that grew from it. *)
LEMMA AlongKept ==
    ASSUME NEW ns, NEW ms, TreeOK(ns), GrownTree(ns, ms),
           Root \in DOMAIN ns, NULL \notin DOMAIN ns,
           \A i \in DOMAIN ns : DOMAIN ns[i].children \subseteq Nat,
           \A i \in DOMAIN ns : DOMAIN ms[i].children \subseteq Nat,
           NEW path, NEW m \in Nat,
           NEW f, Along(ns, path, m, f), NEW g, Along(ms, path, m, g)
    PROVE  Follows(ns, m, g, f)
<1> DEFINE Kept(n) == f[n] # NULL => f[n] \in DOMAIN ns /\ g[n] = f[n]
           S == {n \in Nat : n \in 0 .. m => Kept(n)}
<1>1. /\ \A n \in 0 .. m : f[n] = IF n = 0 THEN Root ELSE Child(ns, f[n - 1], path[n])
      /\ \A n \in 0 .. m : g[n] = IF n = 0 THEN Root ELSE Child(ms, g[n - 1], path[n])
  BY Zenon DEF Along
<1>2. 0 \in S
  BY <1>1, Zenon
<1>3. ASSUME NEW k \in Nat, k \in S
      PROVE  k + 1 \in S
  <2>1. SUFFICES ASSUME k + 1 \in 0 .. m, f[k + 1] # NULL
                 PROVE  f[k + 1] \in DOMAIN ns /\ g[k + 1] = f[k + 1]
    BY SMT
  <2>2. k + 1 # 0 /\ (k + 1) - 1 = k /\ k \in 0 .. m
    BY <2>1, SMT
  <2>3. f[k + 1] = Child(ns, f[k], path[k + 1]) /\ g[k + 1] = Child(ms, g[k], path[k + 1])
    BY <1>1, <2>1, <2>2, Zenon
  <2>4. f[k] # NULL
    BY <2>1, <2>3, Zenon DEF Child
  <2>5. f[k] \in DOMAIN ns /\ g[k] = f[k]
    BY <1>3, <2>2, <2>4, Zenon
  <2>6. /\ Child(ns, f[k], path[k + 1]) \in DOMAIN ns
        /\ Child(ms, f[k], path[k + 1]) = Child(ns, f[k], path[k + 1])
    <3>1. f[k] \in DOMAIN ns \cup {NULL} /\ Child(ns, f[k], path[k + 1]) # NULL
      BY <2>1, <2>3, <2>5
    <3> QED
      BY <3>1, ChildKept
  <2> QED
    BY <2>3, <2>5, <2>6, Zenon
<1>4. \A n \in Nat : n \in S
  <2> HIDE DEF S
  <2> QED
    BY <1>2, <1>3, InductionTo
<1>5. \A n \in 0 .. m : n \in Nat
  BY SMT
<1> QED
  BY <1>4, <1>5, Zenon DEF Follows

LEMMA ReachedKept ==
    ASSUME NEW ns, NEW ms, TreeOK(ns), GrownTree(ns, ms),
           Root \in DOMAIN ns, NULL \notin DOMAIN ns,
           \A i \in DOMAIN ns : DOMAIN ns[i].children \subseteq Nat,
           \A i \in DOMAIN ns : DOMAIN ms[i].children \subseteq Nat,
           NEW path, Len(path) \in Nat, Reached(ns, path) # NULL
    PROVE  Reached(ms, path) = Reached(ns, path)
<1> DEFINE m == Len(path)
           f == CHOOSE x : Along(ns, path, m, x)
           g == CHOOSE x : Along(ms, path, m, x)
<1>1. Reached(ns, path) = f[m] /\ Reached(ms, path) = g[m]
  BY Zenon DEF Reached
<1>2. m \in Nat /\ m \in 0 .. m
  BY SMT
<1>3. Along(ns, path, m, f) /\ Along(ms, path, m, g)
  <2>1. (\E x : Along(ns, path, m, x)) /\ (\E x : Along(ms, path, m, x))
    BY <1>2, AlongDefined
  <2> QED
    BY <2>1, Zenon
<1> HIDE DEF f, g, m
<1>4. Follows(ns, m, g, f)
  BY <1>2, <1>3, AlongKept
<1> QED
  BY <1>1, <1>2, <1>4, Zenon DEF Follows

(* The tree only grows: every step of the file system keeps what is in it. *)
LEMMA StepGrows ==
    ASSUME IInv, [Next]_vars
    PROVE  GrownTree(nodes, nodes')
<1>1. nodes \in Seq(Node)
  BY Parts
<1>2. ASSUME nodes' = nodes
      PROVE  GrownTree(nodes, nodes')
  BY <1>2, NotGrown, Zenon DEF GrownTree
<1>3. ASSUME NEW added, Len(added) \in Nat, Grew(added)
      PROVE  GrownTree(nodes, nodes')
  BY <1>3, GrewDomain, Zenon DEF GrownTree, Grew
<1>4. ASSUME NEW p \in DOMAIN nodes, NEW e, Fresh(e), Create(p, e)
      PROVE  GrownTree(nodes, nodes')
  <2>1. Grew(<<e>>) /\ Len(<<e>>) = 1 /\ 1 \in Nat
    BY <1>4, CreateStep, SMT
  <2> QED
    BY <1>3, <2>1
<1>5. ASSUME NEW p \in DOMAIN nodes, NEW name \in Names, CreateDir(p, name)
      PROVE  GrownTree(nodes, nodes')
  BY <1>4, <1>5, FreshEntry, Zenon DEF CreateDir
<1>6. ASSUME NEW p \in DOMAIN nodes, NEW name \in Names,
             NEW content \in Chunks \cup {<<>>}, CreateFile(p, name, content)
      PROVE  GrownTree(nodes, nodes')
  BY <1>4, <1>6, FreshEntry, Zenon DEF CreateFile
<1>7. ASSUME NEW p \in DOMAIN nodes, DevfsInit(p)
      PROVE  GrownTree(nodes, nodes')
  BY <1>3, <1>7, DevfsInitStep
<1>8. ASSUME NEW d \in Descriptors, NEW chunk \in Chunks, Write(d, chunk)
      PROVE  GrownTree(nodes, nodes')
  BY <1>8, WriteStep, Zenon DEF GrownTree
<1>9. ASSUME NEW path \in Paths, Open(path)
      PROVE  nodes' = nodes
  BY <1>9, Zenon DEF Open
<1>10. ASSUME NEW d \in Descriptors, Close(d)
       PROVE  nodes' = nodes
  BY <1>10, Zenon DEF Close
<1>11. ASSUME NEW d \in Descriptors, NEW n \in Counts, Read(d, n)
       PROVE  nodes' = nodes
  BY <1>11, Zenon DEF Read
<1>12. ASSUME UNCHANGED vars
       PROVE  nodes' = nodes
  BY <1>12, Zenon DEF vars
<1> QED
  BY <1>2, <1>5, <1>6, <1>7, <1>8, <1>9, <1>10, <1>11, <1>12, Zenon DEF Next

(* The root is never lost. *)
HasRoot == Root \in DOMAIN nodes

LEMMA RootKept == Spec => []HasRoot
<1>1. Init => HasRoot
  BY SMT DEF Init, HasRoot, Root
<1>2. IInv /\ HasRoot /\ [Next]_vars => HasRoot'
  BY StepGrows, Zenon DEF GrownTree, HasRoot
<1> QED
  BY <1>1, <1>2, Invariance, PTL DEF Spec

LEMMA LookupKept ==
    ASSUME IInv, IInv', HasRoot, [Next]_vars,
           NEW path, Len(path) \in Nat, Lookup(path) # NULL
    PROVE  Lookup(path)' = Lookup(path)
<1>1. GrownTree(nodes, nodes')
  BY StepGrows
<1>2. nodes \in Seq(Node) /\ nodes' \in Seq(Node) /\ \A i \in DOMAIN nodes : NodeOK(i)
  BY Parts, PartsNext
<1>3. DOMAIN nodes \subseteq Nat /\ NULL \notin DOMAIN nodes /\ Root \in DOMAIN nodes
  BY <1>2, VfsAssumption, SMT DEF HasRoot
<1>4. TreeOK(nodes)
  <2>1. ASSUME NEW i \in DOMAIN nodes, NEW j \in DOMAIN nodes[i].children
        PROVE  nodes[i].children[j] \in DOMAIN nodes
    <3>1. nodes[i].children[j] \in (i + 1) .. Len(nodes) /\ i \in Nat
      BY <1>2, <1>3, <2>1, Zenon DEF NodeOK
    <3> QED
      BY <1>2, <3>1, SMT
  <2> QED
    BY <2>1, Zenon DEF TreeOK
<1>5. /\ \A i \in DOMAIN nodes : DOMAIN nodes[i].children \subseteq Nat
      /\ \A i \in DOMAIN nodes : DOMAIN nodes'[i].children \subseteq Nat
  <2>1. \A e \in Node : DOMAIN e.children \subseteq Nat
    <3>1. \A c \in Seq(Nat) : DOMAIN c \subseteq Nat
      BY SMT
    <3> QED
      BY <3>1, NodeShape, Zenon
  <2>2. DOMAIN nodes \subseteq DOMAIN nodes'
    BY <1>1, Zenon DEF GrownTree
  <2>3. (\A i \in DOMAIN nodes : nodes[i] \in Node) /\ (\A i \in DOMAIN nodes' : nodes'[i] \in Node)
    BY <1>2, SMT
  <2> QED
    BY <2>1, <2>2, <2>3, Zenon
<1>6. Lookup(path) = Reached(nodes, path) /\ Lookup(path)' = Reached(nodes', path)
  BY LookupReaches
<1>7. Reached(nodes, path) # NULL
  BY <1>6
<1>8. Reached(nodes', path) = Reached(nodes, path)
  BY <1>1, <1>3, <1>4, <1>5, <1>7, ReachedKept
<1> QED
  BY <1>6, <1>8

(***************************************************************************)
(* However many nodes are made, under whatever names, and however many     *)
(* devices: a path that denotes a node denotes it for good (vfs.c:13-38).  *)
(* LookupKept says so of a path of any length.                             *)
(***************************************************************************)
THEOREM PathsStableCorrect == Spec => PathsStable
<1>1. \A path \in Paths : Len(path) \in Nat
  <2>1. \A n \in 0 .. 2 : n \in Nat
    BY SMT
  <2>2. ASSUME NEW n \in Nat, NEW S, NEW path \in [1 .. n -> S]
        PROVE  Len(path) \in Nat
    <3>1. path \in Seq(S)
      BY SMT
    <3> QED
      BY <3>1, SMT
  <2> QED
    BY <2>1, <2>2, Zenon DEF Paths
<1>2. IInv /\ IInv' /\ HasRoot /\ [Next]_vars
         => [\A path \in Paths : Lookup(path) # NULL => Lookup(path)' = Lookup(path)]_vars
  BY <1>1, LookupKept
<1> QED
  BY <1>2, Invariance, RootKept, PTL DEF Spec, PathsStable
===============================================================================
