----------------------------- MODULE HeapProofs -----------------------------
(***************************************************************************)
(* The free list of Heap is a tiling of the arena, whatever the size of    *)
(* the arena and whatever is asked of it.  The inductive invariant is the  *)
(* conjunction of the invariants the run checks: no part of it is          *)
(* inductive alone, because a merge or a split keeps the tiling only if    *)
(* the cursor stands on a live block, and the cursor is on a live block    *)
(* only if every next pointer leads to one.                                *)
(***************************************************************************)
EXTENDS Heap, TLAPS

IInv == TypeOK /\ Tiling /\ HeldBlocks /\ Coalesced /\ CursorOK

USE DEF Hdr, Align, Slack

(* Rounding up leaves a caller its bytes and keeps every header aligned. *)
LEMMA Rounding ==
    ASSUME NEW n \in Nat
    PROVE  /\ AlignUp(n) \in Nat
           /\ AlignUp(n) >= n
           /\ AlignUp(n) % 8 = 0
  BY SMT DEF AlignUp

LEMMA SumsOfEights ==
    ASSUME NEW m \in Int, NEW n \in Int, m % 8 = 0, n % 8 = 0
    PROVE  (m + 24 + n) % 8 = 0 /\ (m - n - 24) % 8 = 0
  BY SMT

(* What heap_init leaves satisfies the invariant. *)
LEMMA InitOK == Init => IInv
  BY HeapAssumption, SMT
  DEF Init, IInv, TypeOK, Tiling, HeldBlocks, Coalesced, CursorOK, Chained,
      Disjoint, Covered, AlignedBlocks, Blocks, End, Mergeable, Fits, Header

(* The facts about one block that every step below starts from. *)
LEMMA BlockFacts ==
    ASSUME IInv, NEW b \in Blocks
    PROVE  /\ b \in Nat
           /\ hdr[b] \in Header
           /\ hdr[b].size \in Nat
           /\ hdr[b].is_free \in BOOLEAN
           /\ End(b) \in Nat
           /\ b + 24 <= End(b)
           /\ End(b) <= HeapBytes
           /\ hdr[b].next = NULL <=> End(b) = HeapBytes
           /\ hdr[b].next # NULL => hdr[b].next = End(b) /\ End(b) \in Blocks
  BY HeapAssumption, SMT
  DEF IInv, TypeOK, Tiling, Chained, Blocks, End, Header

(* Setting the flag of one block changes nothing else. *)
LEMMA FlagFacts ==
    ASSUME IInv, NEW b \in Blocks, NEW f \in BOOLEAN,
           hdr' = [hdr EXCEPT ![b].is_free = f]
    PROVE  /\ Blocks' = Blocks
           /\ hdr' \in [Blocks -> Header]
           /\ \A c \in Blocks : hdr'[c].size = hdr[c].size
           /\ \A c \in Blocks : hdr'[c].next = hdr[c].next
           /\ \A c \in Blocks : c # b => hdr'[c].is_free = hdr[c].is_free
           /\ hdr'[b].is_free = f
<1>1. hdr \in [Blocks -> Header]
  BY DEF IInv, TypeOK
<1>2. Blocks' = Blocks /\ hdr' \in [Blocks -> Header]
  BY <1>1, SMT DEF Blocks, Header
<1>3. hdr'[b].is_free = f
  BY <1>1, SMT DEF Header
<1>4. \A c \in Blocks : hdr'[c].size = hdr[c].size
  BY <1>1, SMT DEF Header
<1>5. \A c \in Blocks : hdr'[c].next = hdr[c].next
  BY <1>1, SMT DEF Header
<1>6. \A c \in Blocks : c # b => hdr'[c].is_free = hdr[c].is_free
  BY <1>1, SMT DEF Header
<1> QED
  BY <1>2, <1>3, <1>4, <1>5, <1>6, Zenon

(* The tiling is a matter of sizes and next pointers only. *)
LEMMA SameShape ==
    ASSUME IInv, Blocks' = Blocks,
           \A b \in Blocks : hdr'[b].size = hdr[b].size,
           \A b \in Blocks : hdr'[b].next = hdr[b].next
    PROVE  Tiling'
<1>1. Chained'
  BY SMT DEF IInv, Tiling, Chained, End
<1>2. Disjoint'
  BY SMT DEF IInv, Tiling, Disjoint, End
<1>3. Covered'
  BY SMT DEF IInv, Tiling, Covered, End
<1>4. AlignedBlocks'
  BY SMT DEF IInv, Tiling, AlignedBlocks
<1> QED
  BY <1>1, <1>2, <1>3, <1>4 DEF Tiling

(* A step that leaves the list alone keeps what is said of it. *)
LEMMA SameList ==
    ASSUME IInv, hdr' = hdr
    PROVE  /\ Tiling'
           /\ held' = held => HeldBlocks'
<1>1. Blocks' = Blocks
  BY DEF Blocks
<1>2. Tiling'
  BY <1>1, SameShape
<1>3. held' = held => HeldBlocks'
  BY <1>1, Zenon DEF IInv, HeldBlocks
<1> QED
  BY <1>2, <1>3

(* A call of kmalloc starts at s_head, having passed nothing. *)
LEMMA KmallocCallOK ==
    ASSUME IInv, NEW n \in Requests, KmallocCall(n)
    PROVE  IInv'
<1> USE HeapAssumption DEF IInv
<1>1. TypeOK'
  BY SMT DEF KmallocCall, TypeOK, Blocks
<1>2. Tiling'
  BY SameList DEF KmallocCall
<1>3. HeldBlocks'
  BY SameList DEF KmallocCall
<1>4. Coalesced'
  BY Zenon DEF KmallocCall, Coalesced, Blocks, Mergeable
<1>5. CursorOK'
  BY SMT DEF KmallocCall, CursorOK, Blocks, Tiling, Chained, TypeOK
<1> QED
  BY <1>1, <1>2, <1>3, <1>4, <1>5

(* The block passed over does not fit, so none before its successor does. *)
LEMMA KmallocSkipOK ==
    ASSUME IInv, KmallocSkip
    PROVE  IInv'
<1> USE HeapAssumption DEF IInv
<1>0. curr \in Blocks /\ op = "kmalloc"
  BY DEF KmallocSkip, CursorOK
<1>1. TypeOK'
  BY <1>0, BlockFacts, SMT DEF KmallocSkip, TypeOK, Blocks
<1>2. Tiling'
  BY SameList DEF KmallocSkip
<1>3. HeldBlocks'
  BY SameList DEF KmallocSkip
<1>4. Coalesced'
  BY <1>0, SMT DEF KmallocSkip, Coalesced, Blocks, Mergeable
<1>5. CursorOK'
  <2>1. curr' \in Blocks \cup {NULL}
    BY <1>0, BlockFacts DEF KmallocSkip
  <2>2. ASSUME NEW b \in Blocks, curr' = NULL \/ b < curr'
        PROVE  ~Fits(b)
    <3>1. b = curr \/ b < curr
      BY <1>0, <2>2, BlockFacts, SMT DEF KmallocSkip, Tiling, Disjoint
    <3> QED
      BY <1>0, <3>1 DEF KmallocSkip, CursorOK
  <2> QED
    BY <1>0, <2>1, <2>2 DEF KmallocSkip, CursorOK, Blocks, Fits, size
<1> QED
  BY <1>1, <1>2, <1>3, <1>4, <1>5

(* The remainder of a split is a new block that fills the hole exactly. *)
LEMMA KmallocSplitOK ==
    ASSUME IInv, KmallocSplit
    PROVE  IInv'
<1> USE HeapAssumption DEF IInv
<1> DEFINE rest == curr + 24 + size
<1>1. /\ op = "kmalloc"
      /\ curr \in Blocks
      /\ hdr[curr].is_free
  BY DEF KmallocSplit, CursorOK, Fits
<1>2. /\ request \in Nat
      /\ size \in Nat
      /\ size % 8 = 0
      /\ request <= size
  BY Rounding DEF TypeOK, size
<1>3. /\ hdr[curr].size >= size + 56
      /\ rest \in Nat
      /\ rest + 24 < End(curr)
      /\ End(curr) = rest + 24 + (hdr[curr].size - size - 24)
  BY <1>1, <1>2, BlockFacts, SMT DEF KmallocSplit, Splittable, End
<1>4. rest \notin Blocks
  <2>1. ASSUME rest \in Blocks PROVE FALSE
    BY <1>1, <1>2, <1>3, <2>1, BlockFacts, SMT DEF Tiling, Disjoint
  <2> QED BY <2>1
<1>5. /\ Blocks' = Blocks \cup {rest}
      /\ hdr'[rest] = [size    |-> hdr[curr].size - size - 24,
                       is_free |-> TRUE,
                       next    |-> hdr[curr].next]
      /\ hdr'[curr] = [size |-> size, is_free |-> FALSE, next |-> rest]
      /\ \A b \in Blocks : b # curr => hdr'[b] = hdr[b]
      /\ hdr' = [b \in Blocks' |-> hdr'[b]]
  BY <1>1, <1>4, Zenon DEF KmallocSplit, Blocks
<1>6. /\ hdr'[rest].size = hdr[curr].size - size - 24
      /\ hdr'[rest].next = hdr[curr].next
      /\ hdr'[curr].size = size
      /\ hdr'[curr].next = rest
  BY <1>5
<1>7. /\ rest + 24 + hdr'[rest].size = End(curr)
       /\ curr + 24 + hdr'[curr].size = rest
       /\ \A b \in Blocks : b # curr => b + 24 + hdr'[b].size = End(b)
  BY <1>1, <1>2, <1>3, <1>5, <1>6, BlockFacts, SMT DEF End
<1>8. rest % 8 = 0 /\ (hdr[curr].size - size - 24) % 8 = 0
  <2>1. curr % 8 = 0 /\ hdr[curr].size % 8 = 0
    BY <1>1 DEF Tiling, AlignedBlocks
  <2>2. curr \in Int /\ hdr[curr].size \in Int /\ size \in Int
    BY <1>1, <1>2, BlockFacts
  <2>3. (curr + 24 + size) % 8 = 0
    BY <1>2, <2>1, <2>2, SumsOfEights
  <2>4. (hdr[curr].size - size - 24) % 8 = 0
    BY <1>2, <2>1, <2>2, SumsOfEights
  <2> QED BY <2>3, <2>4
<1> HIDE DEF rest
<1>9. /\ op' = "idle" /\ request' = 0 /\ curr' = NULL
      /\ DOMAIN held' = DOMAIN held \cup {curr + 24}
      /\ held'[curr + 24] = request
      /\ \A p \in DOMAIN held : p # curr + 24 => held'[p] = held[p]
      /\ held' = [p \in DOMAIN held' |-> held'[p]]
  BY Zenon DEF KmallocSplit, Return, Hand
<1>10. TypeOK'
  <2>1. \A b \in Blocks' : hdr'[b] \in Header
    <3>1. hdr'[rest] \in Header /\ hdr'[curr] \in Header
      BY <1>1, <1>2, <1>3, <1>5, BlockFacts, SMT DEF Header
    <3> QED BY <1>5, <3>1, BlockFacts
  <2>2. Blocks' \subseteq Nat /\ hdr' \in [Blocks' -> Header]
    BY <1>3, <1>5, <2>1, BlockFacts, Zenon DEF TypeOK
  <2>3. DOMAIN held' \subseteq Nat /\ held' \in [DOMAIN held' -> Nat]
    BY <1>1, <1>2, <1>9, BlockFacts, SMT DEF TypeOK
  <2> QED BY <1>9, <2>2, <2>3 DEF TypeOK, Blocks
<1>11. Tiling'
  <2>1. Chained'
    <3> SUFFICES ASSUME NEW b \in Blocks'
                 PROVE  \/ End(b)' = HeapBytes /\ hdr'[b].next = NULL
                        \/ /\ End(b)' < HeapBytes
                           /\ hdr'[b].next = End(b)'
                           /\ End(b)' \in Blocks'
      BY <1>5 DEF Tiling, Chained
    <3>1. CASE b = rest
      BY <1>1, <1>5, <1>6, <1>7, <3>1, SMT DEF Tiling, Chained, End
    <3>2. CASE b = curr
      BY <1>1, <1>3, <1>5, <1>6, <1>7, <3>2, BlockFacts, SMT DEF End
    <3>3. CASE b \in Blocks /\ b # curr
      BY <1>5, <1>7, <3>3, SMT DEF Tiling, Chained, End
    <3> QED BY <1>5, <3>1, <3>2, <3>3
  <2>2. Disjoint'
    <3> SUFFICES ASSUME NEW a \in Blocks', NEW b \in Blocks', a < b
                 PROVE  End(a)' <= b
      BY DEF Disjoint
    <3>1. CASE a \in Blocks /\ b \in Blocks
      BY <1>1, <1>3, <1>7, <3>1, BlockFacts, SMT DEF Tiling, Disjoint, End
    <3>2. CASE a = rest /\ b \in Blocks
      <4>1. curr < b
        BY <1>1, <1>3, <1>2, <3>2, BlockFacts, SMT DEF rest
      <4> QED
        BY <1>1, <1>7, <3>2, <4>1, SMT DEF Tiling, Disjoint, End
    <3>3. CASE a = curr /\ b = rest
      BY <1>3, <1>7, <3>3, SMT DEF End
    <3>4. CASE a \in Blocks /\ a # curr /\ b = rest
      <4>1. a < curr
        BY <1>1, <1>3, <3>4, BlockFacts, SMT DEF Tiling, Disjoint
      <4>2. End(a) <= curr /\ curr < rest
        BY <1>1, <1>2, <1>3, <3>4, <4>1, BlockFacts, SMT DEF Tiling, Disjoint, rest
      <4> QED
        BY <1>1, <1>3, <1>7, <3>4, <4>2, BlockFacts, SMT DEF End
    <3>5. ~(a = rest /\ b = rest)
      BY <1>3, SMT
    <3> QED BY <1>5, <3>1, <3>2, <3>3, <3>4, <3>5
  <2>3. Covered'
    <3> SUFFICES ASSUME NEW x \in 0 .. (HeapBytes - 1)
                 PROVE  \E b \in Blocks' : b <= x /\ x < End(b)'
      BY DEF Covered
    <3>1. PICK b \in Blocks : b <= x /\ x < End(b)
      BY DEF Tiling, Covered
    <3>2. CASE b # curr
      BY <1>5, <1>7, <3>1, <3>2, Zenon DEF End
    <3>3. CASE b = curr /\ x < rest
      BY <1>1, <1>5, <1>7, <3>1, <3>3, SMT DEF End
    <3>4. CASE b = curr /\ rest <= x
      BY <1>5, <1>7, <3>1, <3>4, SMT DEF End
    <3> QED
      BY <1>3, <3>2, <3>3, <3>4, SMT
  <2>4. AlignedBlocks'
    BY <1>2, <1>5, <1>6, <1>8, SMT DEF Tiling, AlignedBlocks
  <2> QED BY <2>1, <2>2, <2>3, <2>4 DEF Tiling
<1>12. HeldBlocks'
  <2>1. ASSUME NEW p \in DOMAIN held'
        PROVE  /\ p - 24 \in Blocks'
               /\ ~hdr'[p - 24].is_free
               /\ held'[p] <= hdr'[p - 24].size
    <3>1. CASE p = curr + 24
      BY <1>1, <1>2, <1>5, <1>9, <3>1, BlockFacts, SMT
    <3>2. CASE p # curr + 24
      <4>1. p \in DOMAIN held /\ p - 24 \in Blocks /\ p - 24 # curr
        BY <1>1, <1>9, <2>1, <3>2, BlockFacts, SMT DEF HeldBlocks, TypeOK
      <4> QED
        BY <1>5, <1>9, <3>2, <4>1 DEF HeldBlocks
    <3> QED BY <3>1, <3>2
  <2>2. \A b \in Blocks' : ~hdr'[b].is_free => b + 24 \in DOMAIN held'
    BY <1>5, <1>9 DEF HeldBlocks
  <2> QED BY <2>1, <2>2 DEF HeldBlocks, Blocks
<1>13. Coalesced'
  <2> SUFFICES ASSUME NEW b \in Blocks', Mergeable(b)'
               PROVE  FALSE
    BY DEF Coalesced
  <2>1. CASE b = curr
    BY <1>5, <2>1 DEF Mergeable
  <2>2. CASE b = rest
    <3>1. hdr[curr].next # NULL /\ hdr'[hdr[curr].next].is_free
      BY <1>5, <2>2 DEF Mergeable
    <3>2. hdr[curr].next \in Blocks /\ hdr[curr].next # curr
      BY <1>1, <3>1, BlockFacts, SMT
    <3> QED
      BY <1>1, <1>5, <3>1, <3>2 DEF Mergeable, Coalesced
  <2>3. CASE b \in Blocks /\ b # curr
    <3>1. /\ hdr[b].next # NULL
          /\ hdr[b].is_free
          /\ hdr'[hdr[b].next].is_free
      BY <1>5, <2>3 DEF Mergeable
    <3>2. hdr[b].next \in Blocks /\ hdr[b].next # curr
      BY <1>5, <2>3, <3>1, BlockFacts
    <3> QED
      BY <1>1, <1>5, <2>3, <3>1, <3>2 DEF Mergeable, Coalesced
  <2> QED BY <1>5, <2>1, <2>2, <2>3
<1>14. CursorOK'
  BY <1>9 DEF CursorOK
<1> QED
  BY <1>10, <1>11, <1>12, <1>13, <1>14

(* A block taken whole only changes hands. *)
LEMMA KmallocWholeOK ==
    ASSUME IInv, KmallocWhole
    PROVE  IInv'
<1> USE HeapAssumption DEF IInv
<1>1. /\ op = "kmalloc"
      /\ curr \in Blocks
      /\ hdr[curr].is_free
      /\ hdr[curr].size >= size
  BY DEF KmallocWhole, CursorOK, Fits
<1>2. /\ request \in Nat
      /\ request <= hdr[curr].size
  BY <1>1, Rounding, BlockFacts, SMT DEF TypeOK, size
<1>3. hdr' = [hdr EXCEPT ![curr].is_free = FALSE]
  BY DEF KmallocWhole
<1>4. /\ Blocks' = Blocks
      /\ \A b \in Blocks : hdr'[b].size = hdr[b].size
      /\ \A b \in Blocks : hdr'[b].next = hdr[b].next
  BY <1>1, <1>3, FlagFacts, Zenon
<1>5. /\ hdr'[curr].is_free = FALSE
      /\ \A b \in Blocks : b # curr => hdr'[b].is_free = hdr[b].is_free
  BY <1>1, <1>3, FlagFacts, Zenon
<1>6. /\ op' = "idle" /\ request' = 0 /\ curr' = NULL
      /\ DOMAIN held' = DOMAIN held \cup {curr + 24}
      /\ held'[curr + 24] = request
      /\ \A p \in DOMAIN held : p # curr + 24 => held'[p] = held[p]
      /\ held' = [p \in DOMAIN held' |-> held'[p]]
  BY Zenon DEF KmallocWhole, Return, Hand
<1>7. TypeOK'
  <2>1. Blocks' \subseteq Nat /\ hdr' \in [Blocks' -> Header]
    BY <1>1, <1>3, FlagFacts DEF TypeOK
  <2>2. DOMAIN held' \subseteq Nat /\ held' \in [DOMAIN held' -> Nat]
    BY <1>1, <1>2, <1>6, BlockFacts, SMT DEF TypeOK
  <2> QED BY <1>6, <2>1, <2>2 DEF TypeOK, Blocks
<1>8. Tiling'
  BY <1>4, SameShape, Zenon
<1>9. HeldBlocks'
  <2>1. ASSUME NEW p \in DOMAIN held'
        PROVE  /\ p - 24 \in Blocks'
               /\ ~hdr'[p - 24].is_free
               /\ held'[p] <= hdr'[p - 24].size
    <3>1. CASE p = curr + 24
      BY <1>1, <1>2, <1>4, <1>5, <1>6, <3>1, BlockFacts, SMT
    <3>2. CASE p # curr + 24
      <4>1. p \in DOMAIN held /\ p - 24 \in Blocks /\ p - 24 # curr
        BY <1>1, <1>6, <2>1, <3>2, BlockFacts, SMT DEF HeldBlocks, TypeOK
      <4> QED
        BY <1>4, <1>5, <1>6, <3>2, <4>1 DEF HeldBlocks
    <3> QED BY <3>1, <3>2
  <2>2. \A b \in Blocks' : ~hdr'[b].is_free => b + 24 \in DOMAIN held'
    BY <1>4, <1>5, <1>6, Zenon DEF HeldBlocks
  <2> QED BY <2>1, <2>2 DEF HeldBlocks, Blocks
<1>10. Coalesced'
  <2> SUFFICES ASSUME NEW b \in Blocks, Mergeable(b)'
               PROVE  FALSE
    BY <1>4 DEF Coalesced
  <2>1. /\ hdr[b].next # NULL
        /\ b # curr
        /\ hdr'[hdr[b].next].is_free
        /\ hdr[b].is_free
    BY <1>4, <1>5, Zenon DEF Mergeable
  <2>2. hdr[b].next \in Blocks /\ hdr[b].next # curr
    BY <1>5, <2>1, BlockFacts, Zenon
  <2>3. Mergeable(b)
    BY <1>5, <2>1, <2>2, Zenon DEF Mergeable
  <2> QED BY <1>1, <2>3 DEF Coalesced
<1>11. CursorOK'
  BY <1>6 DEF CursorOK
<1> QED
  BY <1>7, <1>8, <1>9, <1>10, <1>11

(* The walk ended without a fit: nothing but the call is over. *)
LEMMA KmallocFailOK ==
    ASSUME IInv, KmallocFail
    PROVE  IInv'
<1> USE HeapAssumption DEF IInv
<1>1. /\ hdr' = hdr /\ held' = held
      /\ op' = "idle" /\ request' = 0 /\ curr' = NULL
      /\ op = "kmalloc"
  BY DEF KmallocFail, Return
<1>2. TypeOK'
  BY <1>1, SMT DEF TypeOK, Blocks
<1>3. Tiling'
  BY <1>1, SameList
<1>4. HeldBlocks'
  BY <1>1, SameList
<1>5. Coalesced'
  BY <1>1, SMT DEF Coalesced, Blocks, Mergeable
<1>6. CursorOK'
  BY <1>1 DEF CursorOK
<1> QED
  BY <1>2, <1>3, <1>4, <1>5, <1>6

(* The block of a pointer a caller owns is live, and becomes free. *)
LEMMA KfreeCallOK ==
    ASSUME IInv, NEW p \in DOMAIN held, KfreeCall(p)
    PROVE  IInv'
<1> USE HeapAssumption DEF IInv
<1> DEFINE b == p - 24
<1>1. /\ p \in Nat
      /\ b \in Blocks
      /\ b \in Nat
      /\ p = b + 24
  BY BlockFacts, SMT DEF HeldBlocks, TypeOK
<1>2. hdr' = [hdr EXCEPT ![b].is_free = TRUE]
  BY DEF KfreeCall
<1> HIDE DEF b
<1>3. /\ Blocks' = Blocks
      /\ \A c \in Blocks : hdr'[c].size = hdr[c].size
      /\ \A c \in Blocks : hdr'[c].next = hdr[c].next
  BY <1>1, <1>2, FlagFacts, Zenon
<1>4. /\ hdr'[b].is_free = TRUE
      /\ \A c \in Blocks : c # b => hdr'[c].is_free = hdr[c].is_free
  BY <1>1, <1>2, FlagFacts, Zenon
<1>5. /\ op' = "kfree" /\ curr' = 0 /\ request' = request
      /\ DOMAIN held' = DOMAIN held \ {p}
      /\ \A q \in DOMAIN held' : held'[q] = held[q]
      /\ held' = [q \in DOMAIN held' |-> held'[q]]
  BY Zenon DEF KfreeCall
<1>6. TypeOK'
  <2>1. Blocks' \subseteq Nat /\ hdr' \in [Blocks' -> Header]
    BY <1>1, <1>2, FlagFacts DEF TypeOK
  <2>2. DOMAIN held' \subseteq Nat /\ held' \in [DOMAIN held' -> Nat]
    BY <1>5, Zenon DEF TypeOK
  <2> QED BY <1>5, <2>1, <2>2, SMT DEF TypeOK, Blocks
<1>7. Tiling'
  BY <1>3, SameShape, Zenon
<1>8. HeldBlocks'
  <2>1. ASSUME NEW q \in DOMAIN held'
        PROVE  /\ q - 24 \in Blocks'
               /\ ~hdr'[q - 24].is_free
               /\ held'[q] <= hdr'[q - 24].size
    <3>1. q \in DOMAIN held /\ q - 24 \in Blocks /\ q - 24 # b
      BY <1>1, <1>5, <2>1, SMT DEF HeldBlocks, TypeOK
    <3> QED
      BY <1>3, <1>4, <1>5, <3>1, Zenon DEF HeldBlocks
  <2>2. ASSUME NEW c \in Blocks', ~hdr'[c].is_free
        PROVE  c + 24 \in DOMAIN held'
    <3>1. c \in Blocks /\ c # b /\ ~hdr[c].is_free
      BY <1>3, <1>4, <2>2, Zenon
    <3>2. c + 24 \in DOMAIN held
      BY <3>1 DEF HeldBlocks
    <3>3. c + 24 # p
      BY <1>1, <3>1, BlockFacts, SMT
    <3> QED BY <1>5, <3>2, <3>3
  <2> QED BY <2>1, <2>2 DEF HeldBlocks, Blocks
<1>9. Coalesced'
  BY <1>3, <1>5, BlockFacts, SMT DEF Coalesced
<1>10. CursorOK'
  BY <1>3, <1>5 DEF CursorOK, Tiling, Chained
<1> QED
  BY <1>6, <1>7, <1>8, <1>9, <1>10

(* The absorbed block's bytes, header included, are all in its neighbour. *)
LEMMA KfreeMergeOK ==
    ASSUME IInv, KfreeMerge
    PROVE  IInv'
<1> USE HeapAssumption DEF IInv
<1> DEFINE gone == hdr[curr].next
<1>1. /\ op = "kfree"
      /\ curr \in Blocks
      /\ hdr[curr].is_free
  BY DEF KfreeMerge, CursorOK, Mergeable
<1>2. /\ gone # NULL
      /\ gone \in Blocks
      /\ gone = End(curr)
      /\ gone # curr
      /\ curr < gone
      /\ gone # 0
      /\ hdr[gone].is_free
  BY <1>1, BlockFacts, SMT DEF KfreeMerge, Mergeable
<1>3. /\ Blocks' = Blocks \ {gone}
      /\ hdr'[curr] = [size    |-> hdr[curr].size + 24 + hdr[gone].size,
                       is_free |-> TRUE,
                       next    |-> hdr[gone].next]
      /\ \A b \in Blocks' : b # curr => hdr'[b] = hdr[b]
      /\ hdr' = [b \in Blocks' |-> hdr'[b]]
  BY <1>1, <1>2, Zenon DEF KfreeMerge, Blocks
<1>4. /\ hdr'[curr].size = hdr[curr].size + 24 + hdr[gone].size
      /\ hdr'[curr].next = hdr[gone].next
  BY <1>3
<1>5. hdr[gone].size \in Nat /\ End(gone) = End(curr) + 24 + hdr[gone].size
  BY <1>2, BlockFacts, SMT DEF End
<1> HIDE DEF gone
<1>6. /\ curr + 24 + hdr'[curr].size = End(gone)
      /\ \A b \in Blocks' : b # curr => b + 24 + hdr'[b].size = End(b)
  BY <1>1, <1>2, <1>3, <1>4, <1>5, BlockFacts, SMT DEF End
<1>7. op' = op /\ request' = request /\ curr' = curr /\ held' = held
  BY DEF KfreeMerge
<1>8. TypeOK'
  <2>1. hdr'[curr] \in Header
    BY <1>1, <1>2, <1>3, <1>5, BlockFacts, SMT DEF Header
  <2>2. \A b \in Blocks' : hdr'[b] \in Header
    BY <1>3, <2>1, BlockFacts
  <2>3. Blocks' \subseteq Nat /\ hdr' \in [Blocks' -> Header]
    BY <1>3, <2>2, BlockFacts, Zenon DEF TypeOK
  <2> QED BY <1>7, <2>3 DEF TypeOK, Blocks
<1>9. Tiling'
  <2>1. Chained'
    <3> SUFFICES ASSUME NEW b \in Blocks'
                 PROVE  \/ End(b)' = HeapBytes /\ hdr'[b].next = NULL
                        \/ /\ End(b)' < HeapBytes
                           /\ hdr'[b].next = End(b)'
                           /\ End(b)' \in Blocks'
      BY <1>2, <1>3 DEF Tiling, Chained
    <3>1. CASE b = curr
      <4>1. End(gone) # gone
        BY <1>2, BlockFacts, SMT
      <4> QED
        BY <1>2, <1>3, <1>4, <1>6, <3>1, <4>1, SMT DEF Tiling, Chained, End
    <3>2. CASE b # curr
      <4>1. End(b) # gone
        BY <1>1, <1>2, <1>3, <3>2, BlockFacts, SMT DEF Tiling, Disjoint
      <4> QED
        BY <1>3, <1>6, <3>2, <4>1, SMT DEF Tiling, Chained, End
    <3> QED BY <3>1, <3>2
  <2>2. Disjoint'
    <3> SUFFICES ASSUME NEW a \in Blocks', NEW b \in Blocks', a < b
                 PROVE  End(a)' <= b
      BY DEF Disjoint
    <3>1. CASE a = curr
      <4>1. gone < b
        BY <1>1, <1>2, <1>3, <3>1, BlockFacts, SMT DEF Tiling, Disjoint
      <4> QED
        BY <1>2, <1>3, <1>6, <3>1, <4>1, SMT DEF Tiling, Disjoint, End
    <3>2. CASE a # curr
      BY <1>3, <1>6, <3>2, SMT DEF Tiling, Disjoint, End
    <3> QED BY <3>1, <3>2
  <2>3. Covered'
    <3> SUFFICES ASSUME NEW x \in 0 .. (HeapBytes - 1)
                 PROVE  \E b \in Blocks' : b <= x /\ x < End(b)'
      BY DEF Covered
    <3>1. PICK b \in Blocks : b <= x /\ x < End(b)
      BY DEF Tiling, Covered
    <3>2. CASE b # curr /\ b # gone
      BY <1>3, <1>6, <3>1, <3>2, Zenon DEF End
    <3>3. CASE b = curr \/ b = gone
      <4>1. curr \in Blocks' /\ curr <= x /\ x < End(gone)
        BY <1>1, <1>2, <1>3, <1>5, <3>1, <3>3, BlockFacts, SMT
      <4> QED
        BY <1>6, <4>1, Zenon DEF End
    <3> QED BY <3>2, <3>3
  <2>4. AlignedBlocks'
    <3>1. /\ hdr[curr].size % 8 = 0 /\ hdr[gone].size % 8 = 0
          /\ hdr[curr].size \in Int /\ hdr[gone].size \in Int
      BY <1>1, <1>2, BlockFacts DEF Tiling, AlignedBlocks
    <3>2. (hdr[curr].size + 24 + hdr[gone].size) % 8 = 0
      BY <3>1, SumsOfEights
    <3> QED
      BY <1>3, <1>4, <3>2, SMT DEF Tiling, AlignedBlocks
  <2> QED BY <2>1, <2>2, <2>3, <2>4 DEF Tiling
<1>10. HeldBlocks'
  <2>1. ASSUME NEW p \in DOMAIN held
        PROVE  /\ p - 24 \in Blocks'
               /\ ~hdr'[p - 24].is_free
               /\ held[p] <= hdr'[p - 24].size
    <3>1. p - 24 \in Blocks /\ p - 24 # curr /\ p - 24 # gone
      BY <1>1, <1>2 DEF HeldBlocks
    <3> QED
      BY <1>3, <3>1 DEF HeldBlocks
  <2>2. ASSUME NEW b \in Blocks', ~hdr'[b].is_free
        PROVE  b + 24 \in DOMAIN held
    <3>1. b # curr
      BY <1>3, <2>2
    <3> QED
      BY <1>3, <2>2, <3>1, Zenon DEF HeldBlocks
  <2> QED BY <1>7, <2>1, <2>2 DEF HeldBlocks, Blocks
<1>11. Coalesced'
  <2> SUFFICES ASSUME NEW b \in Blocks', b < curr, Mergeable(b)'
               PROVE  FALSE
    BY <1>1, <1>7 DEF Coalesced
  <2>1. b \in Blocks /\ b # curr /\ hdr'[b] = hdr[b]
    BY <1>1, <1>3, BlockFacts, SMT
  <2>2. /\ hdr[b].next # NULL
        /\ hdr[b].is_free
        /\ hdr'[hdr[b].next].is_free
    BY <2>1, Zenon DEF Mergeable
  <2>3. hdr[b].next = End(b) /\ End(b) \in Blocks /\ End(b) <= curr
    BY <1>1, <2>1, <2>2, BlockFacts, SMT DEF Tiling, Disjoint
  <2>4. hdr[b].next \in Blocks'
    BY <1>1, <1>2, <1>3, <2>3, BlockFacts, SMT
  <2>5. hdr[hdr[b].next].is_free
    BY <1>1, <1>3, <2>2, <2>4, Zenon
  <2> QED
    BY <1>1, <2>1, <2>2, <2>5 DEF Mergeable, Coalesced
<1>12. CursorOK'
  BY <1>1, <1>2, <1>3, <1>7 DEF CursorOK
<1> QED
  BY <1>8, <1>9, <1>10, <1>11, <1>12

(* A pair the cursor leaves behind is not both free. *)
LEMMA KfreeAdvanceOK ==
    ASSUME IInv, KfreeAdvance
    PROVE  IInv'
<1> USE HeapAssumption DEF IInv
<1>1. /\ op = "kfree" /\ op' = op
      /\ hdr' = hdr /\ held' = held /\ request' = request
      /\ hdr[curr].next # NULL
      /\ curr' = hdr[curr].next
      /\ ~Mergeable(curr)
      /\ curr \in Blocks
  BY DEF KfreeAdvance, CursorOK
<1>2. curr' \in Blocks /\ curr' = End(curr)
  BY <1>1, BlockFacts
<1>3. TypeOK'
  BY <1>1, <1>2, BlockFacts, SMT DEF TypeOK, Blocks
<1>4. Tiling' /\ HeldBlocks'
  BY <1>1, SameList
<1>5. Coalesced'
  <2>1. ASSUME NEW b \in Blocks, b < End(curr)
        PROVE  ~Mergeable(b)
    <3>1. b < curr \/ b = curr
      BY <1>1, <2>1, BlockFacts, SMT DEF Tiling, Disjoint
    <3> QED
      BY <1>1, <3>1 DEF Coalesced
  <2> QED
    BY <1>1, <1>2, <2>1 DEF Coalesced, Blocks, Mergeable
<1>6. CursorOK'
  BY <1>1, <1>2 DEF CursorOK, Blocks
<1> QED
  BY <1>3, <1>4, <1>5, <1>6

(* At the last block every pair is behind the cursor. *)
LEMMA KfreeDoneOK ==
    ASSUME IInv, KfreeDone
    PROVE  IInv'
<1> USE HeapAssumption DEF IInv
<1>1. /\ op = "kfree" /\ op' = "idle"
      /\ hdr' = hdr /\ held' = held /\ request' = 0 /\ curr' = NULL
      /\ hdr[curr].next = NULL
      /\ curr \in Blocks
  BY DEF KfreeDone, Return, CursorOK
<1>2. TypeOK'
  BY <1>1, SMT DEF TypeOK, Blocks
<1>3. Tiling' /\ HeldBlocks'
  BY <1>1, SameList
<1>4. Coalesced'
  <2>1. ASSUME NEW b \in Blocks PROVE ~Mergeable(b)
    <3>1. CASE b = curr
      BY <1>1, <3>1 DEF Mergeable
    <3>2. CASE b # curr
      <4>1. b < curr
        BY <1>1, <3>2, BlockFacts, SMT DEF Tiling, Disjoint
      <4> QED
        BY <1>1, <4>1 DEF Coalesced
    <3> QED BY <3>1, <3>2
  <2> QED
    BY <1>1, <2>1 DEF Coalesced, Blocks, Mergeable
<1>5. CursorOK'
  BY <1>1 DEF CursorOK
<1> QED
  BY <1>2, <1>3, <1>4, <1>5

LEMMA NextOK == IInv /\ [Next]_vars => IInv'
<1> SUFFICES ASSUME IInv, [Next]_vars PROVE IInv'
  OBVIOUS
<1>1. ASSUME NEW n \in Requests, KmallocCall(n) PROVE IInv'
  BY <1>1, KmallocCallOK
<1>2. ASSUME NEW p \in DOMAIN held, KfreeCall(p) PROVE IInv'
  BY <1>2, KfreeCallOK
<1>3. ASSUME Walk PROVE IInv'
  BY <1>3, KmallocSkipOK, KmallocSplitOK, KmallocWholeOK, KmallocFailOK,
     KfreeMergeOK, KfreeAdvanceOK, KfreeDoneOK DEF Walk
<1>4. ASSUME UNCHANGED vars PROVE IInv'
  <2>1. Tiling' /\ HeldBlocks'
    BY <1>4, SameList DEF vars
  <2>2. TypeOK'
    BY <1>4 DEF vars, IInv, TypeOK, Blocks
  <2>3. Coalesced' /\ CursorOK'
    BY <1>4 DEF vars, IInv, Coalesced, CursorOK, Mergeable, Blocks, Fits, size
  <2> QED BY <2>1, <2>2, <2>3 DEF IInv
<1> QED
  BY <1>1, <1>2, <1>3, <1>4 DEF Next

LEMMA Invariance == Spec => []IInv
  BY InitOK, NextOK, PTL DEF Spec

-----------------------------------------------------------------------------
(* Every header, cursor and pointer of the heap is of its type, always. *)
THEOREM TypeCorrect == Spec => []TypeOK
<1>1. IInv => TypeOK
  BY DEF IInv
<1> QED
  BY <1>1, Invariance, PTL

(***************************************************************************)
(* For every arena and every sequence of legal calls, after every step of  *)
(* kmalloc and kfree, the blocks on the list tile the arena.               *)
(***************************************************************************)
THEOREM TilingCorrect == Spec => []Tiling
<1>1. IInv => Tiling
  BY DEF IInv
<1> QED
  BY <1>1, Invariance, PTL

(* A block is marked in use exactly while a caller owns it, and holds what   *)
(* the caller asked for.                                                     *)
THEOREM HeldBlocksCorrect == Spec => []HeldBlocks
<1>1. IInv => HeldBlocks
  BY DEF IInv
<1> QED
  BY <1>1, Invariance, PTL

(* kfree's single pass leaves no two free neighbours behind its cursor. *)
THEOREM CoalescedCorrect == Spec => []Coalesced
<1>1. IInv => Coalesced
  BY DEF IInv
<1> QED
  BY <1>1, Invariance, PTL

(* When nothing is in use every block is free, so none has a neighbour. *)
THEOREM DrainedIsWholeCorrect == Spec => []DrainedIsWhole
<1>1. IInv => DrainedIsWhole
  <2> SUFFICES ASSUME IInv, op = "idle", DOMAIN held = {}
               PROVE  Blocks = {0}
    BY DEF DrainedIsWhole
  <2>1. \A b \in Blocks : hdr[b].is_free /\ ~Mergeable(b)
    BY DEF IInv, HeldBlocks, Coalesced
  <2>2. \A b \in Blocks : hdr[b].next = NULL
    BY <2>1, BlockFacts DEF Mergeable
  <2>3. 0 \in Blocks /\ End(0) = HeapBytes
    BY <2>2, BlockFacts DEF IInv, Tiling, Chained
  <2>4. ASSUME NEW b \in Blocks, b # 0 PROVE FALSE
    <3>1. b \in Nat /\ b + 24 <= End(b) /\ End(b) <= HeapBytes
      BY BlockFacts
    <3>2. 0 < b => End(0) <= b
      BY <2>3 DEF IInv, Tiling, Disjoint
    <3> QED
      BY <2>3, <2>4, <3>1, <3>2, HeapAssumption, BlockFacts, SMT
  <2> QED BY <2>3, <2>4
<1> QED
  BY <1>1, Invariance, PTL

-----------------------------------------------------------------------------
(* The blocks of two different pointers in use do not overlap. *)
LEMMA HeldApart ==
    ASSUME IInv, NEW p \in DOMAIN held, NEW b \in Blocks, p - 24 # b
    PROVE  /\ p \in Nat
           /\ p - 24 \in Blocks
           /\ Granted[p] = hdr[p - 24].size
           /\ p + Granted[p] = End(p - 24)
           /\ ~(b < p + Granted[p] /\ p - 24 < End(b))
<1>1. /\ p \in Nat
      /\ p - 24 \in Blocks
      /\ Granted[p] = hdr[p - 24].size
  BY DEF IInv, TypeOK, HeldBlocks, Granted
<1>2. p + Granted[p] = End(p - 24)
  BY <1>1, BlockFacts, SMT DEF End
<1>3. ~(b < End(p - 24) /\ p - 24 < End(b))
  BY <1>1, BlockFacts, SMT DEF IInv, Tiling, Disjoint
<1> QED
  BY <1>1, <1>2, <1>3

(***************************************************************************)
(* A walk that found no fit has looked everywhere.  A place for the header *)
(* and the rounded size that meets no block in use would start inside a    *)
(* free block too short for it, and so run into the next block, which is   *)
(* free as well: but free neighbours have been merged.                     *)
(***************************************************************************)
LEMMA RefusalJustified ==
    ASSUME IInv, op = "kmalloc", curr = NULL, NEW p \in A!Aligned
    PROVE  ~A!Available(p, size)
<1> SUFFICES ASSUME A!Available(p, size) PROVE FALSE
  OBVIOUS
<1>1. size \in Nat
  BY Rounding DEF IInv, TypeOK, size
<1>2. /\ p \in Nat
      /\ 24 <= p
      /\ p + size <= HeapBytes
      /\ p - 24 \in 0 .. (HeapBytes - 1)
  BY <1>1, HeapAssumption, SMT DEF A!Aligned, A!Available
<1>3. PICK b \in Blocks : b <= p - 24 /\ p - 24 < End(b)
  BY <1>2 DEF IInv, Tiling, Covered
<1>4. ASSUME NEW c \in Blocks, c < p + size, p - 24 < End(c)
      PROVE  hdr[c].is_free
  <2> SUFFICES ASSUME ~hdr[c].is_free PROVE FALSE
    OBVIOUS
  <2>1. /\ c + 24 \in DOMAIN held
        /\ c \in Nat
        /\ hdr[c].size \in Nat
        /\ (c + 24) - 24 = c
    BY BlockFacts, SMT DEF IInv, HeldBlocks
  <2>2. /\ c + 24 \in DOMAIN Granted
        /\ Granted[c + 24] = hdr[c].size
    BY <2>1 DEF Granted
  <2>3. ~A!Overlap(p, size, c + 24, Granted[c + 24])
    BY <2>2 DEF A!Available
  <2> QED
    BY <1>1, <1>2, <1>4, <2>1, <2>2, <2>3, SMT DEF A!Overlap, End
<1>5. hdr[b].is_free
  BY <1>1, <1>2, <1>3, <1>4, BlockFacts, SMT
<1>6. hdr[b].size < size
  BY <1>1, <1>5, BlockFacts, SMT DEF IInv, CursorOK, Fits
<1>7. End(b) < p + size
  BY <1>1, <1>2, <1>3, <1>6, BlockFacts, SMT DEF End
<1>8. /\ End(b) \in Blocks
      /\ hdr[b].next = End(b)
      /\ hdr[b].next # NULL
  BY <1>1, <1>2, <1>7, BlockFacts, HeapAssumption, SMT
<1>9. hdr[End(b)].is_free
  BY <1>1, <1>2, <1>3, <1>4, <1>7, <1>8, BlockFacts, SMT
<1>10. Mergeable(b)
  BY <1>5, <1>8, <1>9 DEF Mergeable
<1> QED
  BY <1>10 DEF IInv, Coalesced

(* Handing out block b is a grant of its bytes. *)
LEMMA GrantOK ==
    ASSUME IInv, IInv', op = "kmalloc", curr \in Blocks, hdr[curr].is_free,
           Hand(curr), Return,
           curr \in Blocks', hdr'[curr].size >= size,
           \A b \in Blocks : b # curr => b \in Blocks' /\ hdr'[b].size = hdr[b].size
    PROVE  \E p, len \in A!Aligned : A!Grant(p, len)
<1> DEFINE p == curr + 24
           len == hdr'[curr].size
<1>1. /\ request \in Nat
      /\ size \in Nat
      /\ request <= size
  BY Rounding DEF IInv, TypeOK, size
<1>2. /\ curr \in Nat
      /\ len \in Nat
      /\ len % 8 = 0
      /\ curr % 8 = 0
      /\ curr + 24 + len <= HeapBytes
      /\ len >= request
  <2>1. curr \in Nat /\ len \in Nat
    BY Zenon, BlockFacts DEF IInv, TypeOK, Header, Blocks
  <2>2. len % 8 = 0 /\ curr % 8 = 0
    BY DEF IInv, Tiling, AlignedBlocks
  <2>3. curr + 24 + len <= HeapBytes
    BY <2>1, HeapAssumption, SMT DEF IInv, Tiling, Chained, End
  <2> QED
    BY <1>1, <2>1, <2>2, <2>3, SMT
<1>3. p \in A!Aligned /\ len \in A!Aligned
  BY <1>2, HeapAssumption, SMT DEF A!Aligned
<1>4. A!Available(p, len)
  <2>1. ASSUME NEW q \in DOMAIN held
        PROVE  ~A!Overlap(p, len, q, Granted[q])
    <3>1. q - 24 # curr
      BY DEF IInv, HeldBlocks
    <3>2. /\ q \in Nat
          /\ q - 24 \in Blocks
          /\ Granted[q] = hdr[q - 24].size
          /\ Granted[q] \in Nat
      BY <3>1, HeldApart, BlockFacts
    <3>3. q - 24 \in Blocks' /\ hdr'[q - 24].size = hdr[q - 24].size
      BY <3>1, <3>2
    <3>4. \/ q - 24 < curr /\ (q - 24) + 24 + hdr'[q - 24].size <= curr
          \/ curr < q - 24 /\ curr + 24 + len <= q - 24
      BY <1>2, <3>1, <3>2, <3>3, SMT DEF IInv, Tiling, Disjoint, End
    <3> QED
      BY <1>2, <3>2, <3>3, <3>4, SMT DEF A!Overlap
  <2>2. DOMAIN Granted = DOMAIN held
    BY DEF Granted
  <2> QED
    BY <1>2, <2>1, <2>2, SMT DEF A!Available
<1>5. p \notin DOMAIN Granted
  <2> SUFFICES ASSUME p \in DOMAIN held PROVE FALSE
    BY DEF Granted
  <2>1. p - 24 = curr
    BY <1>2, SMT
  <2> QED BY <2>1 DEF IInv, HeldBlocks
<1>6. Granted' = [q \in DOMAIN Granted \cup {p} |->
                    IF q = p THEN len ELSE Granted[q]]
  <2>1. DOMAIN held' = DOMAIN held \cup {p}
    BY DEF Hand
  <2>2. p - 24 = curr
    BY <1>2, SMT
  <2>3. ASSUME NEW q \in DOMAIN held PROVE hdr'[q - 24].size = hdr[q - 24].size
    BY DEF IInv, HeldBlocks
  <2> QED
    BY <2>1, <2>2, <2>3, Zenon DEF Granted
<1>7. Pending = request /\ Pending' = NULL
  BY DEF Pending, Return
<1> HIDE DEF p, len
<1> QED
  BY <1>1, <1>2, <1>3, <1>4, <1>5, <1>6, <1>7, HeapAssumption DEF A!Grant

LEMMA SplitGrants ==
    ASSUME IInv, IInv', KmallocSplit
    PROVE  \E p, len \in A!Aligned : A!Grant(p, len)
<1> DEFINE rest == curr + 24 + size
<1>1. /\ op = "kmalloc"
      /\ curr \in Blocks
      /\ hdr[curr].is_free
      /\ size \in Nat
  BY Rounding DEF KmallocSplit, IInv, TypeOK, CursorOK, Fits, size
<1>2. rest # curr
  BY <1>1, BlockFacts, SMT
<1>3. rest \notin Blocks
  BY <1>1, BlockFacts, SMT
  DEF IInv, Tiling, Disjoint, KmallocSplit, Splittable, End
<1>4. /\ Blocks' = Blocks \cup {rest}
      /\ hdr'[curr] = [size |-> size, is_free |-> FALSE, next |-> rest]
      /\ \A b \in Blocks : b # curr => hdr'[b] = hdr[b]
  BY <1>1, <1>2, <1>3, Zenon DEF KmallocSplit, Blocks
<1>5. hdr'[curr].size >= size
  BY <1>1, <1>4, SMT
<1> QED
  BY <1>1, <1>4, <1>5, GrantOK DEF KmallocSplit

LEMMA WholeGrants ==
    ASSUME IInv, IInv', KmallocWhole
    PROVE  \E p, len \in A!Aligned : A!Grant(p, len)
<1>1. /\ op = "kmalloc"
      /\ curr \in Blocks
      /\ hdr[curr].is_free
      /\ hdr[curr].size >= size
      /\ hdr' = [hdr EXCEPT ![curr].is_free = FALSE]
  BY DEF KmallocWhole, IInv, CursorOK, Fits
<1>2. /\ Blocks' = Blocks
      /\ \A b \in Blocks : hdr'[b].size = hdr[b].size
  BY <1>1, FlagFacts, Zenon
<1> QED
  BY <1>1, <1>2, GrantOK DEF KmallocWhole

(* Steps that keep the lengths of the blocks in use keep what is granted. *)
LEMMA SameGrants ==
    ASSUME held' = held,
           \A p \in DOMAIN held : hdr'[p - 24].size = hdr[p - 24].size
    PROVE  Granted' = Granted
  BY Zenon DEF Granted

LEMMA StepImplements ==
    ASSUME IInv, IInv', [Next]_vars
    PROVE  [A!Next]_A!vars
<1>1. ASSUME NEW n \in Requests, KmallocCall(n) PROVE A!Request(n)
  BY <1>1, SameGrants DEF KmallocCall, A!Request, Pending
<1>2. ASSUME KmallocSkip PROVE UNCHANGED A!vars
  BY <1>2, SameGrants DEF KmallocSkip, A!vars, Pending
<1>3. ASSUME KmallocFail PROVE A!Refuse
  <2>1. /\ op = "kmalloc" /\ curr = NULL
        /\ Granted' = Granted
        /\ Pending = request /\ Pending' = NULL
    BY <1>3, SameGrants DEF KmallocFail, Return, Pending
  <2>2. A!RoundUp(request) = size
    BY DEF A!RoundUp, size, AlignUp
  <2>3. request # NULL
    BY HeapAssumption DEF IInv, TypeOK
  <2> QED
    BY <2>1, <2>2, <2>3, RefusalJustified DEF A!Refuse
<1>4. ASSUME NEW p \in DOMAIN held, KfreeCall(p)
      PROVE  p \in DOMAIN Granted /\ A!Release(p)
  <2>1. /\ Pending = NULL /\ Pending' = NULL
        /\ DOMAIN held' = DOMAIN held \ {p}
        /\ hdr' = [hdr EXCEPT ![p - 24].is_free = TRUE]
    BY <1>4 DEF KfreeCall, Pending
  <2>2. p - 24 \in Blocks
    BY DEF IInv, HeldBlocks
  <2>3. \A b \in Blocks : hdr'[b].size = hdr[b].size
    BY <2>1, <2>2, FlagFacts, Zenon
  <2>4. \A q \in DOMAIN held : hdr'[q - 24].size = hdr[q - 24].size
    BY <2>3 DEF IInv, HeldBlocks
  <2>5. /\ DOMAIN Granted = DOMAIN held
        /\ Granted' = [q \in DOMAIN Granted \ {p} |-> Granted[q]]
    BY <2>1, <2>4, Zenon DEF Granted
  <2> QED
    BY <2>1, <2>5 DEF A!Release
<1>5. ASSUME KfreeMerge PROVE UNCHANGED A!vars
  <2>1. /\ op = "kfree" /\ op' = op /\ held' = held /\ request' = request
        /\ hdr[curr].is_free
        /\ hdr[hdr[curr].next].is_free
        /\ \A b \in Blocks : b # curr /\ b # hdr[curr].next => hdr'[b] = hdr[b]
    BY <1>5, Zenon DEF KfreeMerge, Mergeable, Blocks
  <2>2. \A p \in DOMAIN held : hdr'[p - 24] = hdr[p - 24]
    BY <2>1 DEF IInv, HeldBlocks
  <2> QED
    BY <2>1, <2>2, SameGrants DEF A!vars, Pending
<1>6. ASSUME KfreeAdvance \/ KfreeDone PROVE UNCHANGED A!vars
  BY <1>6, SameGrants DEF KfreeAdvance, KfreeDone, Return, A!vars, Pending
<1>7. ASSUME UNCHANGED vars PROVE UNCHANGED A!vars
  BY <1>7, SameGrants DEF vars, A!vars, Pending
<1> QED
  BY <1>1, <1>2, <1>3, <1>4, <1>5, <1>6, <1>7, SplitGrants, WholeGrants
  DEF Next, Walk, A!Next

(***************************************************************************)
(* The heap implements the allocator its callers rely on: extents are      *)
(* exclusive, aligned and long enough, and NULL means there was no room.   *)
(***************************************************************************)
THEOREM Implementation == Spec => ImplementsAllocator
<1>1. Init => A!Init
  BY DEF Init, A!Init, Granted, Pending
<1>2. IInv /\ IInv' /\ [Next]_vars => [A!Next]_A!vars
  BY StepImplements
<1> QED
  BY <1>1, <1>2, Invariance, PTL DEF Spec, A!Spec, ImplementsAllocator
==============================================================================
