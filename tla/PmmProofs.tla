------------------------------ MODULE PmmProofs ------------------------------
(***************************************************************************)
(* The page allocator's bitmap, its callers' runs and s_free_pages agree,  *)
(* for every memory map and every sequence of legal calls.  The inductive  *)
(* invariant adds to what callers see what a search in progress has learnt *)
(* (SearchOK), without which neither a grant nor a refusal is justified,   *)
(* and that no page is lost (NoPageLost), without which a refused caller   *)
(* might still have been served.                                           *)
(***************************************************************************)
EXTENDS Pmm, FiniteSetTheorems, TLAPS

(* A page that pmm_init did not free keeps its bit. *)
Boot == Bits \ Freed(Map) \subseteq s_bitmap

IInv == Boot /\ TypeOK /\ Exclusive /\ NoPageLost /\ SearchOK /\ CountKeepsUp

(* The bitmap's bytes hold a bit for every page, and maybe some more. *)
LEMMA PagesHaveBits ==
    /\ s_total_pages \in Nat
    /\ BitmapBytes(Map) \in Nat
    /\ Pages \subseteq Bits
  BY PmmAssumption, SMT DEF s_total_pages, BitmapBytes, Pages, Bits

LEMMA FiniteBits == IsFiniteSet(Bits) /\ IsFiniteSet(Pages)
<1>1. 0 \in Int /\ 8 * BitmapBytes(Map) - 1 \in Int /\ s_total_pages - 1 \in Int
  BY PagesHaveBits, SMT
<1> QED
  BY <1>1, FS_Interval, Zenon DEF Bits, Pages

LEMMA RunSize ==
    ASSUME NEW p \in Nat, NEW n \in Nat
    PROVE  IsFiniteSet(Run(p, n)) /\ Cardinality(Run(p, n)) = n
<1>1. p \in Int /\ p + n - 1 \in Int
  BY SMT
<1>2. /\ IsFiniteSet(p .. (p + n - 1))
      /\ Cardinality(p .. (p + n - 1)) =
            IF p > p + n - 1 THEN 0 ELSE (p + n - 1) - p + 1
  BY <1>1, FS_Interval, Zenon
<1> QED
  BY <1>2, SMT DEF Run

LEMMA DriftType == Drift \in Nat
<1>1. Cardinality(Pages \cap Freed(Map)) \in Nat
  BY FiniteBits, FS_Subset, FS_CardinalityType
<1>2. FreedCount(Map) \in Nat /\ FreedCount(Map) >= Cardinality(Pages \cap Freed(Map))
  BY PmmAssumption, Zenon DEF Pages, s_total_pages
<1> QED
  BY <1>1, <1>2, SMT DEF Drift

LEMMA InitOK == Init => IInv
<1> SUFFICES ASSUME Init PROVE IInv
  OBVIOUS
<1>1. TypeOK
  BY PmmAssumption, SMT DEF Init, TypeOK
<1>2. Boot /\ Exclusive /\ NoPageLost /\ SearchOK
  BY PagesHaveBits, SMT DEF Init, Boot, Exclusive, NoPageLost, SearchOK
<1>3. CountKeepsUp
  <2>1. FreeNow = Pages \cap Freed(Map)
    BY PagesHaveBits DEF Init, FreeNow
  <2>2. Cardinality(Pages \cap Freed(Map)) \in Nat
    BY FiniteBits, FS_Subset, FS_CardinalityType
  <2> QED
    BY <2>1, <2>2, PmmAssumption, SMT DEF Init, CountKeepsUp, Drift
<1> QED
  BY <1>1, <1>2, <1>3 DEF IInv

(* What does not depend on the search is kept by a step of the search. *)
LEMMA SameBitmap ==
    ASSUME IInv, s_bitmap' = s_bitmap, s_free_pages' = s_free_pages, held' = held
    PROVE  Boot' /\ Exclusive' /\ NoPageLost' /\ CountKeepsUp'
  BY Zenon DEF IInv, Boot, Exclusive, NoPageLost, CountKeepsUp, FreeNow

LEMMA SearchCallOK ==
    ASSUME IInv, NEW name \in {"alloc_page", "alloc_pages"}, NEW n \in Nat \ {0},
           name = "alloc_page" => n = 1, Search(name, n)
    PROVE  IInv'
<1>1. TypeOK'
  BY SMT DEF IInv, TypeOK, Search
<1>2. SearchOK'
  BY PagesHaveBits, SMT DEF Search, SearchOK, Run, Pages
<1> QED
  BY <1>1, <1>2, SameBitmap DEF IInv, Search

(* Page i is used: no free run reaches past it. *)
LEMMA UsedPageOK ==
    ASSUME IInv, op # "idle", i < s_total_pages, i \in s_bitmap,
           i' = i + 1, consecutive' = 0,
           UNCHANGED <<s_bitmap, s_free_pages, op, count, start_page, held>>
    PROVE  IInv'
<1>1. TypeOK'
  BY SMT DEF IInv, TypeOK
<1>2. SearchOK'
  <2>1. ASSUME NEW p \in Pages, p + count <= i + 1
        PROVE  Run(p, count) \cap s_bitmap # {}
    <3>1. CASE p + count <= i
      BY <2>1, <3>1 DEF IInv, SearchOK
    <3>2. CASE p + count = i + 1
      BY <2>1, <3>2, PagesHaveBits, SMT DEF IInv, TypeOK, SearchOK, Run, Pages
    <3> QED
      BY <2>1, <3>1, <3>2, PagesHaveBits, SMT DEF IInv, TypeOK, Pages
  <2>2. Run(i + 1 - 0, 0) \cap s_bitmap = {}
    BY SMT DEF IInv, TypeOK, Run
  <2>3. /\ i' <= s_total_pages
        /\ consecutive' <= i'
        /\ consecutive' < count'
        /\ i' - consecutive' - 1 \in s_bitmap
    BY PagesHaveBits, SMT DEF IInv, TypeOK, SearchOK
  <2> QED
    BY <2>1, <2>2, <2>3 DEF IInv, SearchOK
<1> QED
  BY <1>1, <1>2, SameBitmap DEF IInv

LEMMA ExtendOK ==
    ASSUME IInv, AllocPagesExtend
    PROVE  IInv'
<1> USE DEF AllocPagesExtend
<1>1. TypeOK'
  BY SMT DEF IInv, TypeOK, RunStart
<1>2. SearchOK'
  <2>1. /\ i \in Nat /\ consecutive \in Nat /\ count \in Nat
        /\ consecutive <= i /\ consecutive + 1 < count
        /\ i' = i + 1 /\ consecutive' = consecutive + 1
        /\ i' - consecutive' = i - consecutive
        /\ s_bitmap' = s_bitmap /\ count' = count /\ op' = op
        /\ op = "alloc_pages" /\ i' <= s_total_pages
    BY PagesHaveBits, SMT DEF IInv, TypeOK, SearchOK
  <2>2. ASSUME NEW p \in Pages, p + count <= i + 1
        PROVE  Run(p, count) \cap s_bitmap # {}
    <3>1. CASE p + count <= i
      BY <2>1, <3>1 DEF IInv, SearchOK
    <3>2. CASE p + count = i + 1
      <4>1. /\ i - consecutive > 0
            /\ i - consecutive - 1 \in Run(p, count)
        BY <2>1, <2>2, <3>2, PagesHaveBits, SMT DEF Run, Pages
      <4> QED
        BY <2>1, <4>1 DEF IInv, SearchOK
    <3> QED
      BY <2>1, <2>2, <3>1, <3>2, PagesHaveBits, SMT DEF Pages
  <2>3. Run(i - consecutive, consecutive + 1) \cap s_bitmap = {}
    <3>1. Run(i - consecutive, consecutive) \cap s_bitmap = {}
      BY <2>1 DEF IInv, SearchOK
    <3> QED
      BY <2>1, <3>1, SMT DEF Run
  <2>4. start_page' = i - consecutive
    BY <2>1, SMT DEF IInv, TypeOK, SearchOK, RunStart
  <2>5. i - consecutive > 0 => i - consecutive - 1 \in s_bitmap
    BY <2>1 DEF IInv, SearchOK
  <2> QED
    BY <2>1, <2>2, <2>3, <2>4, <2>5, SMT DEF SearchOK
<1> QED
  BY <1>1, <1>2, SameBitmap DEF IInv

(* A run of free pages changes hands: every page of it was free until now. *)
LEMMA TakeOK ==
    ASSUME IInv, NEW p \in Nat, NEW n \in Nat \ {0}, Take(p, n), Return,
           p + n <= s_total_pages, Run(p, n) \cap s_bitmap = {}
    PROVE  IInv'
<1>1. /\ Run(p, n) \subseteq Pages
      /\ Run(p, n) \subseteq Bits
      /\ Run(p, n) \subseteq FreeNow
      /\ p \in Run(p, n)
  BY PagesHaveBits, SMT DEF Run, Pages, FreeNow
<1>2. Run(p, n) \subseteq Freed(Map)
  BY <1>1, Zenon DEF IInv, Boot
<1>3. p \notin DOMAIN held
  <2> SUFFICES ASSUME p \in DOMAIN held PROVE FALSE
    OBVIOUS
  <2>1. held[p] \in Nat \ {0} /\ Run(p, held[p]) \subseteq s_bitmap
    BY DEF IInv, TypeOK, Exclusive
  <2>2. p \in Run(p, held[p])
    BY <2>1, SMT DEF Run
  <2> QED BY <1>1, <2>1, <2>2
<1>4. /\ DOMAIN held' = DOMAIN held \cup {p}
      /\ held'[p] = n
      /\ \A q \in DOMAIN held : held'[q] = held[q]
      /\ held' = [q \in DOMAIN held' |-> held'[q]]
      /\ s_bitmap' = s_bitmap \cup Run(p, n)
  BY <1>3, Zenon DEF Take
<1>5. CountKeepsUp' /\ s_free_pages' \in Nat
  <2>1. FreeNow' = FreeNow \ Run(p, n)
    BY <1>4 DEF FreeNow
  <2>2. IsFiniteSet(FreeNow) /\ FreeNow \cap Run(p, n) = Run(p, n)
    BY <1>1, FiniteBits, FS_Subset DEF FreeNow
  <2>3. Cardinality(FreeNow') = Cardinality(FreeNow) - n
    <3>1. Cardinality(FreeNow \ Run(p, n)) =
             Cardinality(FreeNow) - Cardinality(FreeNow \cap Run(p, n))
      BY <2>2, FS_Difference, Zenon
    <3>2. Cardinality(FreeNow \cap Run(p, n)) = n
      BY <2>2, RunSize, Zenon
    <3> QED BY <2>1, <3>1, <3>2
  <2>4. /\ Cardinality(FreeNow) \in Nat
        /\ Drift \in Nat
        /\ s_free_pages' = s_free_pages - n
    BY <2>2, FS_CardinalityType, DriftType DEF Take
  <2>5. IsFiniteSet(FreeNow')
    BY <2>1, <2>2, FS_Difference, Zenon
  <2>6. Cardinality(FreeNow') \in Nat
    BY <2>5, FS_CardinalityType, Zenon
  <2> QED
    BY <2>3, <2>4, <2>6, SMT DEF IInv, CountKeepsUp
<1>6. TypeOK'
  <2>1. s_bitmap' \subseteq Bits
    BY <1>1, <1>4 DEF IInv, TypeOK
  <2>2. s_free_pages' \in Nat
    BY <1>5
  <2>3. DOMAIN held' \subseteq Nat /\ held' \in [DOMAIN held' -> Nat \ {0}]
    BY <1>4, Zenon DEF IInv, TypeOK
  <2> QED
    BY <2>1, <2>2, <2>3, SMT DEF TypeOK, Return
<1>7. Boot'
  BY <1>4 DEF IInv, Boot
<1>8. Exclusive'
  <2>1. ASSUME NEW q \in DOMAIN held'
        PROVE  /\ Run(q, held'[q]) \subseteq s_bitmap' \cap Pages
               /\ Run(q, held'[q]) \subseteq Freed(Map)
    BY <1>1, <1>2, <1>4 DEF IInv, Exclusive
  <2>2. ASSUME NEW q \in DOMAIN held, NEW r \in DOMAIN held', q # r
        PROVE  Run(q, held'[q]) \cap Run(r, held'[r]) = {}
    <3>1. Run(q, held[q]) \cap Run(p, n) = {}
      BY DEF IInv, Exclusive
    <3> QED
      BY <1>4, <2>2, <3>1 DEF IInv, Exclusive
  <2> QED
    BY <1>4, <2>1, <2>2 DEF Exclusive
<1>9. NoPageLost'
  BY <1>4, Zenon DEF IInv, NoPageLost
<1>10. SearchOK'
  BY DEF SearchOK, Return
<1> QED
  BY <1>6, <1>7, <1>8, <1>9, <1>5, <1>10 DEF IInv

(* A run given back is cleared whole, and its pages are counted once each. *)
LEMMA GiveBackOK ==
    ASSUME IInv, op = "idle", NEW p \in DOMAIN held,
           Clear(Run(p, held[p])), Forget(p),
           UNCHANGED <<op, i, count, consecutive, start_page>>
    PROVE  IInv'
<1> DEFINE R == Run(p, held[p])
<1>1. /\ p \in Nat
      /\ held[p] \in Nat
      /\ R \subseteq s_bitmap /\ R \subseteq Pages /\ R \subseteq Freed(Map)
      /\ R \subseteq Bits
  BY PagesHaveBits DEF IInv, TypeOK, Exclusive
<1>2. /\ s_bitmap' = s_bitmap \ R
      /\ s_free_pages' = s_free_pages + Cardinality(R)
      /\ Cardinality(R) = held[p] /\ IsFiniteSet(R)
  BY <1>1, RunSize, Zenon DEF Clear
<1> HIDE DEF R
<1>3. /\ DOMAIN held' = DOMAIN held \ {p}
      /\ \A q \in DOMAIN held' : held'[q] = held[q]
      /\ held' = [q \in DOMAIN held' |-> held'[q]]
  BY Zenon DEF Forget
<1>4. Boot'
  BY <1>1, <1>2, Zenon DEF IInv, Boot
<1>5. TypeOK'
  <2>1. s_free_pages' \in Nat
    BY <1>1, <1>2, SMT DEF IInv, TypeOK
  <2>2. DOMAIN held' \subseteq Nat /\ held' \in [DOMAIN held' -> Nat \ {0}]
    BY <1>3, Zenon DEF IInv, TypeOK
  <2> QED
    BY <1>2, <2>1, <2>2 DEF IInv, TypeOK
<1>6. Exclusive'
  <2>1. ASSUME NEW q \in DOMAIN held'
        PROVE  /\ Run(q, held'[q]) \subseteq s_bitmap' \cap Pages
               /\ Run(q, held'[q]) \subseteq Freed(Map)
    <3>1. Run(q, held[q]) \cap R = {}
      BY <1>3 DEF IInv, Exclusive, R
    <3> QED
      BY <1>2, <1>3, <3>1 DEF IInv, Exclusive
  <2> QED
    BY <1>3, <2>1, Zenon DEF IInv, Exclusive
<1>7. NoPageLost'
  <2> SUFFICES ASSUME NEW x \in Pages \cap Freed(Map), x \in s_bitmap'
               PROVE  \E q \in DOMAIN held' : x \in Run(q, held'[q])
    BY DEF NoPageLost
  <2>1. x \in s_bitmap /\ x \notin R
    BY <1>2
  <2>2. PICK q \in DOMAIN held : x \in Run(q, held[q])
    BY <2>1 DEF IInv, NoPageLost
  <2>3. q # p
    BY <2>1, <2>2 DEF R
  <2> QED
    BY <1>3, <2>2, <2>3, Zenon
<1>8. CountKeepsUp'
  <2>1. FreeNow' = FreeNow \cup R /\ FreeNow \cap R = {}
    BY <1>1, <1>2 DEF FreeNow
  <2>2. IsFiniteSet(FreeNow) /\ Cardinality(FreeNow) \in Nat
    BY FiniteBits, FS_Subset, FS_CardinalityType DEF FreeNow
  <2>3. Cardinality(FreeNow \cup R) =
          Cardinality(FreeNow) + Cardinality(R) - Cardinality(FreeNow \cap R)
    BY <1>2, <2>2, FS_Union, Zenon
  <2>4. Cardinality(FreeNow \cap R) = 0
    BY <2>1, FS_EmptySet
  <2> QED
    BY <1>1, <1>2, <2>1, <2>2, <2>3, <2>4, DriftType, SMT
    DEF IInv, TypeOK, CountKeepsUp
<1>9. SearchOK'
  BY DEF SearchOK
<1> QED
  BY <1>4, <1>5, <1>6, <1>7, <1>8, <1>9 DEF IInv

(* What pmm_alloc_page and pmm_alloc_pages take is a run they know is free. *)
LEMMA TakenRun ==
    ASSUME IInv, AllocPageTake \/ AllocPagesTake
    PROVE  \E p \in Nat, n \in Nat \ {0} :
              /\ Take(p, n) /\ Return
              /\ p + n <= s_total_pages
              /\ Run(p, n) \cap s_bitmap = {}
              /\ n = count
<1>1. CASE AllocPageTake
  <2>1. i \in Nat /\ i + 1 <= s_total_pages /\ count = 1
    BY <1>1, PagesHaveBits, SMT DEF AllocPageTake, IInv, TypeOK, SearchOK
  <2>2. Run(i, 1) \cap s_bitmap = {}
    BY <1>1, <2>1, SMT DEF AllocPageTake, Run
  <2> QED
    BY <1>1, <2>1, <2>2 DEF AllocPageTake
<1>2. CASE AllocPagesTake
  <2>1. /\ i \in Nat /\ consecutive \in Nat /\ consecutive <= i
        /\ count = consecutive + 1
        /\ count \in Nat \ {0}
        /\ i < s_total_pages /\ i \notin s_bitmap
        /\ op = "alloc_pages"
    BY <1>2, SMT DEF AllocPagesTake, IInv, TypeOK, SearchOK
  <2>2. RunStart = i - consecutive
    BY <2>1, SMT DEF RunStart, IInv, TypeOK, SearchOK
  <2>3. Run(i - consecutive, consecutive) \cap s_bitmap = {}
    BY <2>1 DEF IInv, SearchOK
  <2>4. Run(RunStart, count) \cap s_bitmap = {}
    BY <2>1, <2>2, <2>3, SMT DEF Run
  <2>5. RunStart \in Nat /\ RunStart + count <= s_total_pages
    BY <2>1, <2>2, PagesHaveBits, SMT
  <2> QED
    BY <1>2, <2>1, <2>4, <2>5 DEF AllocPagesTake
<1> QED
  BY <1>1, <1>2

(* Both ways of giving a run back clear exactly its pages. *)
LEMMA GivenBack ==
    ASSUME IInv, NEW p \in DOMAIN held, FreePage(p) \/ FreePages(p)
    PROVE  /\ op = "idle"
           /\ Clear(Run(p, held[p]))
           /\ Forget(p)
           /\ UNCHANGED <<op, i, count, consecutive, start_page>>
<1>1. p \in Nat /\ Run(p, held[p]) \subseteq s_bitmap \cap Pages
  BY DEF IInv, TypeOK, Exclusive
<1>2. CASE FreePage(p)
  <2>1. Run(p, held[p]) = {p}
    BY <1>1, <1>2, SMT DEF FreePage, Run
  <2>2. {p} \cap Pages \cap s_bitmap = Run(p, held[p])
    BY <1>1, <2>1
  <2> QED
    BY <1>2, <2>2, Zenon DEF FreePage
<1>3. CASE FreePages(p)
  <2>1. Run(p, held[p]) \cap s_bitmap = Run(p, held[p])
    BY <1>1
  <2> QED
    BY <1>3, <2>1, Zenon DEF FreePages
<1> QED
  BY <1>2, <1>3

LEMMA FailOK ==
    ASSUME IInv, AllocFail
    PROVE  IInv'
<1>1. TypeOK' /\ SearchOK'
  BY SMT DEF IInv, TypeOK, SearchOK, AllocFail, Return
<1> QED
  BY <1>1, SameBitmap DEF IInv, AllocFail

LEMMA NextOK == IInv /\ [Next]_vars => IInv'
<1> SUFFICES ASSUME IInv, [Next]_vars PROVE IInv'
  OBVIOUS
<1>1. CASE AllocPageCall
  BY <1>1, SearchCallOK, SMT DEF AllocPageCall
<1>2. ASSUME NEW n \in Counts, AllocPagesCall(n) PROVE IInv'
  BY <1>2, PmmAssumption, SearchCallOK DEF AllocPagesCall
<1>3. ASSUME NEW p \in DOMAIN held, FreePage(p) \/ FreePages(p) PROVE IInv'
  BY <1>3, GivenBack, GiveBackOK
<1>4. CASE AllocPageSkip
  <2>1. consecutive = 0
    BY <1>4, SMT DEF AllocPageSkip, IInv, TypeOK, SearchOK
  <2> QED
    BY <1>4, <2>1, UsedPageOK DEF AllocPageSkip
<1>5. CASE AllocPagesReset
  BY <1>5, UsedPageOK DEF AllocPagesReset
<1>6. CASE AllocPagesExtend
  BY <1>6, ExtendOK
<1>7. CASE AllocPageTake \/ AllocPagesTake
  BY <1>7, TakenRun, TakeOK
<1>8. CASE AllocFail
  BY <1>8, FailOK
<1>9. CASE UNCHANGED vars
  <2>1. TypeOK' /\ SearchOK'
    BY <1>9 DEF vars, IInv, TypeOK, SearchOK
  <2> QED
    BY <1>9, <2>1, SameBitmap DEF vars, IInv
<1> QED
  BY <1>1, <1>2, <1>3, <1>4, <1>5, <1>6, <1>7, <1>8, <1>9 DEF Next, SearchStep

LEMMA Invariance == Spec => []IInv
  BY InitOK, NextOK, PTL DEF Spec

-----------------------------------------------------------------------------
(* The bitmap, the counters and the callers' runs have their types, always. *)
THEOREM TypeCorrect == Spec => []TypeOK
<1>1. IInv => TypeOK
  BY DEF IInv
<1> QED
  BY <1>1, Invariance, PTL

(* No page is ever given to two callers, or to one while it is reserved. *)
THEOREM ExclusiveCorrect == Spec => []Exclusive
<1>1. IInv => Exclusive
  BY DEF IInv
<1> QED
  BY <1>1, Invariance, PTL

(* s_free_pages moves with the number of free pages, whatever is called. *)
THEOREM CountCorrect == Spec => []CountKeepsUp
<1>1. IInv => CountKeepsUp
  BY DEF IInv
<1> QED
  BY <1>1, Invariance, PTL

(* A page given back, or never given out, is free. *)
THEOREM NoPageLostCorrect == Spec => []NoPageLost
<1>1. IInv => NoPageLost
  BY DEF IInv
<1> QED
  BY <1>1, Invariance, PTL

-----------------------------------------------------------------------------
LEMMA TakeGrants ==
    ASSUME IInv, AllocPageTake \/ AllocPagesTake
    PROVE  \E p, len \in A!Aligned : A!Grant(p, len)
<1>1. PICK p \in Nat, n \in Nat \ {0} :
              /\ Take(p, n) /\ Return
              /\ p + n <= s_total_pages
              /\ Run(p, n) \cap s_bitmap = {}
              /\ n = count
  BY TakenRun
<1>2. p \in A!Aligned /\ n \in A!Aligned
  BY <1>1, PagesHaveBits, SMT DEF A!Aligned
<1>3. /\ Run(p, n) \subseteq Pages
      /\ Run(p, n) \subseteq Bits
      /\ p \in Run(p, n)
  BY <1>1, PagesHaveBits, SMT DEF Run, Pages
<1>4. ASSUME NEW q \in DOMAIN held
      PROVE  p # q /\ ~A!Overlap(p, n, q, held[q])
  <2>1. /\ q \in Nat
        /\ held[q] \in Nat \ {0}
        /\ Run(q, held[q]) \subseteq s_bitmap
    BY DEF IInv, TypeOK, Exclusive
  <2>2. Run(p, n) \cap Run(q, held[q]) = {}
    BY <1>1, <2>1
  <2>3. p # q
    BY <1>3, <2>1, <2>2, SMT DEF Run
  <2>4. ASSUME p < q + held[q], q < p + n PROVE FALSE
    <3>1. CASE p <= q
      BY <2>1, <2>2, <2>4, <3>1, SMT DEF Run
    <3>2. CASE q <= p
      BY <2>1, <2>2, <2>4, <3>2, SMT DEF Run
    <3> QED BY <2>1, <3>1, <3>2, SMT
  <2> QED
    BY <1>1, <2>1, <2>3, <2>4, SMT DEF A!Overlap
<1>5. A!Available(p, n)
  <2>1. A!Span(p, n) \cap (Pages \ Freed(Map)) = {}
    <3>1. A!Span(p, n) = Run(p, n)
      BY SMT DEF A!Span, Run
    <3> QED
      BY <1>1, <1>3, <3>1 DEF IInv, Boot
  <2> QED
    BY <1>1, <1>4, <2>1, SMT DEF A!Available
<1>6. /\ Pending = count /\ Pending' = NULL
      /\ count \in Nat /\ NULL \notin Nat
  BY PmmAssumption DEF Pending, AllocPageTake, AllocPagesTake, Return, IInv, TypeOK
<1>7. A!Grant(p, n)
  BY <1>1, <1>4, <1>5, <1>6, SMT DEF A!Grant, Take
<1> QED
  BY <1>2, <1>7

(* A search that reached the end has passed every run of that length. *)
LEMMA RefusalJustified ==
    ASSUME IInv, op # "idle", i >= s_total_pages, NEW p \in A!Aligned
    PROVE  ~A!Available(p, count)
<1> SUFFICES ASSUME A!Available(p, count) PROVE FALSE
  OBVIOUS
<1>1. /\ count \in Nat \ {0}
      /\ i = s_total_pages
  BY PagesHaveBits, SMT DEF IInv, TypeOK, SearchOK
<1>2. p \in Pages /\ p + count <= i
  BY <1>1, PagesHaveBits, SMT DEF A!Aligned, A!Available, Pages
<1>3. PICK x \in Run(p, count) : x \in s_bitmap
  BY <1>2 DEF IInv, SearchOK
<1>4. x \in Pages
  BY <1>1, <1>2, <1>3, PagesHaveBits, SMT DEF Run, Pages
<1>5. x \in Freed(Map)
  <2>1. A!Span(p, count) = Run(p, count)
    BY <1>1, <1>2, SMT DEF A!Span, Run, Pages
  <2> QED
    BY <1>3, <1>4, <2>1 DEF A!Available
<1>6. PICK q \in DOMAIN held : x \in Run(q, held[q])
  BY <1>3, <1>4, <1>5 DEF IInv, NoPageLost
<1>7. q \in Nat /\ held[q] \in Nat
  BY DEF IInv, TypeOK
<1>8. ~A!Overlap(p, count, q, held[q])
  BY DEF A!Available
<1> QED
  BY <1>1, <1>2, <1>3, <1>6, <1>7, <1>8, SMT DEF A!Overlap, Run, Pages

LEMMA StepImplements ==
    ASSUME IInv, [Next]_vars
    PROVE  [A!Next]_A!vars
<1>1. CASE AllocPageCall
  BY <1>1 DEF AllocPageCall, Search, A!Next, A!Request, Pending
<1>2. ASSUME NEW n \in Counts, AllocPagesCall(n) PROVE A!Next
  BY <1>2 DEF AllocPagesCall, Search, A!Next, A!Request, Pending
<1>3. ASSUME NEW p \in DOMAIN held, FreePage(p) \/ FreePages(p) PROVE A!Next
  BY <1>3, GivenBack DEF Forget, A!Next, A!Release, Pending
<1>4. CASE AllocPageSkip \/ AllocPagesReset \/ AllocPagesExtend
  BY <1>4 DEF AllocPageSkip, AllocPagesReset, AllocPagesExtend, A!vars, Pending
<1>5. CASE AllocPageTake \/ AllocPagesTake
  BY <1>5, TakeGrants DEF A!Next
<1>6. CASE AllocFail
  <2>1. /\ op # "idle" /\ i >= s_total_pages
        /\ Pending = count /\ Pending' = NULL /\ held' = held
        /\ count \in Nat
    BY <1>6 DEF AllocFail, Return, Pending, IInv, TypeOK
  <2>2. A!RoundUp(count) = count
    BY <2>1, SMT DEF A!RoundUp
  <2> QED
    BY <2>1, <2>2, PmmAssumption, RefusalJustified DEF A!Next, A!Refuse
<1>7. CASE UNCHANGED vars
  BY <1>7 DEF vars, A!vars, Pending
<1> QED
  BY <1>1, <1>2, <1>3, <1>4, <1>5, <1>6, <1>7 DEF Next, SearchStep

(***************************************************************************)
(* The page allocator implements the allocator the heap and the page       *)
(* tables rely on: runs are exclusive and avoid every page pmm_init did    *)
(* not free, and NULL means that no run of that many free pages exists.    *)
(***************************************************************************)
THEOREM Implementation == Spec => ImplementsAllocator
<1>1. Init => A!Init
  BY DEF Init, A!Init, Pending
<1>2. IInv /\ [Next]_vars => [A!Next]_A!vars
  BY StepImplements
<1> QED
  BY <1>1, <1>2, Invariance, PTL DEF Spec, A!Spec, ImplementsAllocator
==============================================================================
