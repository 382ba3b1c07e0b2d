---------------------------- MODULE PmmInitProofs -----------------------------
(***************************************************************************)
(* pmm_init on every memory map, for every size of page: its three loops   *)
(* compute the functions of MemMap, and what these have to do with the     *)
(* usable memory of the map.  The code divides and rounds; here addresses  *)
(* are first written as multiples of the page, and the rest is counting.   *)
(***************************************************************************)
EXTENDS PmmInit, FiniteSetTheorems, SequenceTheorems, WellFoundedInduction, TLAPS

-----------------------------------------------------------------------------
(* Multiples of a page. *)
P == PageSize

LEMMA Mul ==
    ASSUME NEW a \in Int, NEW b \in Int
    PROVE  /\ a * P \in Int /\ (a + b) * P = a * P + b * P /\ (a + 1) * P = a * P + P
           /\ a < b <=> a * P < b * P
           /\ a <= b <=> a * P <= b * P
<1>1. P \in Int /\ P >= 1
  BY MemMapAssumption DEF P
<1>2. a * P \in Int /\ b * P \in Int /\ (a + b) * P = a * P + b * P /\ (a + 1) * P = a * P + P
  BY <1>1
<1>3. ASSUME NEW c \in Int, NEW d \in Int, c < d PROVE c * P < d * P
  <2>1. (d - c) * P = d * P - c * P
    BY <1>1
  <2>2. d - c >= 1 /\ d - c \in Int
    BY <1>3
  <2>3. ASSUME NEW e \in Int, e >= 1 PROVE e * P >= 1
    BY <1>1, <2>3
  <2> QED
    BY <1>1, <2>1, <2>2, <2>3
<1>4. a < b => a * P < b * P
  BY <1>3
<1>5. b < a => b * P < a * P
  BY <1>3
<1> QED
  BY <1>1, <1>2, <1>4, <1>5

LEMMA Quotient ==
    ASSUME NEW n \in Nat
    PROVE  /\ n \div P \in Nat /\ (n \div P) * P <= n /\ n < (n \div P) * P + P
           /\ n % P = 0 <=> n = (n \div P) * P
<1>1. P \in Int /\ P >= 1
  BY MemMapAssumption DEF P
<1> QED
  BY <1>1

LEMMA Exact == ASSUME NEW q \in Nat PROVE (q * P) \div P = q
<1>1. q * P \in Nat
  BY MemMapAssumption DEF P
<1> DEFINE n == q * P  d == n \div P
<1>2. d \in Nat /\ d * P <= n /\ n < d * P + P
  BY <1>1, Quotient
<1>3. n < (d + 1) * P
  BY <1>2, Mul
<1> HIDE DEF d
<1>4. d <= q /\ q < d + 1
  BY <1>2, <1>3, Mul
<1> QED
  BY <1>2, <1>4 DEF d

(* So many pages hold n bytes. *)
LEMMA Ceiling ==
    ASSUME NEW n \in Nat
    PROVE  /\ PagesFor(n) \in Nat
           /\ \A k \in Int : k * P < n <=> k < PagesFor(n)
<1>1. P \in Int /\ P >= 1
  BY MemMapAssumption DEF P
<1> DEFINE c == (n + P - 1) \div P
<1>2. n + P - 1 \in Nat
  BY <1>1
<1>3. c \in Nat /\ c * P <= n + P - 1 /\ n + P - 1 < c * P + P
  BY <1>2, Quotient
<1> HIDE DEF c
<1>4. ASSUME NEW k \in Int PROVE k * P < n <=> k < c
  <2>1. CASE k < c
    <3>1. c \in Int /\ k + 1 \in Int /\ k + 1 <= c
      BY <1>3, <2>1
    <3>2. (k + 1) * P <= c * P /\ c * P \in Int
      BY <3>1, Mul
    <3>3. (k + 1) * P = k * P + P /\ k * P \in Int
      BY Mul
    <3> QED
      BY <1>1, <1>3, <2>1, <3>2, <3>3
  <2>2. CASE c <= k
    <3>1. c \in Int
      BY <1>3
    <3>2. c * P <= k * P /\ k * P \in Int /\ c * P \in Int
      BY <2>2, <3>1, Mul
    <3> QED
      BY <1>1, <1>3, <2>2, <3>2
  <2> QED
    BY <1>3, <2>1, <2>2
<1> QED
  BY <1>3, <1>4 DEF c, PagesFor, P

(* Rounded up is one more than rounded down, unless nothing is rounded. *)
LEMMA CeilingIs ==
    ASSUME NEW n \in Nat
    PROVE  PagesFor(n) = (n \div P) + (IF n % P = 0 THEN 0 ELSE 1)
<1> DEFINE d == n \div P
<1>1. d \in Nat /\ d * P <= n /\ n < d * P + P /\ (n % P = 0 <=> n = d * P)
  BY Quotient
<1> HIDE DEF d
<1>2. /\ d \in Int /\ d - 1 \in Int /\ d + 1 \in Int
      /\ d * P \in Int /\ (d + 1) * P = d * P + P
  BY <1>1, Mul
<1>3. (d - 1) * P \in Int /\ (d - 1) * P < d * P
  <2> DEFINE c == d - 1
  <2>1. c \in Int /\ c < d
    BY <1>2
  <2> HIDE DEF c
  <2>2. c * P \in Int /\ c * P < d * P
    BY <1>2, <2>1, Mul
  <2> QED
    BY <2>2 DEF c
<1>4. /\ PagesFor(n) \in Nat
      /\ d * P < n <=> d < PagesFor(n)
      /\ (d - 1) * P < n <=> d - 1 < PagesFor(n)
      /\ (d + 1) * P < n <=> d + 1 < PagesFor(n)
  BY <1>2, Ceiling
<1>5. PagesFor(n) = d + (IF n % P = 0 THEN 0 ELSE 1)
  <2>1. P \in Int /\ P >= 1
    BY MemMapAssumption DEF P
  <2>2. d - 1 < PagesFor(n) /\ ~(d + 1 < PagesFor(n))
    BY <1>1, <1>2, <1>3, <1>4, <2>1
  <2>3. d < PagesFor(n) <=> n % P # 0
    BY <1>1, <1>2, <1>4
  <2> QED
    BY <1>2, <1>4, <2>2, <2>3
<1> QED
  BY <1>5 DEF d

-----------------------------------------------------------------------------
(* The greatest and the least of a set. *)
LEMMA MaxIs ==
    ASSUME NEW S, S \subseteq Int, NEW x \in S, \A y \in S : x >= y
    PROVE  Max(S) = x
<1>1. Max(S) \in S /\ \A y \in S : Max(S) >= y
  BY DEF Max
<1>2. Max(S) \in Int /\ x \in Int /\ Max(S) >= x /\ x >= Max(S)
  BY <1>1
<1> QED
  BY <1>2

LEMMA MinIs ==
    ASSUME NEW S, S \subseteq Int, NEW x \in S, \A y \in S : x <= y
    PROVE  Min(S) = x
<1>1. Min(S) \in S /\ \A y \in S : Min(S) <= y
  BY DEF Min
<1>2. Min(S) \in Int /\ x \in Int /\ Min(S) <= x /\ x <= Min(S)
  BY <1>1
<1> QED
  BY <1>2

Below == {p \in Nat \X Nat : p[1] < p[2]}

LEMMA HasLeast ==
    ASSUME NEW S, S \subseteq Nat, S # {}
    PROVE  \E x \in S : \A y \in S : x <= y
<1>1. Below = OpToRel(<, Nat)
  BY DEF Below, OpToRel
<1>2. IsWellFoundedOn(Below, Nat)
  BY <1>1, NatLessThanWellFounded
<1>3. PICK x \in S : \A y \in S : <<y, x>> \notin Below
  BY <1>2, WFMin
<1>4. ASSUME NEW y \in S PROVE x <= y
  <2>1. x \in Nat /\ y \in Nat
    OBVIOUS
  <2>2. y < x => <<y, x>> \in Below
    BY <2>1 DEF Below
  <2> QED
    BY <1>3, <2>1, <2>2
<1> QED
  BY <1>4

LEMMA HasGreatest ==
    ASSUME NEW S, NEW n \in Nat, S \subseteq 0 .. n, S # {}
    PROVE  \E x \in S : \A y \in S : x >= y
<1> DEFINE T == {n - y : y \in S}
<1>1. T \subseteq Nat /\ T # {}
  <2>1. ASSUME NEW y \in S PROVE n - y \in Nat
    <3>1. y \in 0 .. n
      OBVIOUS
    <3> QED
      BY <3>1
  <2> QED
    BY <2>1
<1>2. PICK t \in T : \A u \in T : t <= u
  <2> HIDE DEF T
  <2> QED
    BY <1>1, HasLeast
<1>3. PICK x \in S : t = n - x
  BY <1>2
<1>4. ASSUME NEW y \in S PROVE x >= y
  <2>1. n - x <= n - y
    BY <1>2, <1>3
  <2> QED
    BY <2>1
<1> QED
  BY <1>4

-----------------------------------------------------------------------------
(* The usable entries of a map, in pages. *)
From(m, j) == m[j].base \div P
Size(m, j) == m[j].length \div P
Past(m, j) == From(m, j) + Size(m, j)

LEMMA EntryIs ==
    ASSUME NEW m, WellFormed(m), NEW j \in Usable(m)
    PROVE  /\ From(m, j) \in Nat /\ Size(m, j) \in Nat \ {0} /\ Past(m, j) \in Nat
           /\ m[j].base = From(m, j) * P /\ m[j].length = Size(m, j) * P
           /\ Top(m[j]) = Past(m, j) * P
           /\ Top(m[j]) \in Nat
           /\ PagesOf(m[j]) = From(m, j) .. (Past(m, j) - 1)
           /\ j \in 1 .. Len(m) /\ m[j].usable /\ Len(m) \in Nat
<1>1. /\ m \in Seq([base : Nat, length : Nat \ {0}, usable : BOOLEAN])
      /\ m[j].base % P = 0 /\ m[j].length % P = 0 /\ m[j].usable /\ j \in DOMAIN m
  BY DEF WellFormed, Usable, P
<1>2. j \in 1 .. Len(m) /\ Len(m) \in Nat
      /\ m[j] \in [base : Nat, length : Nat \ {0}, usable : BOOLEAN]
  <2> DEFINE E == [base : Nat, length : Nat \ {0}, usable : BOOLEAN]
  <2>1. m \in Seq(E)
    BY <1>1
  <2> HIDE DEF E
  <2>2. j \in 1 .. Len(m) /\ Len(m) \in Nat
    BY <1>1, <2>1, LenProperties
  <2>3. m[j] \in E
    BY <2>1, <2>2, ElementOfSeq
  <2> QED
    BY <2>2, <2>3 DEF E
<1> DEFINE b == m[j].base  l == m[j].length
<1>3. b \in Nat /\ l \in Nat \ {0} /\ b % P = 0 /\ l % P = 0
  BY <1>1, <1>2
<1> HIDE DEF b, l
<1>4. b \div P \in Nat /\ b = (b \div P) * P /\ l \div P \in Nat /\ l = (l \div P) * P
  BY <1>3, Quotient
<1>5. l \div P # 0
  <2>1. 0 * P = 0
    BY MemMapAssumption DEF P
  <2> QED
    BY <1>3, <1>4, <2>1, Zenon
<1>6. b + l = ((b \div P) + (l \div P)) * P
  <2>1. b \div P \in Int /\ l \div P \in Int
    BY <1>4
  <2>2. ((b \div P) + (l \div P)) * P = (b \div P) * P + (l \div P) * P
    BY <2>1, Mul
  <2> QED
    BY <1>4, <2>2, Zenon
<1>7. (b + l) \div P = (b \div P) + (l \div P)
  <2>1. (b \div P) + (l \div P) \in Nat
    BY <1>4
  <2> QED
    BY <1>6, <2>1, Exact, Zenon
<1>8. b + l \in Nat
  BY <1>3
<1> QED
  BY <1>1, <1>2, <1>3, <1>4, <1>5, <1>6, <1>7, <1>8 DEF b, l, From, Size, Past, Top, PagesOf, P

LEMMA InOrder ==
    ASSUME NEW m, WellFormed(m), NEW j \in Usable(m), NEW k \in Usable(m), j < k
    PROVE  Past(m, j) <= From(m, k)
<1>1. Top(m[j]) <= m[k].base
  BY DEF WellFormed, Usable
<1>2. Past(m, j) \in Int /\ From(m, k) \in Int
      /\ Top(m[j]) = Past(m, j) * P /\ m[k].base = From(m, k) * P
  BY EntryIs
<1> QED
  BY <1>1, <1>2, Mul

LEMMA HighestIs ==
    ASSUME NEW m, WellFormed(m), NEW x \in Nat,
           x = 0 \/ \E j \in Usable(m) : x = Top(m[j]),
           \A j \in Usable(m) : Top(m[j]) <= x
    PROVE  HighestAddr(m) = x
<1> DEFINE S == {Top(m[j]) : j \in Usable(m)} \cup {0}
<1>1. S \subseteq Int
  BY EntryIs
<1>2. x \in S /\ \A y \in S : x >= y
  OBVIOUS
<1>3. Max(S) = x
  <2> HIDE DEF S
  <2> QED
    BY <1>1, <1>2, MaxIs
<1> QED
  BY <1>3 DEF HighestAddr

(* The memory's pages, the bitmap's bytes, and the entry that has room. *)
LEMMA MemoryIs ==
    ASSUME NEW m, WellFormed(m)
    PROVE  /\ HighestAddr(m) \in Nat /\ TotalPages(m) \in Nat /\ BitmapBytes(m) \in Nat
           /\ TotalPages(m) <= 8 * BitmapBytes(m)
           /\ \A j \in Usable(m) : Past(m, j) <= TotalPages(m)
           /\ Host(m) \in Hosts(m) /\ \A j \in Hosts(m) : Host(m) <= j
<1>1. m \in Seq([base : Nat, length : Nat \ {0}, usable : BOOLEAN]) /\ Hosts(m) # {}
  BY DEF WellFormed
<1>2. /\ Len(m) \in Nat /\ Usable(m) \subseteq 0 .. Len(m) /\ Usable(m) \subseteq Nat
      /\ Usable(m) # {}
  BY <1>1, LenProperties DEF Usable, Hosts
<1>3. PICK k \in Usable(m) : \A j \in Usable(m) : k >= j
  BY <1>2, HasGreatest
<1>4. ASSUME NEW j \in Usable(m) PROVE Past(m, j) <= Past(m, k)
  <2>1. Past(m, j) \in Nat /\ Past(m, k) \in Nat /\ From(m, k) \in Nat /\ From(m, k) <= Past(m, k)
    BY EntryIs DEF Past
  <2>2. j = k \/ j < k
    BY <1>2, <1>3
  <2>3. j < k => Past(m, j) <= From(m, k)
    BY InOrder
  <2> QED
    BY <2>1, <2>2, <2>3
<1>5. ASSUME NEW j \in Usable(m) PROVE Top(m[j]) <= Top(m[k])
  <2>1. Past(m, j) \in Int /\ Past(m, k) \in Int
        /\ Top(m[j]) = Past(m, j) * P /\ Top(m[k]) = Past(m, k) * P
    BY EntryIs
  <2> QED
    BY <1>4, <2>1, Mul
<1>6. HighestAddr(m) = Top(m[k]) /\ Top(m[k]) \in Nat
  <2>1. Top(m[k]) \in Nat
    BY EntryIs
  <2> QED
    BY <1>5, <2>1, HighestIs
<1>7. TotalPages(m) = Past(m, k) /\ Past(m, k) \in Nat
  <2>1. Past(m, k) \in Nat /\ Top(m[k]) = Past(m, k) * P
    BY EntryIs
  <2> QED
    BY <1>6, <2>1, Exact DEF TotalPages, P
<1>8. BitmapBytes(m) \in Nat /\ TotalPages(m) <= 8 * BitmapBytes(m)
  BY <1>7 DEF BitmapBytes
<1>9. PICK x \in Hosts(m) : \A y \in Hosts(m) : x <= y
  <2>1. Hosts(m) \subseteq Nat
    BY <1>2 DEF Hosts
  <2> QED
    BY <1>1, <2>1, HasLeast
<1>10. Host(m) = x
  <2>1. Hosts(m) \subseteq Int
    BY <1>2 DEF Hosts
  <2> QED
    BY <1>9, <2>1, MinIs DEF Host
<1> QED
  BY <1>4, <1>6, <1>7, <1>8, <1>9, <1>10

-----------------------------------------------------------------------------
(* The map after the bitmap was placed, in pages. *)
Hidden(m) == PagesFor(BitmapBytes(m))
Spare(m) == IF BitmapBytes(m) % P = 0 THEN 0 ELSE 1
Lower(m, j) == From(m, j) + (IF j = Host(m) THEN Hidden(m) ELSE 0)
Upper(m, j) == Past(m, j) + (IF j = Host(m) THEN Spare(m) ELSE 0)

LEMMA HostIs ==
    ASSUME NEW m, WellFormed(m)
    PROVE  /\ Host(m) \in Usable(m) /\ Hidden(m) \in Nat /\ Spare(m) \in {0, 1}
           /\ BitmapBytes(m) \in Nat /\ BitmapBytes(m) <= m[Host(m)].length
           /\ Hidden(m) = BitmapBytes(m) \div P + Spare(m)
           /\ Hidden(m) <= Size(m, Host(m))
           /\ BitmapPages(m) = From(m, Host(m)) .. (From(m, Host(m)) + Hidden(m) - 1)
<1>1. /\ Host(m) \in Usable(m) /\ BitmapBytes(m) \in Nat /\ BitmapBytes(m) <= m[Host(m)].length
  <2>1. BitmapBytes(m) \in Nat /\ Host(m) \in Hosts(m)
    BY MemoryIs
  <2>2. Host(m) \in Usable(m) /\ m[Host(m)].length >= BitmapBytes(m)
    BY <2>1 DEF Hosts
  <2>3. m[Host(m)].length = Size(m, Host(m)) * P /\ Size(m, Host(m)) \in Nat
    BY <2>2, EntryIs
  <2>4. Size(m, Host(m)) * P \in Int
    BY <2>3, Mul
  <2> QED
    BY <2>1, <2>2, <2>3, <2>4
<1>2. Hidden(m) \in Nat /\ Spare(m) \in {0, 1} /\ Hidden(m) = BitmapBytes(m) \div P + Spare(m)
  BY <1>1, Ceiling, CeilingIs DEF Hidden, Spare
<1>3. Hidden(m) <= Size(m, Host(m))
  <2> DEFINE l == Size(m, Host(m))
  <2>1. l \in Int /\ m[Host(m)].length = l * P
    BY <1>1, EntryIs
  <2>2. l * P \in Int
    BY <2>1, Mul
  <2>3. l * P < BitmapBytes(m) <=> l < Hidden(m)
    BY <1>1, <2>1, Ceiling DEF Hidden
  <2> HIDE DEF l
  <2>4. Hidden(m) <= l
    BY <1>1, <1>2, <2>1, <2>2, <2>3
  <2> QED
    BY <2>4 DEF l
<1> QED
  BY <1>1, <1>2, <1>3 DEF BitmapPages, From, Hidden, P

LEMMA AdjustedIs ==
    ASSUME NEW m, WellFormed(m)
    PROVE  /\ DOMAIN Adjusted(m) = DOMAIN m /\ Len(Adjusted(m)) = Len(m)
           /\ Adjusted(m)[Host(m)].base = m[Host(m)].base + Hidden(m) * P
           /\ Adjusted(m)[Host(m)].length = m[Host(m)].length - BitmapBytes(m)
           /\ \A j \in DOMAIN m :
                /\ Adjusted(m)[j].usable = m[j].usable
                /\ j # Host(m) => Adjusted(m)[j] = m[j]
<1> DEFINE h == Host(m)  E == [base : Nat, length : Nat \ {0}, usable : BOOLEAN]
<1>1. m \in Seq(E) /\ h \in DOMAIN m
  BY HostIs DEF WellFormed, Usable
<1>2. m[h] \in E
  <2> HIDE DEF E, h
  <2>1. h \in 1 .. Len(m)
    BY <1>1, LenProperties
  <2> QED
    BY <1>1, <2>1, ElementOfSeq
<1>3. Adjusted(m) = [m EXCEPT ![h].base = @ + Hidden(m) * P, ![h].length = @ - BitmapBytes(m)]
  BY DEF Adjusted, WellFormed, Hidden, P
<1> DEFINE b == m[h].base + Hidden(m) * P  l == m[h].length - BitmapBytes(m)
<1> DEFINE once == [m EXCEPT ![h].base = b]
<1>4. /\ DOMAIN once = DOMAIN m /\ once[h] = [m[h] EXCEPT !.base = b]
      /\ \A j \in DOMAIN m : j # h => once[j] = m[j]
  BY <1>1, Zenon
<1>5. once[h].base = b /\ once[h].length = m[h].length /\ once[h].usable = m[h].usable
      /\ "length" \in DOMAIN once[h] /\ "base" \in DOMAIN once[h] /\ "usable" \in DOMAIN once[h]
  <2> HIDE DEF b, once
  <2>1. once[h] = [m[h] EXCEPT !.base = b]
    BY <1>4
  <2> QED
    BY <1>2, <2>1
<1>6. Adjusted(m) = [once EXCEPT ![h].length = l]
  BY <1>1, <1>3, <1>4, <1>5, Zenon
<1> HIDE DEF once, b, l
<1>7. /\ DOMAIN Adjusted(m) = DOMAIN m /\ Adjusted(m)[h] = [once[h] EXCEPT !.length = l]
      /\ \A j \in DOMAIN m : j # h => Adjusted(m)[j] = m[j]
  BY <1>1, <1>4, <1>6, Zenon
<1>8. Adjusted(m)[h].base = b /\ Adjusted(m)[h].length = l /\ Adjusted(m)[h].usable = m[h].usable
  BY <1>5, <1>7, Zenon
<1>9. Len(Adjusted(m)) = Len(m)
  <2>1. Adjusted(m) \in Seq(E \cup {Adjusted(m)[h]})
    <3>1. m \in [1 .. Len(m) -> E] /\ Len(m) \in Nat
      BY <1>1, LenProperties
    <3>2. DOMAIN Adjusted(m) = 1 .. Len(m)
      BY <1>1, <1>7, LenProperties
    <3>3. \A j \in 1 .. Len(m) : Adjusted(m)[j] \in E \cup {Adjusted(m)[h]}
      BY <1>7, <3>1, <3>2, Zenon
    <3>4. Adjusted(m) \in [1 .. Len(m) -> E \cup {Adjusted(m)[h]}]
      BY <1>3, <3>2, <3>3, Zenon
    <3> QED
      BY <3>1, <3>4, IsASeq
  <2> QED
    BY <1>1, <1>7, <2>1, LenProperties
<1> QED
  BY <1>7, <1>8, <1>9 DEF b, l

(* What the loop frees of an entry. *)
LEMMA FreedOf ==
    ASSUME NEW m, WellFormed(m), NEW j \in Usable(m)
    PROVE  /\ Lower(m, j) \in Nat /\ Upper(m, j) \in Nat /\ Lower(m, j) <= Upper(m, j)
           /\ Adjusted(m)[j].base = Lower(m, j) * P
           /\ Adjusted(m)[j].usable
           /\ \A q \in Int : q * P < Top(Adjusted(m)[j]) <=> q < Upper(m, j)
           /\ PagesFreed(Adjusted(m)[j]) = Lower(m, j) .. (Upper(m, j) - 1)
<1> DEFINE h == Host(m)  a == Adjusted(m)[j]
<1>1. /\ From(m, j) \in Nat /\ Size(m, j) \in Nat \ {0} /\ Past(m, j) \in Nat
      /\ m[j].base = From(m, j) * P /\ m[j].length = Size(m, j) * P
      /\ Top(m[j]) = Past(m, j) * P /\ m[j].usable
      /\ j \in DOMAIN m
  BY EntryIs DEF Usable
<1>2. /\ h \in Usable(m) /\ Hidden(m) \in Nat /\ Spare(m) \in {0, 1} /\ BitmapBytes(m) \in Nat
      /\ BitmapBytes(m) <= m[h].length /\ Hidden(m) = BitmapBytes(m) \div P + Spare(m)
      /\ Hidden(m) <= Size(m, h)
  BY HostIs
<1>3. Lower(m, j) \in Nat /\ Upper(m, j) \in Nat /\ Lower(m, j) <= Upper(m, j)
  BY <1>1, <1>2 DEF Lower, Upper, Past
<1>4. a.base = Lower(m, j) * P /\ a.length \in Nat
      /\ \A q \in Int : q * P < Top(a) <=> q < Upper(m, j)
  <2>1. CASE j # h
    <3>1. a = m[j] /\ Lower(m, j) = From(m, j) /\ Upper(m, j) = Past(m, j)
      BY <1>1, <2>1, AdjustedIs DEF Lower, Upper
    <3>2. m[j].length \in Nat
      BY <1>1, MemMapAssumption DEF P
    <3>3. ASSUME NEW q \in Int PROVE q * P < Past(m, j) * P <=> q < Past(m, j)
      <4>1. Past(m, j) \in Int
        BY <1>1
      <4> QED
        BY <4>1, Mul
    <3> QED
      BY <1>1, <3>1, <3>2, <3>3
  <2>2. CASE j = h
    <3> DEFINE f == From(m, j)  n == Hidden(m)  s == Size(m, j)  b == BitmapBytes(m)  d == b \div P
    <3>1. /\ a.base = f * P + n * P /\ a.length = s * P - b
          /\ f \in Int /\ n \in Int /\ s \in Int /\ b \in Nat /\ b <= s * P
          /\ Lower(m, j) = f + n /\ Upper(m, j) = f + s + Spare(m) /\ n = d + Spare(m)
      BY <1>1, <1>2, <2>2, AdjustedIs DEF Lower, Upper, Past
    <3>2. d \in Nat /\ d * P <= b /\ b < d * P + P
      BY <3>1, Quotient
    <3>3. Spare(m) \in Int
      BY <1>2
    <3> HIDE DEF f, n, s, b, d
    <3>4. f * P \in Int /\ n * P \in Int /\ s * P \in Int /\ (f + n) * P = f * P + n * P
      BY <3>1, Mul
    <3>5. a.base = Lower(m, j) * P /\ a.length \in Nat
      BY <3>1, <3>4
    <3>6. ASSUME NEW q \in Int PROVE q * P < Top(a) <=> q < Upper(m, j)
      <4> DEFINE x == f + n + s - q
      <4>1. x \in Int /\ d \in Int /\ d + 1 \in Int /\ f + n + s \in Int /\ (f + n) \in Int
        BY <3>1, <3>2
      <4>2. d < x <=> d * P < x * P
        BY <4>1, Mul
      <4>3. d + 1 <= x <=> (d + 1) * P <= x * P
        BY <4>1, Mul
      <4>4. /\ (d + 1) * P = d * P + P /\ d * P \in Int /\ x * P \in Int /\ q * P \in Int
        BY <4>1, Mul
      <4>5. (x + q) * P = x * P + q * P
        BY <4>1, Mul
      <4>6. (f + n + s) * P = (f + n) * P + s * P
        BY <3>1, <4>1, Mul
      <4>7. x + q = f + n + s
        BY <3>1
      <4>8. x * P + q * P = f * P + n * P + s * P
        BY <3>4, <4>5, <4>6, <4>7
      <4>9. Top(a) = f * P + n * P + (s * P - b)
        BY <3>1 DEF Top
      <4>10. q < Upper(m, j) <=> d < x
        BY <3>1, <3>2, <3>3
      <4> HIDE DEF x, a
      <4>11. q * P < Top(a) <=> b < x * P
        BY <3>1, <3>4, <4>4, <4>8, <4>9
      <4>12. P \in Int
        BY MemMapAssumption DEF P
      <4>13. b < x * P <=> d < x
        <5>1. d < x => b < x * P
          BY <3>1, <3>2, <4>1, <4>3, <4>4, <4>12
        <5>2. b < x * P => d < x
          BY <3>1, <3>2, <4>2, <4>4
        <5> QED
          BY <5>1, <5>2
      <4> QED
        BY <4>10, <4>11, <4>13
    <3> QED
      BY <3>5, <3>6
  <2> QED
    BY <2>1, <2>2
<1>5. PagesFreed(a) = Lower(m, j) .. (Upper(m, j) - 1)
  <2> DEFINE lo == Lower(m, j)  up == Upper(m, j)  c == PagesFor(a.length)
  <2>1. a.base \div P = lo
    BY <1>3, <1>4, Exact
  <2>2. c \in Nat /\ \A k \in Int : k * P < a.length <=> k < c
    BY <1>4, Ceiling
  <2>3. lo \in Int /\ up \in Int /\ lo <= up
    BY <1>3
  <2>4. Top(a) = lo * P + a.length /\ a.length \in Nat
    BY <1>4 DEF Top
  <2>5. \A q \in Int : q * P < Top(a) <=> q < up
    BY <1>4
  <2> HIDE DEF lo, up, a, c
  <2>6. ASSUME NEW k \in Int PROVE k < c <=> lo + k < up
    <3>1. (lo + k) * P = lo * P + k * P /\ lo * P \in Int /\ k * P \in Int /\ lo + k \in Int
      BY <2>3, Mul
    <3>2. (lo + k) * P < Top(a) <=> lo + k < up
      BY <2>5, <3>1
    <3>3. (lo + k) * P < Top(a) <=> k * P < a.length
      BY <2>4, <3>1
    <3> QED
      BY <2>2, <3>2, <3>3
  <2>7. c < c <=> lo + c < up
    BY <2>2, <2>6
  <2>8. up - lo < c <=> lo + (up - lo) < up
    BY <2>3, <2>6
  <2>9. lo + c = up
    BY <2>2, <2>3, <2>7, <2>8
  <2> QED
    BY <2>1, <2>2, <2>3, <2>9 DEF PagesFreed, P, lo, up, c
<1>6. a.usable
  BY <1>1, AdjustedIs
<1> QED
  BY <1>3, <1>4, <1>5, <1>6

-----------------------------------------------------------------------------
(* The clearings of a map's bits, and those that are done. *)
LEMMA FreedBitsAre ==
    ASSUME NEW m, WellFormed(m)
    PROVE  /\ \A j, p : <<j, p>> \in FreedBits(m) <=>
                 j \in Usable(m) /\ p \in Lower(m, j) .. (Upper(m, j) - 1)
           /\ \A b \in FreedBits(m) :
                 /\ b = <<b[1], b[2]>> /\ b[1] \in Usable(m) /\ b[2] \in Nat
                 /\ Lower(m, b[1]) <= b[2] /\ b[2] < Upper(m, b[1])
           /\ IsFiniteSet(FreedBits(m))
           /\ Freed(m) = {b[2] : b \in FreedBits(m)}
<1>1. \A j \in Usable(m) :
        /\ PagesFreed(Adjusted(m)[j]) = Lower(m, j) .. (Upper(m, j) - 1)
        /\ Lower(m, j) \in Nat /\ Upper(m, j) \in Nat
  BY FreedOf
<1>2. ASSUME NEW j, NEW p
      PROVE  <<j, p>> \in FreedBits(m) <=> j \in Usable(m) /\ p \in Lower(m, j) .. (Upper(m, j) - 1)
  BY <1>1 DEF FreedBits
<1>3. ASSUME NEW b \in FreedBits(m)
      PROVE  /\ b = <<b[1], b[2]>> /\ b[1] \in Usable(m)
             /\ b[2] \in Lower(m, b[1]) .. (Upper(m, b[1]) - 1)
  <2>1. PICK j \in Usable(m) : b \in {j} \X PagesFreed(Adjusted(m)[j])
    BY DEF FreedBits
  <2>2. b = <<b[1], b[2]>> /\ b[1] = j
    BY <2>1
  <2> QED
    BY <1>2, <2>1, <2>2, Zenon
<1>4. ASSUME NEW b \in FreedBits(m)
      PROVE  b[2] \in Nat /\ Lower(m, b[1]) <= b[2] /\ b[2] < Upper(m, b[1])
  <2>1. Lower(m, b[1]) \in Nat /\ Upper(m, b[1]) \in Nat
    BY <1>1, <1>3
  <2> QED
    BY <1>3, <2>1
<1>5. IsFiniteSet(FreedBits(m))
  <2> DEFINE T == TotalPages(m)  S == (1 .. Len(m)) \X (0 .. T)
  <2>1. T \in Nat /\ \A j \in Usable(m) : Past(m, j) <= T
    BY MemoryIs
  <2>2. Len(m) \in Nat
    BY LenProperties DEF WellFormed
  <2>3. IsFiniteSet(S)
    <3>1. IsFiniteSet(1 .. Len(m)) /\ IsFiniteSet(0 .. T)
      BY <2>1, <2>2, FS_Interval
    <3> QED
      BY <3>1, FS_Product
  <2>4. FreedBits(m) \subseteq S
    <3> SUFFICES ASSUME NEW b \in FreedBits(m) PROVE b \in S
      OBVIOUS
    <3>1. b[1] \in 1 .. Len(m) /\ Past(m, b[1]) \in Nat
      BY <1>3, EntryIs
    <3>2. Upper(m, b[1]) <= T + 1
      <4>1. Past(m, b[1]) <= T /\ Spare(m) \in {0, 1}
        BY <1>3, <2>1, HostIs
      <4> QED
        BY <2>1, <3>1, <4>1 DEF Upper
    <3>3. b[2] \in 0 .. T
      <4>1. Upper(m, b[1]) \in Nat
        BY <1>1, <1>3
      <4> QED
        BY <1>4, <2>1, <3>2, <4>1
    <3> QED
      BY <1>3, <3>1, <3>3
  <2> QED
    BY <2>3, <2>4, FS_Subset
<1>6. Freed(m) = {b[2] : b \in FreedBits(m)}
  <2>1. ASSUME NEW p \in Freed(m) PROVE \E b \in FreedBits(m) : p = b[2]
    <3>1. PICK j \in Usable(m) : p \in PagesFreed(Adjusted(m)[j])
      BY DEF Freed
    <3>2. <<j, p>> \in FreedBits(m)
      BY <1>1, <1>2, <3>1
    <3> QED
      BY <3>2
  <2>2. ASSUME NEW b \in FreedBits(m) PROVE b[2] \in Freed(m)
    BY <1>1, <1>3, Zenon DEF Freed
  <2> QED
    BY <2>1, <2>2
<1> QED
  BY <1>2, <1>3, <1>4, <1>5, <1>6

BitsOf(m) == 0 .. (8 * BitmapBytes(m) - 1)

(* The clearings up to the entry and the address the loop is at. *)
Counted ==
    {b \in FreedBits(booted) : b[1] < i \/ (b[1] = i /\ addr # NotStarted /\ b[2] < addr \div P)}

CountedPages == {b[2] : b \in Counted}

Untouched == map = booted /\ s_bitmap = {} /\ s_free_pages = 0 /\ addr = NotStarted

Searching ==
    /\ Untouched
    /\ s_highest_addr \in Nat
    /\ s_highest_addr = 0 \/ \E j \in Usable(booted) : s_highest_addr = Top(booted[j])
    /\ \A j \in Usable(booted) : j < i => Top(booted[j]) <= s_highest_addr

Placing == Untouched /\ \A j \in Hosts(booted) : i <= j

Freeing ==
    /\ map = Adjusted(booted)
    /\ s_bitmap = BitsOf(booted) \ CountedPages
    /\ s_free_pages = Cardinality(Counted)
    /\ addr = NotStarted \/ \E q \in Nat : /\ addr = q * P /\ i \in Usable(booted)
                                           /\ Lower(booted, i) <= q /\ q <= Upper(booted, i)
    /\ pc = "done" => i = Len(booted) + 1 /\ addr = NotStarted

BootInv ==
    /\ booted \in MemMaps /\ i \in 1 .. Len(booted) + 1
    /\ pc \in {"highest", "host", "free", "done"}
    /\ pc = "highest" => Searching
    /\ pc # "highest" => s_highest_addr = HighestAddr(booted)
    /\ pc = "host" => Placing
    /\ pc \in {"free", "done"} => Freeing

LEMMA BootInvInit == Init => BootInv
<1> SUFFICES ASSUME Init PROVE BootInv
  OBVIOUS
<1>1. booted \in MemMaps /\ pc = "highest" /\ i = 1 /\ Untouched /\ s_highest_addr = 0
  BY DEF Init, Untouched
<1>2. WellFormed(booted) /\ Len(booted) \in Nat
  BY <1>1, PmmInitAssumption, LenProperties DEF WellFormed
<1>3. \A j \in Usable(booted) : ~(j < i)
  BY <1>1, <1>2, EntryIs
<1> QED
  BY <1>1, <1>2, <1>3 DEF BootInv, Searching

(* An entry the loop is at. *)
LEMMA At ==
    ASSUME BootInv
    PROVE  /\ WellFormed(booted) /\ Len(booted) \in Nat /\ i \in Nat
           /\ DOMAIN booted = 1 .. Len(booted)
           /\ \A j \in Usable(booted) : j \in 1 .. Len(booted)
           /\ i <= Len(booted) =>
                i \in DOMAIN booted /\ i + 1 \in 1 .. Len(booted) + 1 /\ booted[i].usable \in BOOLEAN
<1>1. WellFormed(booted) /\ booted \in Seq([base : Nat, length : Nat \ {0}, usable : BOOLEAN])
  BY PmmInitAssumption DEF BootInv, WellFormed
<1>2. Len(booted) \in Nat /\ DOMAIN booted = 1 .. Len(booted)
  BY <1>1, LenProperties
<1>3. i \in Nat /\ i >= 1
  BY <1>2 DEF BootInv
<1>4. i <= Len(booted) => booted[i].usable \in BOOLEAN
  <2> DEFINE E == [base : Nat, length : Nat \ {0}, usable : BOOLEAN]
  <2>1. booted \in Seq(E)
    BY <1>1
  <2> HIDE DEF E
  <2>2. i <= Len(booted) => booted[i] \in E
    BY <1>2, <1>3, <2>1, ElementOfSeq
  <2> QED
    BY <2>2 DEF E
<1> QED
  BY <1>1, <1>2, <1>3, <1>4 DEF Usable

LEMMA HighestStepOK == BootInv /\ HighestStep => BootInv'
<1> SUFFICES ASSUME BootInv, HighestStep PROVE BootInv'
  OBVIOUS
<1>1. /\ pc = "highest" /\ pc' = "highest" /\ i' = i + 1 /\ booted' = booted /\ Untouched'
      /\ Searching /\ map = booted /\ i <= Len(booted)
      /\ s_highest_addr' = IF booted[i].usable /\ Top(booted[i]) > s_highest_addr
                           THEN Top(booted[i]) ELSE s_highest_addr
  BY DEF HighestStep, BootInv, Searching, Untouched, More
<1>2. /\ WellFormed(booted) /\ Len(booted) \in Nat /\ i \in Nat
      /\ \A j \in Usable(booted) : j \in 1 .. Len(booted)
      /\ i \in DOMAIN booted /\ i + 1 \in 1 .. Len(booted) + 1
  BY <1>1, At
<1>3. \A j \in Usable(booted) : Top(booted[j]) \in Nat
  BY <1>2, EntryIs
<1>4. booted[i].usable <=> i \in Usable(booted)
  BY <1>2 DEF Usable
<1>5. s_highest_addr \in Nat /\ s_highest_addr' \in Nat /\ s_highest_addr' >= s_highest_addr
  BY <1>1, <1>3, <1>4 DEF Searching
<1>6. s_highest_addr' = 0 \/ \E j \in Usable(booted) : s_highest_addr' = Top(booted[j])
  BY <1>1, <1>4 DEF Searching
<1>7. ASSUME NEW j \in Usable(booted), j < i' PROVE Top(booted[j]) <= s_highest_addr'
  <2>1. CASE j < i
    <3>1. Top(booted[j]) <= s_highest_addr
      BY <1>1, <2>1 DEF Searching
    <3> QED
      BY <1>3, <1>5, <3>1
  <2>2. CASE j = i
    BY <1>1, <1>3, <1>4, <1>5, <2>2
  <2> QED
    BY <1>1, <1>2, <1>7, <2>1, <2>2
<1>8. Searching'
  BY <1>1, <1>5, <1>6, <1>7, Zenon DEF Searching
<1> QED
  BY <1>1, <1>2, <1>8 DEF BootInv

LEMMA HighestDoneOK == BootInv /\ HighestDone => BootInv'
<1> SUFFICES ASSUME BootInv, HighestDone PROVE BootInv'
  OBVIOUS
<1>1. /\ pc = "highest" /\ pc' = "host" /\ i' = 1 /\ booted' = booted /\ Untouched'
      /\ s_highest_addr' = s_highest_addr /\ Searching /\ i > Len(booted)
  BY At DEF HighestDone, BootInv, Searching, Untouched, More
<1>2. /\ WellFormed(booted) /\ Len(booted) \in Nat /\ i \in Nat
      /\ \A j \in Usable(booted) : j \in 1 .. Len(booted)
  BY At
<1>3. \A j \in Usable(booted) : Top(booted[j]) <= s_highest_addr
  BY <1>1, <1>2 DEF Searching
<1>4. HighestAddr(booted) = s_highest_addr
  BY <1>1, <1>2, <1>3, HighestIs DEF Searching
<1>5. Placing'
  <2>1. \A j \in Hosts(booted) : 1 <= j
    BY <1>2 DEF Hosts
  <2> QED
    BY <1>1, <2>1 DEF Placing
<1> QED
  BY <1>1, <1>2, <1>4, <1>5 DEF BootInv

(* What s_total_pages and bitmap_size are from then on. *)
LEMMA SizesAre ==
    ASSUME BootInv, pc # "highest"
    PROVE  s_total_pages = TotalPages(booted) /\ bitmap_size = BitmapBytes(booted)
  BY DEF BootInv, s_total_pages, bitmap_size, TotalPages, BitmapBytes

LEMMA HostSkipOK == BootInv /\ HostSkip => BootInv'
<1> SUFFICES ASSUME BootInv, HostSkip PROVE BootInv'
  OBVIOUS
<1>1. /\ pc = "host" /\ pc' = "host" /\ i' = i + 1 /\ booted' = booted /\ Untouched'
      /\ s_highest_addr' = s_highest_addr /\ Placing /\ map = booted /\ i <= Len(booted)
      /\ ~CanHost(booted[i])
  BY DEF HostSkip, BootInv, Placing, Untouched, More
<1>2. /\ Len(booted) \in Nat /\ i \in Nat /\ i + 1 \in 1 .. Len(booted) + 1
      /\ \A j \in Usable(booted) : j \in 1 .. Len(booted)
  BY <1>1, At
<1>3. i \notin Hosts(booted)
  BY <1>1, SizesAre DEF Hosts, Usable, CanHost
<1>4. ASSUME NEW j \in Hosts(booted) PROVE i + 1 <= j
  <2>1. j \in Nat /\ i <= j /\ j # i
    BY <1>1, <1>2, <1>3 DEF Hosts, Placing
  <2> QED
    BY <1>2, <2>1
<1>5. Placing'
  BY <1>1, <1>4 DEF Placing
<1> QED
  BY <1>1, <1>2, <1>5 DEF BootInv

LEMMA HostTakeOK == BootInv /\ HostTake => BootInv'
<1> SUFFICES ASSUME BootInv, HostTake PROVE BootInv'
  OBVIOUS
<1>1. /\ pc = "host" /\ pc' = "free" /\ i' = 1 /\ booted' = booted /\ addr = NotStarted
      /\ addr' = addr /\ s_free_pages = 0 /\ s_free_pages' = 0
      /\ s_highest_addr' = s_highest_addr /\ Placing /\ map = booted /\ i <= Len(booted)
      /\ CanHost(booted[i])
      /\ s_bitmap' = 0 .. (8 * bitmap_size - 1)
      /\ map' = [map EXCEPT ![i].base   = @ + PagesFor(bitmap_size) * PageSize,
                            ![i].length = @ - bitmap_size]
  BY DEF HostTake, BootInv, Placing, Untouched, More
<1>2. /\ WellFormed(booted) /\ Len(booted) \in Nat /\ i \in Nat /\ i \in DOMAIN booted
      /\ \A j \in Usable(booted) : j \in 1 .. Len(booted)
  BY <1>1, At
<1>3. bitmap_size = BitmapBytes(booted)
  BY <1>1, SizesAre
<1>4. Host(booted) = i /\ Hosts(booted) # {}
  <2>1. i \in Hosts(booted) /\ Hosts(booted) \subseteq Int
    BY <1>1, <1>2, <1>3 DEF Hosts, Usable, CanHost
  <2>2. \A j \in Hosts(booted) : i <= j
    BY <1>1 DEF Placing
  <2> QED
    BY <2>1, <2>2, MinIs DEF Host
<1>5. map' = Adjusted(booted)
  BY <1>1, <1>3, <1>4, Zenon DEF Adjusted
<1>6. Counted' = {}
  <2>1. ASSUME NEW b \in FreedBits(booted) PROVE ~(b[1] < 1)
    <3>1. b[1] \in Usable(booted)
      BY <1>2, FreedBitsAre
    <3> QED
      BY <1>2, <3>1
  <2> QED
    BY <1>1, <2>1 DEF Counted
<1>7. Freeing'
  <2>1. CountedPages' = {} /\ s_free_pages' = Cardinality(Counted')
    BY <1>1, <1>6, FS_EmptySet DEF CountedPages
  <2> QED
    BY <1>1, <1>3, <1>5, <2>1 DEF Freeing, BitsOf
<1> QED
  BY <1>1, <1>2, <1>7 DEF BootInv

-----------------------------------------------------------------------------
(* The loop over the pages. *)
LEMMA FreeingFacts ==
    ASSUME BootInv, pc = "free"
    PROVE  /\ Freeing /\ WellFormed(booted) /\ i \in Nat /\ Len(booted) \in Nat
           /\ Len(map) = Len(booted)
           /\ i <= Len(booted) => /\ i + 1 \in 1 .. Len(booted) + 1
                                  /\ map[i].usable <=> i \in Usable(booted)
           /\ \A j \in Usable(booted) : j \in 1 .. Len(booted)
<1>1. Freeing /\ map = Adjusted(booted)
  BY DEF BootInv, Freeing
<1>2. /\ WellFormed(booted) /\ i \in Nat /\ Len(booted) \in Nat
      /\ i <= Len(booted) => i \in DOMAIN booted /\ i + 1 \in 1 .. Len(booted) + 1
      /\ \A j \in Usable(booted) : j \in 1 .. Len(booted)
  BY At
<1>3. Len(map) = Len(booted)
  BY <1>1, <1>2, AdjustedIs
<1>4. i <= Len(booted) => (map[i].usable <=> i \in Usable(booted))
  BY <1>1, <1>2, AdjustedIs DEF Usable
<1> QED
  BY <1>1, <1>2, <1>3, <1>4

(* Nothing was cleared, and the same clearings count. *)
LEMMA SameCounted ==
    ASSUME BootInv, pc = "free", pc' \in {"free", "done"},
           UNCHANGED <<booted, map, s_highest_addr, s_bitmap, s_free_pages>>,
           i' \in 1 .. Len(booted) + 1, Counted' = Counted,
           \/ addr' = NotStarted
           \/ \E q \in Nat : /\ addr' = q * P /\ i' \in Usable(booted)
                             /\ Lower(booted, i') <= q /\ q <= Upper(booted, i'),
           pc' = "done" => i' = Len(booted) + 1 /\ addr' = NotStarted
    PROVE  BootInv'
<1>1. CountedPages' = CountedPages
  BY DEF CountedPages
<1>2. Freeing
  BY FreeingFacts
<1>3. Freeing'
  BY <1>1, <1>2, Zenon DEF Freeing
<1> QED
  BY <1>3 DEF BootInv

LEMMA FreeEntryOK == BootInv /\ FreeEntry => BootInv'
<1> SUFFICES ASSUME BootInv, FreeEntry PROVE BootInv'
  OBVIOUS
<1>1. /\ pc = "free" /\ pc' = "free" /\ i' = i /\ addr = NotStarted /\ addr' = map[i].base
      /\ UNCHANGED <<booted, map, s_highest_addr, s_bitmap, s_free_pages>>
      /\ i <= Len(map) /\ map[i].usable
  BY DEF FreeEntry, More
<1>2. /\ WellFormed(booted) /\ i \in Usable(booted) /\ i \in 1 .. Len(booted) + 1
      /\ map = Adjusted(booted)
  BY <1>1, FreeingFacts DEF BootInv, Freeing
<1>3. /\ addr' = Lower(booted, i) * P /\ Lower(booted, i) \in Nat
      /\ Lower(booted, i) <= Upper(booted, i)
  BY <1>1, <1>2, FreedOf
<1>4. addr' \div P = Lower(booted, i)
  BY <1>3, Exact
<1>5. Counted' = Counted
  <2>1. ASSUME NEW b \in FreedBits(booted), b[1] = i PROVE ~(b[2] < addr' \div P)
    <3>1. b[2] \in Nat /\ Lower(booted, b[1]) <= b[2]
      BY <1>2, FreedBitsAre
    <3> QED
      BY <1>3, <1>4, <2>1, <3>1
  <2> QED
    BY <1>1, <2>1, Zenon DEF Counted
<1>6. Lower(booted, i) <= Lower(booted, i)
  BY <1>3
<1> QED
  BY <1>1, <1>2, <1>3, <1>5, <1>6, SameCounted

LEMMA FreeNextOK == BootInv /\ FreeNext => BootInv'
<1> SUFFICES ASSUME BootInv, FreeNext PROVE BootInv'
  OBVIOUS
<1>1. /\ pc = "free" /\ pc' = "free" /\ i' = i + 1 /\ addr' = NotStarted
      /\ UNCHANGED <<booted, map, s_highest_addr, s_bitmap, s_free_pages>>
      /\ i <= Len(map) /\ (map[i].usable => addr # NotStarted /\ addr >= Top(map[i]))
  BY DEF FreeNext, More
<1>2. /\ WellFormed(booted) /\ i + 1 \in 1 .. Len(booted) + 1 /\ map = Adjusted(booted)
      /\ map[i].usable <=> i \in Usable(booted)
      /\ i \in Nat /\ Freeing
      /\ \A j \in Usable(booted) : j \in 1 .. Len(booted)
  BY <1>1, FreeingFacts DEF Freeing
<1>3. ASSUME NEW b \in FreedBits(booted), b[1] = i
      PROVE  addr # NotStarted /\ b[2] < addr \div P
  <2>1. i \in Usable(booted) /\ b[2] \in Nat /\ b[2] < Upper(booted, i)
    BY <1>2, <1>3, FreedBitsAre
  <2>2. addr # NotStarted /\ addr >= Top(map[i])
    BY <1>1, <1>2, <2>1
  <2>3. PICK q \in Nat : addr = q * P
    BY <1>2, <2>2 DEF Freeing
  <2>4. /\ q * P < Top(map[i]) <=> q < Upper(booted, i)
        /\ Upper(booted, i) \in Nat
    BY <1>2, <2>1, FreedOf
  <2>5. q * P \in Int /\ Top(map[i]) \in Int
    <3>1. q * P \in Int
      BY Mul
    <3>2. map[i].base \in Int /\ map[i].length \in Int
      <4>1. i \in DOMAIN booted /\ booted[i].length \in Nat /\ BitmapBytes(booted) \in Nat
        <5>1. booted[i].length = Size(booted, i) * P /\ Size(booted, i) \in Int
              /\ i \in DOMAIN booted /\ Size(booted, i) \in Nat
          BY <1>2, <2>1, EntryIs DEF Usable
        <5>2. Size(booted, i) * P \in Nat
          BY <5>1, MemMapAssumption DEF P
        <5> QED
          BY <1>2, <5>1, <5>2, HostIs
      <4>2. map[i].length = booted[i].length \/ map[i].length = booted[i].length - BitmapBytes(booted)
        BY <1>2, <4>1, AdjustedIs, Zenon
      <4>3. map[i].base = Lower(booted, i) * P /\ Lower(booted, i) \in Int
        BY <1>2, <2>1, FreedOf
      <4>4. map[i].base \in Int
        BY <4>3, Mul
      <4> QED
        BY <4>1, <4>2, <4>4
    <3> QED
      BY <3>1, <3>2 DEF Top
  <2>6. ~(q < Upper(booted, i))
    BY <2>2, <2>3, <2>4, <2>5
  <2>7. addr \div P = q
    BY <2>3, Exact
  <2> QED
    BY <2>1, <2>2, <2>4, <2>6, <2>7
<1>4. Counted' = Counted
  <2>1. ASSUME NEW b \in FreedBits(booted)
        PROVE  b[1] < i + 1 <=> b[1] < i \/ b[1] = i
    <3>1. b[1] \in Nat
      BY <1>2, FreedBitsAre
    <3> QED
      BY <1>2, <3>1
  <2> QED
    BY <1>1, <1>3, <2>1, Zenon DEF Counted
<1> QED
  BY <1>1, <1>2, <1>4, SameCounted

LEMMA FreeDoneOK == BootInv /\ FreeDone => BootInv'
<1> SUFFICES ASSUME BootInv, FreeDone PROVE BootInv'
  OBVIOUS
<1>1. /\ pc = "free" /\ pc' = "done" /\ i' = i /\ addr' = addr
      /\ UNCHANGED <<booted, map, s_highest_addr, s_bitmap, s_free_pages>>
      /\ ~(i <= Len(map))
  BY DEF FreeDone, More
<1>2. /\ Freeing /\ i = Len(booted) + 1 /\ i \in 1 .. Len(booted) + 1
      /\ \A j \in Usable(booted) : j \in 1 .. Len(booted)
  BY <1>1, FreeingFacts DEF BootInv
<1>3. i \notin Usable(booted)
  BY <1>1, <1>2, FreeingFacts
<1>4. addr = NotStarted
  BY <1>2, <1>3 DEF Freeing
<1>5. Counted' = Counted
  BY <1>1 DEF Counted
<1> QED
  BY <1>1, <1>2, <1>4, <1>5, SameCounted

LEMMA FreePageOK == BootInv /\ FreePage => BootInv'
<1> SUFFICES ASSUME BootInv, FreePage PROVE BootInv'
  OBVIOUS
<1>1. /\ pc = "free" /\ pc' = "free" /\ i' = i /\ addr # NotStarted /\ addr' = addr + P
      /\ booted' = booted /\ map' = map /\ s_highest_addr' = s_highest_addr
      /\ s_bitmap' = s_bitmap \ {addr \div P} /\ s_free_pages' = s_free_pages + 1
      /\ i <= Len(map) /\ addr < Top(map[i])
  BY DEF FreePage, More, P
<1>2. /\ WellFormed(booted) /\ map = Adjusted(booted) /\ i \in 1 .. Len(booted) + 1 /\ Freeing
      /\ i \in Nat
  BY <1>1, FreeingFacts DEF BootInv, Freeing
<1>3. PICK q \in Nat : /\ addr = q * P /\ i \in Usable(booted)
                       /\ Lower(booted, i) <= q /\ q <= Upper(booted, i)
  BY <1>1, <1>2 DEF Freeing
<1>4. q < Upper(booted, i) /\ Upper(booted, i) \in Nat /\ Lower(booted, i) \in Nat
  BY <1>1, <1>2, <1>3, FreedOf
<1>5. addr \div P = q /\ addr' = (q + 1) * P /\ addr' \div P = q + 1 /\ addr' # NotStarted
  <2>1. (q + 1) * P = q * P + P
    BY Mul
  <2>2. q + 1 \in Nat
    OBVIOUS
  <2>3. (q + 1) * P \in Nat
    BY MemMapAssumption DEF P
  <2> QED
    BY <1>1, <1>3, <2>1, <2>2, <2>3, Exact DEF NotStarted
<1> DEFINE b == <<i, q>>
<1>6. b \in FreedBits(booted)
  <2>1. q \in Lower(booted, i) .. (Upper(booted, i) - 1)
    BY <1>3, <1>4
  <2> QED
    BY <1>2, <1>3, <2>1, FreedBitsAre
<1>7. Counted' = Counted \cup {b}
  <2>1. Counted' = {d \in FreedBits(booted) : d[1] < i \/ (d[1] = i /\ d[2] < q + 1)}
    BY <1>1, <1>5 DEF Counted
  <2>2. Counted = {d \in FreedBits(booted) : d[1] < i \/ (d[1] = i /\ d[2] < q)}
    BY <1>1, <1>5 DEF Counted
  <2>3. ASSUME NEW d \in FreedBits(booted), d[1] = i
        PROVE  d[2] < q + 1 <=> (d[2] < q \/ d = b)
    <3>1. d = <<d[1], d[2]>> /\ d[2] \in Nat
      BY <1>2, FreedBitsAre
    <3>2. d = b <=> d[2] = q
      BY <2>3, <3>1
    <3> QED
      BY <3>1, <3>2
  <2>4. b[1] = i /\ b[2] = q /\ q < q + 1
    OBVIOUS
  <2> HIDE DEF b
  <2> QED
    BY <1>6, <2>1, <2>2, <2>3, <2>4, Zenon
<1>8. b \notin Counted
  BY <1>1, <1>2, <1>5 DEF Counted
<1>9. IsFiniteSet(Counted) /\ Cardinality(Counted) \in Nat
  <2>1. Counted \subseteq FreedBits(booted) /\ IsFiniteSet(FreedBits(booted))
    BY <1>2, FreedBitsAre DEF Counted
  <2>2. IsFiniteSet(Counted)
    BY <2>1, FS_Subset
  <2> QED
    BY <2>2, FS_CardinalityType
<1>10. s_free_pages' = Cardinality(Counted')
  <2> HIDE DEF b
  <2>1. Cardinality(Counted \cup {b}) = Cardinality(Counted) + 1
    BY <1>8, <1>9, FS_AddElement
  <2> QED
    BY <1>1, <1>2, <1>7, <2>1 DEF Freeing
<1>11. s_bitmap' = BitsOf(booted) \ CountedPages'
  <2>1. CountedPages' = CountedPages \cup {q}
    <3>1. b[2] = q
      OBVIOUS
    <3> HIDE DEF b
    <3>2. CountedPages' = {d[2] : d \in Counted \cup {b}}
      BY <1>7 DEF CountedPages
    <3>3. {d[2] : d \in Counted \cup {b}} = {d[2] : d \in Counted} \cup {b[2]}
      BY Zenon
    <3> QED
      BY <3>1, <3>2, <3>3 DEF CountedPages
  <2> QED
    BY <1>1, <1>2, <1>5, <2>1 DEF Freeing
<1>12. Lower(booted, i) <= q + 1 /\ q + 1 <= Upper(booted, i) /\ q + 1 \in Nat
  BY <1>3, <1>4
<1>13. Freeing'
  BY <1>1, <1>2, <1>3, <1>5, <1>10, <1>11, <1>12 DEF Freeing
<1> QED
  BY <1>1, <1>13 DEF BootInv

LEMMA BootInvAlways == Spec => []BootInv
<1>1. BootInv /\ [Next]_vars => BootInv'
  <2> SUFFICES ASSUME BootInv, [Next]_vars PROVE BootInv'
    OBVIOUS
  <2>1. CASE UNCHANGED vars
    <3>1. /\ booted' = booted /\ map' = map /\ pc' = pc /\ i' = i /\ addr' = addr
          /\ s_highest_addr' = s_highest_addr /\ s_bitmap' = s_bitmap
          /\ s_free_pages' = s_free_pages
      BY <2>1 DEF vars
    <3>2. Counted' = Counted /\ CountedPages' = CountedPages
      BY <3>1 DEF Counted, CountedPages
    <3>3. Searching' = Searching /\ Placing' = Placing /\ Freeing' = Freeing
      BY <3>1, <3>2 DEF Searching, Placing, Freeing, Untouched
    <3> QED
      BY <3>1, <3>3 DEF BootInv
  <2> QED
    BY <2>1, HighestStepOK, HighestDoneOK, HostSkipOK, HostTakeOK, FreeEntryOK, FreePageOK,
       FreeNextOK, FreeDoneOK DEF Next
<1> QED
  BY <1>1, BootInvInit, PTL DEF Spec

-----------------------------------------------------------------------------
(* What is freed, and what the map says is usable. *)
LEMMA BitmapApart ==
    ASSUME NEW m, WellFormed(m)
    PROVE  BitmapPages(m) \cap Freed(m) = {} /\ BitmapPages(m) \subseteq BitsOf(m)
<1> DEFINE h == Host(m)  f == From(m, h)  n == Hidden(m)
<1>1. /\ h \in Usable(m) /\ n \in Nat /\ n <= Size(m, h) /\ f \in Nat /\ Size(m, h) \in Nat
      /\ Past(m, h) \in Nat /\ Past(m, h) = f + Size(m, h)
      /\ BitmapPages(m) = f .. (f + n - 1)
  BY HostIs, EntryIs DEF Past
<1>2. ASSUME NEW b \in FreedBits(m) PROVE b[2] \notin BitmapPages(m)
  <2> DEFINE j == b[1]
  <2>1. j \in Usable(m) /\ b[2] \in Nat /\ Lower(m, j) <= b[2] /\ b[2] < Upper(m, j)
    BY FreedBitsAre
  <2> HIDE DEF j
  <2>2. /\ j \in Nat /\ h \in Nat
        /\ From(m, j) \in Nat /\ Past(m, j) \in Nat
    <3> HIDE DEF h
    <3>1. /\ j \in 1 .. Len(m) /\ h \in 1 .. Len(m)
          /\ Len(m) \in Nat
      BY <1>1, <2>1, EntryIs
    <3>2. From(m, j) \in Nat /\ Size(m, j) \in Nat
      BY <2>1, EntryIs
    <3>3. Past(m, j) \in Nat
      BY <3>2 DEF Past
    <3> QED
      BY <3>1, <3>2, <3>3
  <2>3. CASE j = h
    BY <1>1, <2>1, <2>2, <2>3 DEF Lower
  <2>4. CASE j < h
    <3>1. Past(m, j) <= f /\ Upper(m, j) = Past(m, j)
      BY <1>1, <2>1, <2>2, <2>4, InOrder DEF Upper
    <3> QED
      BY <1>1, <2>1, <2>2, <3>1
  <2>5. CASE h < j
    <3>1. Past(m, h) <= From(m, j) /\ Lower(m, j) = From(m, j)
      BY <1>1, <2>1, <2>2, <2>5, InOrder DEF Lower
    <3> QED
      BY <1>1, <2>1, <2>2, <3>1
  <2> QED
    BY <2>2, <2>3, <2>4, <2>5
<1>3. BitmapPages(m) \cap Freed(m) = {}
  BY <1>2, FreedBitsAre
<1>4. BitmapPages(m) \subseteq BitsOf(m)
  <2>1. /\ TotalPages(m) \in Nat /\ BitmapBytes(m) \in Nat
        /\ TotalPages(m) <= 8 * BitmapBytes(m) /\ Past(m, h) <= TotalPages(m)
    BY <1>1, MemoryIs
  <2> HIDE DEF f, n, h
  <2> QED
    BY <1>1, <2>1 DEF BitsOf
<1> QED
  BY <1>3, <1>4

(* The clearings of usable pages, and one more if the bitmap's last page   *)
(* is not full.                                                            *)
Wanted(m) == UsablePages(m) \ BitmapPages(m)
Rightly(m) == {b \in FreedBits(m) : b[2] < Past(m, b[1])}
Behind(m) == IF Spare(m) = 1 THEN {<<Host(m), Past(m, Host(m))>>} ELSE {}

LEMMA WantedIs ==
    ASSUME NEW m, WellFormed(m)
    PROVE  /\ Wanted(m) = {b[2] : b \in Rightly(m)}
           /\ Wanted(m) \subseteq 0 .. (TotalPages(m) - 1)
           /\ FreedBits(m) = Rightly(m) \cup Behind(m) /\ Rightly(m) \cap Behind(m) = {}
<1>1. \A j \in Usable(m) :
        /\ PagesOf(m[j]) = From(m, j) .. (Past(m, j) - 1)
        /\ From(m, j) \in Nat /\ Past(m, j) \in Nat
        /\ Lower(m, j) \in Nat /\ Upper(m, j) \in Nat
  BY EntryIs, FreedOf
<1>2. /\ Host(m) \in Usable(m) /\ Hidden(m) \in Nat /\ Spare(m) \in {0, 1}
      /\ Hidden(m) <= Size(m, Host(m))
      /\ BitmapPages(m) = From(m, Host(m)) .. (From(m, Host(m)) + Hidden(m) - 1)
  BY HostIs
<1>3. ASSUME NEW p \in Wanted(m) PROVE \E b \in Rightly(m) : p = b[2]
  <2>1. PICK j \in Usable(m) : p \in From(m, j) .. (Past(m, j) - 1)
    BY <1>1 DEF Wanted, UsablePages
  <2>2. p \notin BitmapPages(m)
    BY DEF Wanted
  <2>3. p \in Lower(m, j) .. (Upper(m, j) - 1)
    BY <1>1, <1>2, <2>1, <2>2 DEF Lower, Upper
  <2>4. <<j, p>> \in FreedBits(m)
    BY <2>3, FreedBitsAre
  <2>5. p < Past(m, j)
    BY <1>1, <2>1
  <2> QED
    BY <2>4, <2>5 DEF Rightly
<1>4. ASSUME NEW b \in Rightly(m) PROVE b[2] \in Wanted(m)
  <2>1. b \in FreedBits(m) /\ b[2] < Past(m, b[1])
    BY DEF Rightly
  <2>2. b[1] \in Usable(m) /\ b[2] \in Nat /\ Lower(m, b[1]) <= b[2]
    BY <2>1, FreedBitsAre
  <2>3. From(m, b[1]) <= Lower(m, b[1])
    BY <1>1, <1>2, <2>2, SMTT(30) DEF Lower
  <2>4. b[2] \in PagesOf(m[b[1]])
    BY <1>1, <2>1, <2>2, <2>3
  <2>5. b[2] \in Freed(m)
    BY <2>1, FreedBitsAre
  <2>6. b[2] \notin BitmapPages(m)
    BY <2>5, BitmapApart
  <2> QED
    BY <2>2, <2>4, <2>6 DEF Wanted, UsablePages
<1>5. Wanted(m) \subseteq 0 .. (TotalPages(m) - 1)
  <2> SUFFICES ASSUME NEW b \in Rightly(m) PROVE b[2] \in 0 .. (TotalPages(m) - 1)
    BY <1>3
  <2>1. b \in FreedBits(m) /\ b[2] < Past(m, b[1])
    BY DEF Rightly
  <2>2. b[1] \in Usable(m) /\ b[2] \in Nat
    BY <2>1, FreedBitsAre
  <2>3. Past(m, b[1]) <= TotalPages(m) /\ TotalPages(m) \in Nat /\ Past(m, b[1]) \in Nat
    BY <1>1, <2>2, MemoryIs
  <2> QED
    BY <2>1, <2>2, <2>3
<1>6. FreedBits(m) \subseteq Rightly(m) \cup Behind(m)
  <2> SUFFICES ASSUME NEW b \in FreedBits(m), b \notin Rightly(m) PROVE b \in Behind(m)
    OBVIOUS
  <2>1. /\ b = <<b[1], b[2]>> /\ b[1] \in Usable(m) /\ b[2] \in Nat /\ b[2] < Upper(m, b[1])
        /\ ~(b[2] < Past(m, b[1]))
    BY FreedBitsAre DEF Rightly
  <2>2. b[1] = Host(m) /\ Spare(m) = 1 /\ b[2] = Past(m, b[1])
    BY <1>1, <1>2, <2>1 DEF Upper
  <2> QED
    BY <2>1, <2>2 DEF Behind
<1>7. Behind(m) \subseteq FreedBits(m) /\ Rightly(m) \cap Behind(m) = {}
  <2> SUFFICES ASSUME Spare(m) = 1
               PROVE  /\ <<Host(m), Past(m, Host(m))>> \in FreedBits(m)
                      /\ <<Host(m), Past(m, Host(m))>> \notin Rightly(m)
    BY DEF Behind
  <2>1. /\ Past(m, Host(m)) \in Nat /\ Lower(m, Host(m)) <= Past(m, Host(m))
        /\ Upper(m, Host(m)) = Past(m, Host(m)) + 1
        /\ Lower(m, Host(m)) \in Nat
    <3>1. From(m, Host(m)) \in Nat /\ Size(m, Host(m)) \in Nat
      BY <1>2, EntryIs
    <3> QED
      BY <1>1, <1>2, <3>1 DEF Lower, Upper, Past
  <2>2. Past(m, Host(m)) \in Lower(m, Host(m)) .. (Upper(m, Host(m)) - 1)
    BY <2>1
  <2>3. <<Host(m), Past(m, Host(m))>> \in FreedBits(m)
    BY <1>2, <2>2, FreedBitsAre
  <2> QED
    BY <2>1, <2>3 DEF Rightly
<1>8. Rightly(m) \subseteq FreedBits(m)
  BY DEF Rightly
<1> QED
  BY <1>3, <1>4, <1>5, <1>6, <1>7, <1>8

(* No usable page is cleared for two entries. *)
LEMMA ClearedOnce ==
    ASSUME NEW m, WellFormed(m)
    PROVE  /\ IsFiniteSet(Wanted(m)) /\ Cardinality(Wanted(m)) \in Nat
           /\ FreedCount(m) = Cardinality(Wanted(m)) + Spare(m)
<1>1. ASSUME NEW b \in Rightly(m), NEW d \in Rightly(m), b[2] = d[2] PROVE b = d
  <2>1. /\ b \in FreedBits(m) /\ d \in FreedBits(m)
        /\ b[2] < Past(m, b[1]) /\ d[2] < Past(m, d[1])
    BY DEF Rightly
  <2>2. /\ b = <<b[1], b[2]>> /\ d = <<d[1], d[2]>> /\ b[1] \in Usable(m) /\ d[1] \in Usable(m)
        /\ b[2] \in Nat /\ Lower(m, b[1]) <= b[2] /\ Lower(m, d[1]) <= d[2]
    BY <2>1, FreedBitsAre
  <2> DEFINE j == b[1]  k == d[1]
  <2>3. /\ j \in Nat /\ k \in Nat
        /\ From(m, j) \in Nat /\ Past(m, j) \in Nat /\ From(m, k) \in Nat /\ Past(m, k) \in Nat
    BY <2>2, EntryIs
  <2>4. Hidden(m) \in Nat
    BY HostIs
  <2>5. From(m, j) <= Lower(m, j) /\ From(m, k) <= Lower(m, k)
        /\ Lower(m, j) \in Nat /\ Lower(m, k) \in Nat
    BY <2>3, <2>4 DEF Lower
  <2>6. j < k => Past(m, j) <= From(m, k)
    BY <2>2, InOrder
  <2>7. k < j => Past(m, k) <= From(m, j)
    BY <2>2, InOrder
  <2>8. j = k
    <3> HIDE DEF j, k
    <3>1. b[2] < Past(m, j) /\ b[2] < Past(m, k) /\ Lower(m, j) <= b[2] /\ Lower(m, k) <= b[2]
      BY <1>1, <2>1, <2>2 DEF j, k
    <3> QED
      BY <2>2, <2>3, <2>5, <2>6, <2>7, <3>1
  <2> QED
    BY <1>1, <2>2, <2>8, Zenon
<1>2. IsFiniteSet(Rightly(m)) /\ Cardinality(Rightly(m)) \in Nat
  <2>1. IsFiniteSet(FreedBits(m)) /\ Rightly(m) \subseteq FreedBits(m)
    BY FreedBitsAre DEF Rightly
  <2>2. IsFiniteSet(Rightly(m))
    BY <2>1, FS_Subset
  <2> QED
    BY <2>2, FS_CardinalityType
<1>3. ExistsBijection(Rightly(m), Wanted(m))
  <2> DEFINE g == [b \in Rightly(m) |-> b[2]]
  <2>1. Wanted(m) = {b[2] : b \in Rightly(m)}
    BY WantedIs
  <2>2. g \in [Rightly(m) -> Wanted(m)]
    BY <2>1
  <2>3. \A b, d \in Rightly(m) : g[b] = g[d] => b = d
    BY <1>1
  <2>4. \A p \in Wanted(m) : \E b \in Rightly(m) : g[b] = p
    BY <2>1
  <2> HIDE DEF g
  <2>5. g \in Bijection(Rightly(m), Wanted(m))
    BY <2>2, <2>3, <2>4 DEF Bijection, Injection, Surjection, IsInjective
  <2> QED
    BY <2>5 DEF ExistsBijection
<1>4. IsFiniteSet(Wanted(m)) /\ Cardinality(Wanted(m)) = Cardinality(Rightly(m))
  BY <1>2, <1>3, FS_Bijection
<1>5. FreedCount(m) = Cardinality(Rightly(m)) + Spare(m)
  <2>1. FreedBits(m) = Rightly(m) \cup Behind(m) /\ Rightly(m) \cap Behind(m) = {}
        /\ Spare(m) \in {0, 1}
    BY WantedIs, HostIs
  <2>2. CASE Spare(m) = 0
    <3>1. Behind(m) = {}
      BY <2>2 DEF Behind
    <3>2. FreedBits(m) = Rightly(m)
      BY <2>1, <3>1
    <3> QED
      BY <1>2, <2>2, <3>2 DEF FreedCount
  <2>3. CASE Spare(m) = 1
    <3> DEFINE x == <<Host(m), Past(m, Host(m))>>
    <3>1. Behind(m) = {x}
      BY <2>3 DEF Behind
    <3> HIDE DEF x
    <3>2. FreedBits(m) = Rightly(m) \cup {x} /\ x \notin Rightly(m)
      BY <2>1, <3>1
    <3>3. Cardinality(Rightly(m) \cup {x}) = Cardinality(Rightly(m)) + 1
      BY <1>2, <3>2, FS_AddElement
    <3> QED
      BY <2>3, <3>2, <3>3 DEF FreedCount
  <2> QED
    BY <2>1, <2>2, <2>3
<1> QED
  BY <1>2, <1>4, <1>5

-----------------------------------------------------------------------------
LEMMA Finished ==
    ASSUME BootInv, pc = "done"
    PROVE  /\ WellFormed(booted) /\ map = Adjusted(booted)
           /\ s_total_pages = TotalPages(booted) /\ bitmap_size = BitmapBytes(booted)
           /\ s_bitmap = BitsOf(booted) \ Freed(booted)
           /\ s_free_pages = FreedCount(booted)
           /\ FreePages = Freed(booted) \cap (0 .. (TotalPages(booted) - 1))
<1>1. /\ Freeing /\ i = Len(booted) + 1 /\ map = Adjusted(booted)
      /\ s_bitmap = BitsOf(booted) \ CountedPages /\ s_free_pages = Cardinality(Counted)
  BY DEF BootInv, Freeing
<1>2. WellFormed(booted) /\ Len(booted) \in Nat /\ \A j \in Usable(booted) : j \in 1 .. Len(booted)
  BY At
<1>3. Counted = FreedBits(booted)
  <2>1. ASSUME NEW b \in FreedBits(booted) PROVE b[1] < i
    <3>1. b[1] \in 1 .. Len(booted)
      BY <1>2, FreedBitsAre
    <3> QED
      BY <1>1, <1>2, <3>1
  <2> QED
    BY <2>1 DEF Counted
<1>4. CountedPages = Freed(booted)
  BY <1>2, <1>3, FreedBitsAre DEF CountedPages
<1>5. s_total_pages = TotalPages(booted) /\ bitmap_size = BitmapBytes(booted)
  BY SizesAre
<1>6. FreePages = Freed(booted) \cap (0 .. (TotalPages(booted) - 1))
  <2>1. /\ TotalPages(booted) \in Nat /\ BitmapBytes(booted) \in Nat
        /\ TotalPages(booted) <= 8 * BitmapBytes(booted)
    BY <1>2, MemoryIs
  <2>2. 0 .. (TotalPages(booted) - 1) \subseteq BitsOf(booted)
    BY <2>1 DEF BitsOf
  <2> QED
    BY <1>1, <1>4, <1>5, <2>2 DEF FreePages
<1> QED
  BY <1>1, <1>2, <1>3, <1>4, <1>5, <1>6 DEF FreedCount

(* Whatever the map and the size of a page, the three loops end with the   *)
(* state that the functions of the map give, from which the page allocator *)
(* starts (pmm.c:27-63).                                                   *)
THEOREM ComputesMapCorrect == Spec => []ComputesMap
<1>1. BootInv => ComputesMap
  BY Finished DEF ComputesMap
<1> QED
  BY <1>1, BootInvAlways, PTL

(* At no time is a page of the bitmap marked free in it (pmm.c:45-59): the *)
(* entry that keeps it is first moved past it.                             *)
THEOREM BitmapKeptCorrect == Spec => []BitmapKept
<1>1. BootInv => BitmapKept
  <2> SUFFICES ASSUME BootInv, s_bitmap # {} PROVE BitmapPages(booted) \subseteq s_bitmap
    BY DEF BitmapKept
  <2>1. pc \in {"free", "done"}
    BY DEF BootInv, Searching, Placing, Untouched
  <2>2. s_bitmap = BitsOf(booted) \ CountedPages /\ WellFormed(booted)
    BY <2>1, At DEF BootInv, Freeing
  <2>3. CountedPages \subseteq Freed(booted)
    BY <2>2, FreedBitsAre DEF CountedPages, Counted
  <2> QED
    BY <2>2, <2>3, BitmapApart
<1> QED
  BY <1>1, BootInvAlways, PTL

(* Every usable page but the bitmap's is free in the end, at most the one  *)
(* page behind the bitmap's entry is besides, and each was counted once    *)
(* (pmm.c:44-62): for every map, not only those of the run.                *)
THEOREM AtMostOnePageTooManyCorrect == Spec => []AtMostOnePageTooMany
<1>1. BootInv => AtMostOnePageTooMany
  <2> SUFFICES ASSUME BootInv, pc = "done"
               PROVE  LET wanted == UsablePages(booted) \ BitmapPages(booted)
                          excess == IF bitmap_size % PageSize = 0 THEN 0 ELSE 1
                      IN  /\ wanted \subseteq FreePages
                          /\ Cardinality(FreePages \ wanted) <= excess
                          /\ s_free_pages = Cardinality(wanted) + excess
    BY DEF AtMostOnePageTooMany
  <2> DEFINE m == booted
  <2>1. /\ WellFormed(m) /\ bitmap_size = BitmapBytes(m)
        /\ s_free_pages = FreedCount(m)
        /\ FreePages = Freed(m) \cap (0 .. (TotalPages(m) - 1))
    BY Finished
  <2>2. Spare(m) = IF bitmap_size % PageSize = 0 THEN 0 ELSE 1
    BY <2>1 DEF Spare, P
  <2>3. s_free_pages = Cardinality(Wanted(m)) + Spare(m)
    BY <2>1, ClearedOnce
  <2>4. /\ Wanted(m) = {b[2] : b \in Rightly(m)} /\ Wanted(m) \subseteq 0 .. (TotalPages(m) - 1)
        /\ FreedBits(m) = Rightly(m) \cup Behind(m)
        /\ Freed(m) = {b[2] : b \in FreedBits(m)}
    BY <2>1, WantedIs, FreedBitsAre
  <2>5. Wanted(m) \subseteq FreePages
    BY <2>1, <2>4
  <2>6. FreePages \ Wanted(m) \subseteq {b[2] : b \in Behind(m)}
    BY <2>1, <2>4
  <2>7. Cardinality(FreePages \ Wanted(m)) <= Spare(m)
    <3> DEFINE S == FreePages \ Wanted(m)  x == Past(m, Host(m))
    <3>1. CASE Spare(m) = 1
      <4>1. S \subseteq {x}
        BY <2>6, <3>1 DEF Behind
      <4>2. IsFiniteSet({x}) /\ Cardinality({x}) = 1
        BY FS_Singleton
      <4> HIDE DEF S, x
      <4>3. Cardinality(S) <= Cardinality({x})
        BY <4>1, <4>2, FS_Subset
      <4> QED
        BY <3>1, <4>2, <4>3 DEF S
    <3>2. CASE Spare(m) # 1
      <4>1. S = {} /\ Spare(m) = 0
        BY <2>1, <2>6, <3>2, HostIs DEF Behind
      <4> QED
        BY <4>1, FS_EmptySet
    <3> QED
      BY <3>1, <3>2
  <2> QED
    BY <2>2, <2>3, <2>5, <2>7 DEF Wanted
<1> QED
  BY <1>1, BootInvAlways, PTL

(* What Pmm assumes of its map holds of every map the bootloader promises: *)
(* the state pmm_init leaves is one the page allocator can start from.     *)
THEOREM StartOfPmm ==
    ASSUME NEW m, WellFormed(m)
    PROVE  /\ TotalPages(m) \in Nat /\ Freed(m) \subseteq Nat /\ FreedCount(m) \in Nat
           /\ FreedCount(m) >= Cardinality((0 .. (TotalPages(m) - 1)) \cap Freed(m))
<1>1. TotalPages(m) \in Nat
  BY MemoryIs
<1>2. /\ IsFiniteSet(FreedBits(m)) /\ Freed(m) = {b[2] : b \in FreedBits(m)}
      /\ \A b \in FreedBits(m) : b[2] \in Nat
  BY FreedBitsAre
<1>3. IsFiniteSet(Freed(m)) /\ Cardinality(Freed(m)) <= FreedCount(m)
  <2> DEFINE g == [b \in FreedBits(m) |-> b[2]]
  <2>1. g \in [FreedBits(m) -> Freed(m)] /\ \A p \in Freed(m) : \E b \in FreedBits(m) : g[b] = p
    BY <1>2
  <2> HIDE DEF g
  <2>2. g \in Surjection(FreedBits(m), Freed(m))
    BY <2>1 DEF Surjection
  <2> QED
    BY <1>2, <2>2, FS_Surjection DEF FreedCount
<1>4. FreedCount(m) \in Nat
  BY <1>2, FS_CardinalityType DEF FreedCount
<1>5. Cardinality((0 .. (TotalPages(m) - 1)) \cap Freed(m)) <= Cardinality(Freed(m))
  BY <1>3, FS_Intersection
<1>6. /\ Cardinality(Freed(m)) \in Nat
      /\ Cardinality((0 .. (TotalPages(m) - 1)) \cap Freed(m)) \in Nat
  <2>1. IsFiniteSet((0 .. (TotalPages(m) - 1)) \cap Freed(m))
    BY <1>3, FS_Intersection
  <2> QED
    BY <1>3, <2>1, FS_CardinalityType
<1> QED
  BY <1>1, <1>2, <1>3, <1>4, <1>5, <1>6
===============================================================================
