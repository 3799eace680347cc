---------------------------- MODULE KvCacheProofs ----------------------------
(***************************************************************************)
(* Proofs about KvCache for every number of layers, window and page size,  *)
(* whatever calls fail half way: its invariants, and that it implements    *)
(* KvStore.                                                                *)
(***************************************************************************)
EXTENDS KvCache, TLAPS

-----------------------------------------------------------------------------
(* Arithmetic of page counts and of the rank of a page in one call.        *)

(* ceil_div rounds up, by less than one page.                              *)
LEMMA CeilDivBounds ==
  ASSUME NEW a \in Nat, NEW b \in Nat \ {0}
  PROVE  /\ CeilDiv(a, b) \in Nat
         /\ CeilDiv(a, b) * b >= a
         /\ CeilDiv(a, b) * b < a + b
BY DEF CeilDiv

(* A longer sequence never needs fewer pages.                              *)
LEMMA CeilDivMonotone ==
  ASSUME NEW a \in Nat, NEW c \in Nat, NEW b \in Nat \ {0}, a <= c
  PROVE  CeilDiv(a, b) <= CeilDiv(c, b)
<1> DEFINE x == CeilDiv(a, b)
           y == CeilDiv(c, b)
<1>1. x \in Nat /\ y \in Nat /\ x * b < a + b /\ y * b >= c
  BY CeilDivBounds
<1>2. x * b < (y + 1) * b
  BY <1>1
<1> HIDE DEF x, y
<1>3. x < y + 1
  BY <1>1, <1>2
<1> QED
  BY <1>1, <1>3 DEF x, y

(* Position p lies on a page that a sequence longer than p has reserved.   *)
LEMMA PositionHasPage ==
  ASSUME NEW p \in Nat, NEW n \in Nat, NEW b \in Nat \ {0}, p < n
  PROVE  /\ p \div b \in Nat /\ p \div b < CeilDiv(n, b)
         /\ p % b \in 0 .. b - 1
         /\ p = (p \div b) * b + (p % b)
<1> DEFINE q == p \div b
           y == CeilDiv(n, b)
<1>1. q \in Nat /\ q * b <= p
  OBVIOUS
<1>2. y \in Nat /\ y * b >= n
  BY CeilDivBounds
<1>3. p % b \in 0 .. b - 1 /\ p = q * b + (p % b)
  OBVIOUS
<1> HIDE DEF q, y
<1>4. q * b < y * b
  BY <1>1, <1>2
<1>5. q < y
  BY <1>1, <1>2, <1>4
<1> QED
  BY <1>1, <1>3, <1>5 DEF q, y

(* Mixed radix: the rank of a page in a call determines layer and page.    *)
LEMMA RankInjective ==
  ASSUME NEW w \in Nat, NEW l \in Nat, NEW m \in Nat,
         NEW a \in 0 .. w - 1, NEW c \in 0 .. w - 1,
         l * w + a = m * w + c
  PROVE  l = m /\ a = c
OBVIOUS

(* ... and ranks stay below layers times pages per layer.                  *)
LEMMA RankBound ==
  ASSUME NEW w \in Nat, NEW k \in Nat, NEW l \in 0 .. k - 1, NEW a \in 0 .. w - 1
  PROVE  /\ l * w + a \in Nat
         /\ l * w + a < k * w
<1>1. (l + 1) * w <= k * w
  OBVIOUS
<1>2. (l + 1) * w = l * w + w
  OBVIOUS
<1>3. l * w \in Nat /\ k * w \in Nat
  OBVIOUS
<1> DEFINE x == l * w
           y == k * w
           z == (l + 1) * w
<1> HIDE DEF x, y, z
<1> QED
  BY <1>1, <1>2, <1>3 DEF x, y, z

(* The constants the tables are built from.                                *)
LEMMA Sizes ==
  /\ PageSize \in Nat \ {0}
  /\ MaxPages \in Nat \ {0}
  /\ PoolPages \in Nat \ {0}
  /\ PoolPages = MaxPages * NumLayers
<1>1. PageSize \in Nat \ {0}
  BY KvAssumption DEF PageSize
<1>2. MaxPages \in Nat /\ MaxPages * PageSize >= MaxSeq
  BY <1>1, KvAssumption, CeilDivBounds DEF MaxPages
<1>3. MaxPages # 0
  BY <1>1, <1>2, KvAssumption
<1> QED
  BY <1>1, <1>2, <1>3, KvAssumption DEF PoolPages

LEMMA PageCounts ==
  ASSUME NEW n \in 0 .. MaxSeq, NEW m \in 0 .. n
  PROVE  /\ CeilDiv(m, PageSize) \in Nat
         /\ CeilDiv(n, PageSize) \in Nat
         /\ CeilDiv(m, PageSize) <= CeilDiv(n, PageSize)
         /\ CeilDiv(n, PageSize) <= MaxPages
<1>1. m \in Nat /\ n \in Nat /\ MaxSeq \in Nat /\ m <= n /\ n <= MaxSeq
  BY KvAssumption
<1>2. PageSize \in Nat \ {0}
  BY Sizes
<1>3. CeilDiv(m, PageSize) <= CeilDiv(n, PageSize)
  BY <1>1, <1>2, CeilDivMonotone
<1>4. CeilDiv(n, PageSize) <= MaxPages
  BY <1>1, <1>2, CeilDivMonotone DEF MaxPages
<1> QED
  BY <1>1, <1>2, <1>3, <1>4, CeilDivBounds

-----------------------------------------------------------------------------
(***************************************************************************)
(* One call that hands out pages, complete or cut short.  The pages it     *)
(* hands out are fresh and pairwise distinct, and it touches no entry      *)
(* outside the logical pages have .. need-1.                               *)
(***************************************************************************)
Assigned(have, need, count, l, g) ==
  g \in have .. need - 1 /\ Rank(have, need, l, g) < count

LEMMA RanksDistinct ==
  ASSUME NEW have \in Nat, NEW need \in Nat, have <= need,
         NEW l1 \in Layer, NEW l2 \in Layer,
         NEW g1 \in have .. need - 1, NEW g2 \in have .. need - 1
  PROVE  /\ Rank(have, need, l1, g1) \in Nat
         /\ Rank(have, need, l1, g1) < NumLayers * (need - have)
         /\ Rank(have, need, l1, g1) = Rank(have, need, l2, g2)
              => l1 = l2 /\ g1 = g2
<1> DEFINE w == need - have
<1>1. w \in Nat /\ NumLayers \in Nat /\ l1 \in 0 .. NumLayers - 1
      /\ l1 \in Nat /\ l2 \in Nat
  BY KvAssumption DEF Layer
<1>2. g1 - have \in 0 .. w - 1 /\ g2 - have \in 0 .. w - 1
  OBVIOUS
<1> HIDE DEF w
<1>3. l1 * w + (g1 - have) \in Nat /\ l1 * w + (g1 - have) < NumLayers * w
  BY <1>1, <1>2, RankBound
<1>4. l1 * w + (g1 - have) = l2 * w + (g2 - have)
        => l1 = l2 /\ g1 - have = g2 - have
  BY <1>1, <1>2, RankInjective
<1>5. g1 \in Int /\ g2 \in Int /\ have \in Int
  OBVIOUS
<1> QED
  BY <1>3, <1>4, <1>5 DEF Rank, w

(* What TypeOK says of all but the pool.                                   *)
TablesOK ==
  /\ length \in 0 .. MaxSeq
  /\ pagesMapped \in 0 .. PoolPages
  /\ hostTable   \in [Layer -> [Page -> PoolPage \cup {Unmapped}]]
  /\ deviceTable \in [Layer -> [Page -> PoolPage \cup {Unmapped}]]

LEMMA MapPagesTables ==
  ASSUME TablesOK, NoSharing,
         NEW have \in Nat, NEW need \in Nat, have <= need, need <= MaxPages,
         NEW count \in Nat, count <= Room,
         NEW copied \in Nat,
         MapPages(have, need, count, copied)
  PROVE  /\ pagesMapped' = pagesMapped + count
         /\ pagesMapped' \in 0 .. PoolPages
         /\ hostTable'   \in [Layer -> [Page -> PoolPage \cup {Unmapped}]]
         /\ deviceTable' \in [Layer -> [Page -> PoolPage \cup {Unmapped}]]
         /\ \A l \in Layer, g \in Page :
              /\ hostTable'[l][g] =
                   IF Assigned(have, need, count, l, g)
                     THEN pagesMapped + Rank(have, need, l, g) ELSE hostTable[l][g]
              /\ deviceTable'[l][g] =
                   IF g \in have .. need - 1 /\ l < copied
                     THEN hostTable'[l][g] ELSE deviceTable[l][g]
         /\ NoSharing'
<1> USE Sizes, KvAssumption
<1>1. /\ pagesMapped \in 0 .. PoolPages
      /\ hostTable   \in [Layer -> [Page -> PoolPage \cup {Unmapped}]]
      /\ deviceTable \in [Layer -> [Page -> PoolPage \cup {Unmapped}]]
  BY DEF TablesOK
<1>2. pagesMapped' = pagesMapped + count /\ pagesMapped' \in 0 .. PoolPages
  BY <1>1 DEF MapPages, Room
<1>3. hostTable' = [l \in Layer |-> [g \in Page |->
                      IF Assigned(have, need, count, l, g)
                        THEN pagesMapped + Rank(have, need, l, g)
                        ELSE hostTable[l][g]]]
  BY DEF MapPages, Assigned, Rank
<1>4. deviceTable' = [l \in Layer |-> [g \in Page |->
                        IF g \in have .. need - 1 /\ l < copied
                          THEN hostTable'[l][g] ELSE deviceTable[l][g]]]
  BY DEF MapPages, Copied
<1>5. ASSUME NEW l \in Layer, NEW g \in Page, Assigned(have, need, count, l, g)
      PROVE  /\ Rank(have, need, l, g) \in Nat
             /\ Rank(have, need, l, g) < count
             /\ pagesMapped + Rank(have, need, l, g) \in PoolPage
             /\ pagesMapped + Rank(have, need, l, g) < pagesMapped'
             /\ pagesMapped + Rank(have, need, l, g) >= pagesMapped
  <2>1. Rank(have, need, l, g) \in Nat
    BY <1>5, RanksDistinct DEF Assigned
  <2>2. Rank(have, need, l, g) < count
    BY <1>5 DEF Assigned
  <2> QED
    BY <1>1, <1>2, <2>1, <2>2 DEF PoolPage
<1>6. hostTable' \in [Layer -> [Page -> PoolPage \cup {Unmapped}]]
  BY <1>1, <1>3, <1>5
<1>7. deviceTable' \in [Layer -> [Page -> PoolPage \cup {Unmapped}]]
  BY <1>1, <1>4, <1>6
<1>8. NoSharing'
  <2> SUFFICES ASSUME NEW l1 \in Layer, NEW l2 \in Layer, NEW g1 \in Page, NEW g2 \in Page
               PROVE  /\ hostTable'[l1][g1] # Unmapped => hostTable'[l1][g1] < pagesMapped'
                      /\ /\ hostTable'[l1][g1] # Unmapped
                         /\ hostTable'[l1][g1] = hostTable'[l2][g2]
                         => l1 = l2 /\ g1 = g2
    BY DEF NoSharing
  <2> DEFINE A1 == Assigned(have, need, count, l1, g1)
             A2 == Assigned(have, need, count, l2, g2)
             h1 == hostTable[l1][g1]
             h2 == hostTable[l2][g2]
             r1 == Rank(have, need, l1, g1)
             r2 == Rank(have, need, l2, g2)
  <2>1. /\ hostTable'[l1][g1] = IF A1 THEN pagesMapped + r1 ELSE h1
        /\ hostTable'[l2][g2] = IF A2 THEN pagesMapped + r2 ELSE h2
    BY <1>3
  <2>2. /\ h1 # Unmapped => h1 < pagesMapped
        /\ h2 # Unmapped => h2 < pagesMapped
        /\ h1 # Unmapped /\ h1 = h2 => l1 = l2 /\ g1 = g2
    BY DEF NoSharing
  <2>3. h1 \in PoolPage \cup {Unmapped} /\ h2 \in PoolPage \cup {Unmapped}
    BY <1>1
  <2>4. /\ A1 => r1 \in Nat /\ r1 < count
        /\ A2 => r2 \in Nat /\ r2 < count
    BY <1>5
  <2>5. A1 /\ A2 /\ r1 = r2 => l1 = l2 /\ g1 = g2
    BY RanksDistinct DEF Assigned
  <2>6. pagesMapped \in Nat /\ pagesMapped' = pagesMapped + count
    BY <1>1, <1>2
  <2>7. /\ h1 # Unmapped => h1 \in Nat
        /\ h2 # Unmapped => h2 \in Nat
    BY <2>3 DEF PoolPage
  <2> HIDE DEF A1, A2, h1, h2, r1, r2
  <2>8. CASE A1 /\ A2
    BY <2>1, <2>4, <2>5, <2>6, <2>8
  <2>9. CASE A1 /\ ~ A2
    BY <2>1, <2>2, <2>4, <2>6, <2>7, <2>9 DEF Unmapped
  <2>10. CASE ~ A1 /\ A2
    BY <2>1, <2>2, <2>4, <2>6, <2>7, <2>10 DEF Unmapped
  <2>11. CASE ~ A1 /\ ~ A2
    BY <2>1, <2>2, <2>6, <2>7, <2>11
  <2> QED
    BY <2>8, <2>9, <2>10, <2>11
<1> QED
  BY <1>2, <1>3, <1>4, <1>6, <1>7, <1>8

-----------------------------------------------------------------------------
(***************************************************************************)
(* The inductive invariant.  NoSharing alone is not inductive without the  *)
(* types; the bound on the waste needs the exact page count, which holds   *)
(* as long as no copy fails (a failed copy leaks the pages it had handed   *)
(* out).                                                                   *)
(***************************************************************************)
Accounting == Paged /\ ~ CopyMayFail => pagesMapped = NumLayers * Have

IInv == TablesOK /\ NoSharing /\ DeviceCurrent /\ Accounting

LEMMA HaveBounds ==
  ASSUME TablesOK, NEW n \in 0 .. MaxSeq, length <= n
  PROVE  /\ Have \in Nat /\ Need(n) \in Nat /\ Need(n) - Have \in Nat
         /\ Have <= Need(n) /\ Need(n) <= MaxPages /\ Have <= MaxPages
         /\ Wanted(n) \in Nat
         /\ Room \in Nat
<1>1. length \in 0 .. n
  BY KvAssumption DEF TablesOK
<1>2. /\ Have \in Nat /\ Need(n) \in Nat /\ Have <= Need(n) /\ Need(n) <= MaxPages
  BY <1>1, PageCounts DEF Have, Need
<1>3. Need(n) - Have \in Nat /\ NumLayers \in Nat
  BY <1>2, KvAssumption
<1>4. Wanted(n) \in Nat
  BY <1>3 DEF Wanted
<1>5. Room \in Nat
  BY Sizes DEF TablesOK, Room
<1> QED
  BY <1>2, <1>3, <1>4, <1>5, Sizes

(* The parameters of the three ways reserve_length can hand out pages.     *)
LEMMA CallParameters ==
  ASSUME TablesOK, NEW n \in 1 .. MaxSeq
  PROVE  /\ PoolExhausted(n) => Need(n) - Have \in Nat \ {0}
                                /\ Room \div (Need(n) - Have) \in Nat
         /\ \A f \in Layer : length <= n => (f + 1) * (Need(n) - Have) \in Nat
         /\ Need(n) > Have => length < n
<1>1. MaxSeq \in Nat /\ n \in 0 .. MaxSeq /\ length \in 0 .. MaxSeq
      /\ NumLayers \in Nat \ {0}
  BY KvAssumption DEF TablesOK
<1>2. ASSUME PoolExhausted(n)
      PROVE  Need(n) - Have \in Nat \ {0} /\ Room \div (Need(n) - Have) \in Nat
  <2>1. length <= n /\ Room < Wanted(n)
    BY <1>1, <1>2 DEF PoolExhausted
  <2>2. Room \in Nat /\ Need(n) - Have \in Nat
    BY <1>1, <2>1, HaveBounds
  <2>3. Need(n) - Have # 0
    BY <1>1, <2>1, <2>2 DEF Wanted
  <2> DEFINE w == Need(n) - Have
             r == Room
  <2> HIDE DEF w, r
  <2>4. r \in Nat /\ w \in Nat \ {0} => r \div w \in Nat
    OBVIOUS
  <2> QED
    BY <2>2, <2>3, <2>4 DEF w, r
<1>3. ASSUME NEW f \in Layer, length <= n
      PROVE  (f + 1) * (Need(n) - Have) \in Nat
  <2>1. Need(n) - Have \in Nat /\ f + 1 \in Nat
    BY <1>1, <1>3, HaveBounds DEF Layer
  <2> QED
    BY <2>1
<1>4. ASSUME Need(n) > Have, ~ (length < n)
      PROVE  FALSE
  <2>1. n \in 0 .. length
    BY <1>1, <1>4
  <2>2. /\ CeilDiv(n, PageSize) <= CeilDiv(length, PageSize)
        /\ CeilDiv(n, PageSize) \in Nat /\ CeilDiv(length, PageSize) \in Nat
    BY <1>1, <2>1, PageCounts
  <2> QED
    BY <1>4, <2>2 DEF Need, Have
<1> QED
  BY <1>2, <1>3, <1>4

(* The pages the properties speak of are the first CeilDiv of each layer.  *)
LEMMA PagesBelow ==
  ASSUME NEW n \in 0 .. MaxSeq
  PROVE  /\ {g \in Page : g * PageSize < n} = 0 .. CeilDiv(n, PageSize) - 1
         /\ CeilDiv(n, PageSize) \in Nat /\ CeilDiv(n, PageSize) <= MaxPages
<1> DEFINE h == CeilDiv(n, PageSize)
           b == PageSize
<1>1. n \in Nat /\ MaxSeq \in Nat /\ n \in 0 .. n
  BY KvAssumption
<1>2. h \in Nat /\ h <= MaxPages /\ MaxPages \in Nat /\ b \in Nat \ {0}
  BY <1>1, PageCounts, Sizes
<1>3. h * b >= n /\ h * b < n + b
  BY <1>1, <1>2, CeilDivBounds
<1> HIDE DEF h, b
<1>4. ASSUME NEW g \in Nat
      PROVE  g * b < n <=> g < h
  <2>1. g < h => (g + 1) * b <= h * b
    BY <1>2
  <2>2. (g + 1) * b = g * b + b
    BY <1>2
  <2>3. ~ (g < h) => h * b <= g * b
    BY <1>2
  <2>4. g * b \in Nat /\ h * b \in Nat
    BY <1>2
  <2> QED
    BY <1>1, <1>2, <1>3, <2>1, <2>2, <2>3, <2>4
<1>5. {g \in Page : g * b < n} \subseteq 0 .. h - 1
  <2> SUFFICES ASSUME NEW g \in Page, g * b < n PROVE g \in 0 .. h - 1
    OBVIOUS
  <2>1. g \in Nat
    BY <1>2 DEF Page
  <2> QED
    BY <1>2, <1>4, <2>1
<1>6. 0 .. h - 1 \subseteq {g \in Page : g * b < n}
  <2> SUFFICES ASSUME NEW g \in 0 .. h - 1 PROVE g \in Page /\ g * b < n
    OBVIOUS
  <2>1. g \in Nat /\ g < h
    BY <1>2
  <2> QED
    BY <1>2, <1>4, <2>1 DEF Page
<1> QED
  BY <1>2, <1>5, <1>6 DEF h, b

LEMMA ReachedPages ==
  ASSUME TablesOK
  PROVE  /\ Reached = 0 .. Have - 1
         /\ Have \in Nat /\ Have <= MaxPages
BY PagesBelow DEF TablesOK, Reached, Have

LEMMA InitIInv == Init => IInv
<1> SUFFICES ASSUME Init PROVE IInv
  OBVIOUS
<1> USE Sizes, KvAssumption
<1>1. TablesOK
  BY DEF Init, TablesOK, Unmapped, PoolPage
<1>2. NoSharing
  BY DEF Init, NoSharing
<1>3. Have = 0
  <2>1. CeilDiv(0, PageSize) \in Nat /\ CeilDiv(0, PageSize) * PageSize < PageSize
    BY CeilDivBounds
  <2> QED
    BY <2>1 DEF Init, Have
<1>4. DeviceCurrent /\ Accounting
  BY <1>1, <1>3, ReachedPages DEF Init, DeviceCurrent, Accounting
<1> QED
  BY <1>1, <1>2, <1>4 DEF IInv

(* A page handed out by the first `count' ranks of a call is mapped.       *)
LEMMA ReserveStep ==
  ASSUME IInv, NEW n \in 1 .. MaxSeq, ReserveLength(n)
  PROVE  IInv'
<1>1. /\ MaxSeq \in Nat /\ n \in 0 .. MaxSeq /\ length < n /\ length' = n
      /\ length \in 0 .. MaxSeq /\ UNCHANGED pool
      /\ TablesOK /\ NoSharing /\ DeviceCurrent /\ Accounting
      /\ Reached = 0 .. Have - 1
  BY KvAssumption, ReachedPages DEF ReserveLength, IInv, TablesOK
<1>2. Have' = Need(n)
  BY <1>1 DEF Have, Need
<1>3. CASE ~ Paged
  BY <1>1, <1>3 DEF ReserveLength, IInv, TablesOK, NoSharing, DeviceCurrent, Accounting
<1>4. CASE Paged
  <2>1. /\ Have \in Nat /\ Need(n) \in Nat /\ Have <= Need(n) /\ Need(n) <= MaxPages
        /\ Wanted(n) \in Nat
    BY <1>1, HaveBounds
  <2>2. Wanted(n) <= Room /\ MapPages(Have, Need(n), Wanted(n), NumLayers)
    BY <1>4 DEF ReserveLength
  <2>3. NumLayers \in Nat
    BY KvAssumption
  <2>4. /\ pagesMapped' = pagesMapped + Wanted(n)
        /\ pagesMapped' \in 0 .. PoolPages
        /\ hostTable'   \in [Layer -> [Page -> PoolPage \cup {Unmapped}]]
        /\ deviceTable' \in [Layer -> [Page -> PoolPage \cup {Unmapped}]]
        /\ \A l \in Layer, g \in Page :
             /\ hostTable'[l][g] =
                  IF Assigned(Have, Need(n), Wanted(n), l, g)
                    THEN pagesMapped + Rank(Have, Need(n), l, g) ELSE hostTable[l][g]
             /\ deviceTable'[l][g] =
                  IF g \in Have .. Need(n) - 1 /\ l < NumLayers
                    THEN hostTable'[l][g] ELSE deviceTable[l][g]
        /\ NoSharing'
    BY <1>1, <2>1, <2>2, <2>3, MapPagesTables
  <2>5. TablesOK'
    BY <1>1, <2>4 DEF TablesOK
  <2>6. DeviceCurrent'
    <3>0. Reached' = 0 .. Need(n) - 1
      BY <1>1, PagesBelow DEF Reached, Need
    <3> SUFFICES ASSUME NEW l \in Layer, NEW g \in 0 .. Need(n) - 1
                 PROVE  deviceTable'[l][g] = hostTable'[l][g] /\ deviceTable'[l][g] # Unmapped
      BY <3>0 DEF DeviceCurrent
    <3>1. g \in Page /\ l < NumLayers /\ g \in Nat
      BY <2>1, Sizes, KvAssumption DEF Page, Layer
    <3>2. CASE g < Have
      <4>1. g \in 0 .. Have - 1 /\ g \notin Have .. Need(n) - 1
        BY <2>1, <3>1, <3>2
      <4>2. deviceTable[l][g] = hostTable[l][g] /\ deviceTable[l][g] # Unmapped
        BY <1>1, <1>4, <4>1 DEF DeviceCurrent
      <4> QED
        BY <2>4, <3>1, <4>1, <4>2 DEF Assigned
    <3>3. CASE ~ (g < Have)
      <4>1. g \in Have .. Need(n) - 1
        BY <2>1, <3>1, <3>3
      <4>2. Rank(Have, Need(n), l, g) \in Nat /\ Rank(Have, Need(n), l, g) < Wanted(n)
        BY <2>1, <4>1, RanksDistinct DEF Wanted
      <4>3. hostTable'[l][g] = pagesMapped + Rank(Have, Need(n), l, g)
        BY <2>4, <3>1, <4>1, <4>2 DEF Assigned
      <4>4. hostTable'[l][g] # Unmapped
        BY <1>1, <4>2, <4>3, Sizes DEF TablesOK, Unmapped
      <4> QED
        BY <2>4, <3>1, <4>1, <4>4
    <3> QED
      BY <3>2, <3>3
  <2>7. Accounting'
    <3> DEFINE h == Have
               k == Need(n)
    <3> HIDE DEF h, k
    <3>1. NumLayers * h + NumLayers * (k - h) = NumLayers * k
      BY <2>1, <2>3 DEF h, k
    <3>2. pagesMapped = NumLayers * h \/ CopyMayFail
      BY <1>1, <1>4 DEF Accounting, h
    <3> QED
      BY <1>2, <2>4, <3>1, <3>2 DEF Accounting, Wanted, h, k
  <2> QED
    BY <2>4, <2>5, <2>6, <2>7 DEF IInv
<1> QED
  BY <1>3, <1>4

(* A call that throws after handing out some pages: nothing below the      *)
(* reserved length has moved.                                              *)
LEMMA PartialCall ==
  ASSUME TablesOK, NoSharing, DeviceCurrent, Paged,
         NEW n \in 1 .. MaxSeq, length <= n,
         NEW count \in Nat, count <= Room, NEW copied \in Nat,
         MapPages(Have, Need(n), count, copied), UNCHANGED <<length, pool>>
  PROVE  TablesOK' /\ NoSharing' /\ DeviceCurrent'
<1>1. n \in 0 .. MaxSeq
  BY KvAssumption
<1>2. /\ Have \in Nat /\ Need(n) \in Nat /\ Have <= Need(n) /\ Need(n) <= MaxPages
  BY <1>1, HaveBounds
<1>3. /\ pagesMapped' \in 0 .. PoolPages
      /\ hostTable'   \in [Layer -> [Page -> PoolPage \cup {Unmapped}]]
      /\ deviceTable' \in [Layer -> [Page -> PoolPage \cup {Unmapped}]]
      /\ \A l \in Layer, g \in Page :
           /\ g \notin Have .. Need(n) - 1 => hostTable'[l][g] = hostTable[l][g]
           /\ g \notin Have .. Need(n) - 1 => deviceTable'[l][g] = deviceTable[l][g]
      /\ NoSharing'
  BY <1>2, MapPagesTables DEF Assigned
<1>4. TablesOK'
  BY <1>3 DEF TablesOK
<1>6. DeviceCurrent'
  <2> SUFFICES ASSUME NEW l \in Layer, NEW g \in Reached
               PROVE  deviceTable'[l][g] = hostTable'[l][g] /\ deviceTable'[l][g] # Unmapped
    BY DEF DeviceCurrent, Reached
  <2>1. g \in Page /\ g \notin Have .. Need(n) - 1
    BY <1>2, ReachedPages DEF Reached
  <2> QED
    BY <1>3, <2>1 DEF DeviceCurrent
<1> QED
  BY <1>3, <1>4, <1>6

LEMMA ExhaustedStep ==
  ASSUME IInv, NEW n \in 1 .. MaxSeq, PoolExhausted(n)
  PROVE  IInv'
<1>1. TablesOK /\ NoSharing /\ DeviceCurrent /\ Accounting /\ Paged
  BY DEF IInv, PoolExhausted
<1>2. /\ n \in 0 .. MaxSeq /\ length <= n /\ Room < Wanted(n)
      /\ MapPages(Have, Need(n), Room, Room \div (Need(n) - Have))
      /\ UNCHANGED <<length, pool>>
  BY KvAssumption DEF PoolExhausted, IInv, TablesOK
<1>3. Room \in Nat /\ Room \div (Need(n) - Have) \in Nat
  BY <1>1, <1>2, HaveBounds, CallParameters
<1>4. TablesOK' /\ NoSharing' /\ DeviceCurrent'
  <2>1. Room <= Room
    BY <1>3
  <2> QED
    BY <1>1, <1>2, <1>3, <2>1, PartialCall
<1>5. CopyMayFail
  <2> SUFFICES ASSUME ~ CopyMayFail PROVE FALSE
    OBVIOUS
  <2>1. pagesMapped = NumLayers * Have
    BY <1>1 DEF Accounting
  <2>2. /\ Have \in Nat /\ Need(n) \in Nat /\ Need(n) <= MaxPages /\ MaxPages \in Nat
        /\ NumLayers \in Nat
    BY <1>1, <1>2, HaveBounds, Sizes, KvAssumption
  <2> DEFINE h == Have
             k == Need(n)
             m == MaxPages
  <2> HIDE DEF h, k, m
  <2>3. NumLayers * h + NumLayers * (k - h) <= m * NumLayers
    BY <2>2 DEF h, k, m
  <2>4. Room < NumLayers * (k - h) /\ Room = m * NumLayers - NumLayers * h
    BY <1>2, <2>1 DEF Wanted, Room, PoolPages, h, k, m
  <2> QED
    BY <2>2, <2>3, <2>4 DEF h, k, m
<1>6. Accounting'
  BY <1>5 DEF Accounting
<1> QED
  BY <1>4, <1>6 DEF IInv

LEMMA CopyFailsStep ==
  ASSUME IInv, NEW n \in 1 .. MaxSeq, CopyFails(n)
  PROVE  IInv'
<1>1. TablesOK /\ NoSharing /\ DeviceCurrent /\ Paged /\ CopyMayFail
  BY DEF IInv, CopyFails
<1>2. PICK failed \in Layer :
        /\ (failed + 1) * (Need(n) - Have) <= Room
        /\ MapPages(Have, Need(n), (failed + 1) * (Need(n) - Have), failed)
  BY DEF CopyFails
<1>3. UNCHANGED <<length, pool>> /\ Need(n) > Have
  BY DEF CopyFails
<1>4. length < n
  BY <1>1, <1>3, CallParameters
<1>5. length <= n /\ failed \in Nat
  BY <1>1, <1>4, KvAssumption DEF TablesOK, Layer
<1>6. (failed + 1) * (Need(n) - Have) \in Nat
  BY <1>1, <1>5, CallParameters
<1>7. TablesOK' /\ NoSharing' /\ DeviceCurrent'
  BY <1>1, <1>2, <1>3, <1>5, <1>6, PartialCall
<1> QED
  BY <1>1, <1>7 DEF IInv, Accounting

LEMMA WriteStep ==
  ASSUME IInv, NEW layer, NEW start, NEW vals, WriteKv(layer, start, vals)
  PROVE  IInv'
<1>1. UNCHANGED <<length, pagesMapped, hostTable, deviceTable>>
  BY DEF WriteKv
<1>2. Have' = Have /\ Reached' = Reached
  BY <1>1 DEF Have, Reached
<1> QED
  BY <1>1, <1>2 DEF IInv, TablesOK, NoSharing, DeviceCurrent, Accounting

LEMMA NextIInv == IInv /\ [Next]_vars => IInv'
<1> SUFFICES ASSUME IInv, [Next]_vars PROVE IInv'
  OBVIOUS
<1>1. ASSUME NEW n \in 1 .. MaxSeq + 1, ReserveLength(n) PROVE IInv'
  <2>1. n \in 1 .. MaxSeq
    BY <1>1, KvAssumption DEF ReserveLength, LengthFits
  <2> QED
    BY <1>1, <2>1, ReserveStep
<1>2. ASSUME NEW n \in 1 .. MaxSeq + 1, PoolExhausted(n) PROVE IInv'
  <2>1. n \in 1 .. MaxSeq
    BY <1>2, KvAssumption DEF PoolExhausted, LengthFits
  <2> QED
    BY <1>2, <2>1, ExhaustedStep
<1>3. ASSUME NEW n \in 1 .. MaxSeq + 1, CopyFails(n) PROVE IInv'
  <2>1. n \in 1 .. MaxSeq
    BY <1>3, KvAssumption DEF CopyFails, LengthFits
  <2> QED
    BY <1>3, <2>1, CopyFailsStep
<1>4. ASSUME NEW layer \in Layer, NEW start \in Position, NEW n \in 1 .. MaxSeq,
             NEW vals \in [1 .. n -> Values], WriteKv(layer, start, vals)
      PROVE  IInv'
  BY <1>4, WriteStep
<1>5. CASE UNCHANGED vars
  <2>1. UNCHANGED <<length, pagesMapped, hostTable, deviceTable, pool>>
    BY <1>5 DEF vars
  <2>2. Have' = Have /\ Reached' = Reached
    BY <2>1 DEF Have, Reached
  <2> QED
    BY <2>1, <2>2 DEF IInv, TablesOK, NoSharing, DeviceCurrent, Accounting
<1> QED
  BY <1>1, <1>2, <1>3, <1>4, <1>5 DEF Next

-----------------------------------------------------------------------------
(* The inductive invariant holds for every configuration of the cache.     *)
THEOREM IInvAlways == Spec => []IInv
<1> QED
  BY InitIInv, NextIInv, PTL DEF Spec

(* The pool holds what kernels wrote, or zero.                             *)
PoolOK == pool \in [PoolPage -> [Slot -> Values \cup {Zero}]]

LEMMA WriteKeepsPool ==
  ASSUME PoolOK, NEW layer \in Layer, NEW start \in Position, NEW n \in 1 .. MaxSeq,
         NEW vals \in [1 .. n -> Values], WriteKv(layer, start, vals)
  PROVE  PoolOK'
<1>1. n \in Nat /\ start \in Nat
  BY KvAssumption DEF Position
<1>2. Len(vals) = n
  BY <1>1
<1>3. pool' \in [PoolPage -> [Slot -> Values \cup {Zero}]]
  <2> SUFFICES ASSUME NEW g \in PoolPage, NEW s \in Slot,
                      NEW hits,
                      hits = {p \in start .. start + Len(vals) - 1 :
                               PhysicalPage(layer, p) = g /\ SlotOf(p) = s}
               PROVE  (IF hits = {} THEN pool[g][s]
                       ELSE vals[(CHOOSE p \in hits : TRUE) - start + 1])
                         \in Values \cup {Zero}
    BY DEF WriteKv
  <2>1. pool[g][s] \in Values \cup {Zero}
    BY DEF PoolOK
  <2>2. ASSUME hits # {}
        PROVE  (CHOOSE p \in hits : TRUE) - start + 1 \in 1 .. n
    <3>1. (CHOOSE p \in hits : TRUE) \in hits
      BY <2>2
    <3>2. (CHOOSE p \in hits : TRUE) \in start .. start + n - 1
      BY <1>2, <3>1
    <3> QED
      BY <1>1, <3>2
  <2> QED
    BY <2>1, <2>2
<1> QED
  BY <1>3 DEF PoolOK

LEMMA NextPoolOK == PoolOK /\ [Next]_vars => PoolOK'
<1> SUFFICES ASSUME PoolOK, [Next]_vars PROVE PoolOK'
  OBVIOUS
<1>1. CASE UNCHANGED pool
  BY <1>1 DEF PoolOK
<1>2. ASSUME NEW layer \in Layer, NEW start \in Position, NEW n \in 1 .. MaxSeq,
             NEW vals \in [1 .. n -> Values], WriteKv(layer, start, vals)
      PROVE  PoolOK'
  BY <1>2, WriteKeepsPool
<1> QED
  BY <1>1, <1>2 DEF Next, vars, ReserveLength, PoolExhausted, CopyFails

(* kv_cache.cu: the tables stay well typed, including when a copy fails    *)
(* half way through a call.                                                *)
THEOREM TypeCorrect == Spec => []TypeOK
<1>1. Init => PoolOK
  BY DEF Init, PoolOK
<1>2. IInv /\ PoolOK => TypeOK
  BY DEF IInv, TablesOK, PoolOK, TypeOK
<1> QED
  BY <1>1, <1>2, IInvAlways, NextPoolOK, PTL DEF Spec

(* No page of the pool ever backs two logical pages, failed calls          *)
(* included: pages_mapped_ only grows and every entry took a fresh value.  *)
THEOREM PagesNeverShared == Spec => []NoSharing
<1>1. IInv => NoSharing
  BY DEF IInv
<1> QED
  BY <1>1, IInvAlways, PTL

(* Kernels always find the reserved pages in the device's copy.            *)
THEOREM DeviceAlwaysCurrent == Spec => []DeviceCurrent
<1>1. IInv => DeviceCurrent
  BY DEF IInv
<1> QED
  BY <1>1, IInvAlways, PTL

(* kv_cache.cu:37: with one page count per (layer, logical page), the      *)
(* check that the pool is not exhausted cannot fail while nothing leaked.  *)
LEMMA NothingLeakedSuffices ==
  ASSUME TablesOK
  PROVE  PoolSuffices
<1> SUFFICES ASSUME Paged, Leaked = 0, NEW n \in length .. MaxSeq
             PROVE  Wanted(n) <= Room
  BY DEF PoolSuffices
<1>1. n \in 0 .. MaxSeq /\ length <= n
  BY KvAssumption DEF TablesOK
<1>2. /\ Have \in Nat /\ Need(n) \in Nat /\ Need(n) <= MaxPages /\ MaxPages \in Nat
      /\ NumLayers \in Nat /\ pagesMapped \in Nat /\ PoolPages = MaxPages * NumLayers
  <2>1. pagesMapped \in Nat /\ PoolPages = MaxPages * NumLayers /\ MaxPages \in Nat
    BY Sizes DEF TablesOK
  <2> QED
    BY <1>1, <2>1, HaveBounds, KvAssumption
<1> DEFINE h == Have
           k == Need(n)
           m == MaxPages
<1>3. pagesMapped = NumLayers * h
  BY <1>2 DEF Leaked
<1> HIDE DEF h, k, m
<1>4. NumLayers * (k - h) <= m * NumLayers - NumLayers * h
  BY <1>2 DEF h, k, m
<1> QED
  BY <1>2, <1>3, <1>4 DEF Wanted, Room, h, k, m

THEOREM PoolAlwaysSuffices == Spec => []PoolSuffices
<1>1. IInv => PoolSuffices
  BY NothingLeakedSuffices DEF IInv
<1> QED
  BY <1>1, IInvAlways, PTL

(* Without a failing copy nothing is leaked, so the pool is never too      *)
(* small for a legal length.                                               *)
PoolNeverTooSmall == Paged => \A n \in length .. MaxSeq : Wanted(n) <= Room

THEOREM PoolNeverExhausted == ~ CopyMayFail => (Spec => []PoolNeverTooSmall)
<1> SUFFICES ASSUME ~ CopyMayFail PROVE Spec => []PoolNeverTooSmall
  OBVIOUS
<1>1. IInv => PoolNeverTooSmall
  <2> SUFFICES ASSUME IInv, Paged PROVE Leaked = 0
    BY NothingLeakedSuffices DEF IInv, PoolSuffices, PoolNeverTooSmall
  <2>1. pagesMapped = NumLayers * Have /\ pagesMapped \in Nat
    BY DEF IInv, Accounting, TablesOK
  <2> QED
    BY <2>1 DEF Leaked
<1> QED
  BY <1>1, IInvAlways, PTL

(* live_bytes: what the paged layout wastes is less than one page of each  *)
(* layer, at every length the sequence passes through.                     *)
WasteBounded ==
  Paged => /\ pagesMapped * PageSize >= NumLayers * length
           /\ pagesMapped * PageSize < NumLayers * (length + PageSize)

LEMMA AccountingBoundsWaste ==
  ASSUME ~ CopyMayFail, IInv
  PROVE  WasteBounded
<1> SUFFICES ASSUME Paged
             PROVE  /\ pagesMapped * PageSize >= NumLayers * length
                    /\ pagesMapped * PageSize < NumLayers * (length + PageSize)
  BY DEF WasteBounded
<1>1. pagesMapped = NumLayers * Have /\ length \in Nat
  BY KvAssumption DEF IInv, Accounting, TablesOK
<1>2. NumLayers \in Nat \ {0} /\ PageSize \in Nat \ {0}
  BY Sizes, KvAssumption
<1>3. Have \in Nat /\ Have * PageSize >= length /\ Have * PageSize < length + PageSize
  BY <1>1, <1>2, CeilDivBounds DEF Have
<1> DEFINE x == Have * PageSize
           y == length + PageSize
<1>4. pagesMapped * PageSize = NumLayers * x
  BY <1>1, <1>2, <1>3
<1>5. x \in Nat /\ y \in Nat /\ x >= length /\ x < y
  BY <1>1, <1>2, <1>3
<1> HIDE DEF x, y
<1>6. NumLayers * x >= NumLayers * length /\ NumLayers * x < NumLayers * y
  BY <1>1, <1>2, <1>5
<1> QED
  BY <1>4, <1>6 DEF y

THEOREM WasteAlwaysBounded == ~ CopyMayFail => (Spec => []WasteBounded)
<1> SUFFICES ASSUME ~ CopyMayFail PROVE Spec => []WasteBounded
  OBVIOUS
<1>1. IInv => WasteBounded
  BY AccountingBoundsWaste
<1> QED
  BY <1>1, IInvAlways, PTL

(* A call that returns, after failed ones too, hands out what it needs.    *)
THEOREM ReturningCallsLeakNothing == Spec => ReturnLeaksNothing
<1> DEFINE Exact == Paged /\ length' # length => Leaked' = Leaked
<1>1. IInv /\ [Next]_vars => [Exact]_vars
  <2> SUFFICES ASSUME TablesOK, Next PROVE Exact
    BY DEF IInv
  <2>1. ASSUME NEW n \in 1 .. MaxSeq + 1, ReserveLength(n), Paged PROVE Leaked' = Leaked
    <3>1. /\ n \in 0 .. MaxSeq /\ length <= n /\ length' = n
          /\ pagesMapped' = pagesMapped + Wanted(n)
      BY <2>1, KvAssumption DEF ReserveLength, LengthFits, MapPages, TablesOK
    <3>2. /\ Have \in Nat /\ Need(n) \in Nat /\ Have' = Need(n) /\ NumLayers \in Nat
          /\ pagesMapped \in Nat
      BY <3>1, HaveBounds, KvAssumption DEF Have, Need, TablesOK
    <3> DEFINE h == Have
               k == Need(n)
    <3>3. /\ Leaked = pagesMapped - NumLayers * h
          /\ Leaked' = pagesMapped + NumLayers * (k - h) - NumLayers * k
      BY <3>1, <3>2 DEF Leaked, Wanted
    <3>4. h \in Nat /\ k \in Nat
      BY <3>2
    <3> HIDE DEF h, k
    <3>5. NumLayers * (k - h) = NumLayers * k - NumLayers * h
      BY <3>2, <3>4
    <3>6. NumLayers * k \in Nat /\ NumLayers * h \in Nat
      BY <3>2, <3>4
    <3> QED
      BY <3>2, <3>3, <3>5, <3>6
  <2>2. ASSUME NEW n, PoolExhausted(n) PROVE length' = length
    BY <2>2 DEF PoolExhausted
  <2>3. ASSUME NEW n, CopyFails(n) PROVE length' = length
    BY <2>3 DEF CopyFails
  <2>4. ASSUME NEW layer, NEW start, NEW vals, WriteKv(layer, start, vals)
        PROVE  length' = length
    BY <2>4 DEF WriteKv
  <2> QED
    BY <2>1, <2>2, <2>3, <2>4 DEF Next
<1> QED
  BY <1>1, IInvAlways, PTL DEF Spec, ReturnLeaksNothing

(* A page table entry a kernel may already be using is never rewritten.    *)
LEMMA MapKeepsReserved ==
  ASSUME TablesOK, NEW n, NEW count, NEW copied,
         MapPages(Have, Need(n), count, copied)
  PROVE  \A l \in Layer : \A g \in Reached : deviceTable'[l][g] = deviceTable[l][g]
<1> SUFFICES ASSUME NEW l \in Layer, NEW g \in Reached
             PROVE  deviceTable'[l][g] = deviceTable[l][g]
  OBVIOUS
<1>1. g \in Page /\ g \notin Have .. Need(n) - 1
  BY ReachedPages DEF Reached
<1> QED
  BY <1>1 DEF MapPages

THEOREM ReservedPagesNeverMove == Spec => ReservedPagesFixed
<1> DEFINE Fixed == \A l \in Layer : \A g \in Reached :
                      deviceTable'[l][g] = deviceTable[l][g]
<1>1. IInv /\ [Next]_vars => [Fixed]_vars
  <2> SUFFICES ASSUME TablesOK, Next PROVE Fixed
    BY DEF IInv
  <2>1. ASSUME NEW n, ReserveLength(n) PROVE Fixed
    BY <2>1, MapKeepsReserved DEF ReserveLength
  <2>2. ASSUME NEW n, PoolExhausted(n) PROVE Fixed
    BY <2>2, MapKeepsReserved DEF PoolExhausted
  <2>3. ASSUME NEW n, CopyFails(n) PROVE Fixed
    BY <2>3, MapKeepsReserved DEF CopyFails
  <2>4. ASSUME NEW layer, NEW start, NEW vals, WriteKv(layer, start, vals)
        PROVE  Fixed
    BY <2>4 DEF WriteKv
  <2> QED
    BY <2>1, <2>2, <2>3, <2>4 DEF Next
<1> QED
  BY <1>1, IInvAlways, PTL DEF Spec, ReservedPagesFixed

-----------------------------------------------------------------------------
(***************************************************************************)
(* A slot of the pool that no reserved position lies in is still as        *)
(* cudaMemset left it.  This is what makes a position read as zero from    *)
(* the call that reserves it, and it is no part of IInv.                   *)
(***************************************************************************)
Reserved == 0 .. length - 1

LiesIn(l, p, g, s) == PhysicalPage(l, p) = g /\ SlotOf(p) = s

Blank ==
  \A g \in PoolPage : \A s \in Slot :
    pool[g][s] # Zero => \E l \in Layer : \E p \in Reserved : LiesIn(l, p, g, s)

StoreInv == IInv /\ Blank

(* The window in pages.                                                    *)
LEMMA ReservedPositions ==
  ASSUME TablesOK, NEW p \in Reserved
  PROVE  /\ p \in Position /\ p \in Nat /\ p < length /\ length \in Nat
         /\ SlotOf(p) \in Slot
         /\ p = (p \div PageSize) * PageSize + SlotOf(p)
         /\ p \div PageSize \in Page
         /\ p \div PageSize \in Reached
<1>1. /\ p \in Nat /\ p < length /\ length \in 0 .. MaxSeq /\ MaxSeq \in Nat
      /\ PageSize \in Nat \ {0}
  BY KvAssumption, Sizes DEF TablesOK, Reserved
<1>2. /\ p \div PageSize \in Nat /\ p \div PageSize < CeilDiv(length, PageSize)
      /\ p % PageSize \in 0 .. PageSize - 1
      /\ p = (p \div PageSize) * PageSize + (p % PageSize)
  BY <1>1, PositionHasPage
<1>3. Reached = 0 .. Have - 1 /\ Have \in Nat
  BY ReachedPages
<1>4. p \div PageSize \in Reached
  BY <1>2, <1>3 DEF Have
<1> QED
  BY <1>1, <1>2, <1>4 DEF Reached, Position, SlotOf, Slot

(* A reserved position has a page of the pool to itself in either layout.  *)
LEMMA ReservedHasPage ==
  ASSUME TablesOK, DeviceCurrent, NEW l \in Layer, NEW p \in Reserved
  PROVE  PhysicalPage(l, p) \in PoolPage
<1>1. p \div PageSize \in Page /\ p \div PageSize \in Reached
  BY ReservedPositions
<1>2. CASE Paged
  BY <1>1, <1>2 DEF TablesOK, DeviceCurrent, PhysicalPage
<1>3. CASE ~ Paged
  <2>1. PageSize = MaxSeq /\ MaxSeq \in Nat \ {0} /\ NumLayers \in Nat \ {0}
    BY <1>3, KvAssumption DEF PageSize
  <2>2. MaxPages \in Nat \ {0} /\ PoolPages = MaxPages * NumLayers
    BY Sizes
  <2>3. NumLayers <= MaxPages * NumLayers
    BY <2>1, <2>2
  <2> QED
    BY <1>3, <2>1, <2>2, <2>3 DEF PhysicalPage, Layer, PoolPage
<1> QED
  BY <1>2, <1>3

(* No two reserved positions share a slot.                                 *)
LEMMA OneSlotEach ==
  ASSUME TablesOK, NoSharing, DeviceCurrent,
         NEW l \in Layer, NEW m \in Layer, NEW p \in Reserved, NEW q \in Reserved,
         PhysicalPage(l, p) = PhysicalPage(m, q), SlotOf(p) = SlotOf(q)
  PROVE  l = m /\ p = q
<1>1. /\ p = (p \div PageSize) * PageSize + SlotOf(p)
      /\ q = (q \div PageSize) * PageSize + SlotOf(q)
      /\ p \div PageSize \in Page /\ q \div PageSize \in Page
      /\ p \div PageSize \in Reached /\ q \div PageSize \in Reached
      /\ p \in Nat /\ q \in Nat
  BY ReservedPositions
<1>2. CASE Paged
  <2>1. /\ deviceTable[l][p \div PageSize] = hostTable[l][p \div PageSize]
        /\ deviceTable[m][q \div PageSize] = hostTable[m][q \div PageSize]
        /\ deviceTable[l][p \div PageSize] # Unmapped
    BY <1>1, <1>2 DEF DeviceCurrent
  <2>2. hostTable[l][p \div PageSize] = hostTable[m][q \div PageSize]
    BY <1>2, <2>1 DEF PhysicalPage
  <2>3. l = m /\ p \div PageSize = q \div PageSize
    BY <1>1, <2>1, <2>2 DEF NoSharing
  <2> QED
    BY <1>1, <2>3
<1>3. CASE ~ Paged
  <2>1. l = m
    BY <1>3 DEF PhysicalPage
  <2>2. PageSize = MaxSeq /\ MaxSeq \in Nat \ {0} /\ p < MaxSeq /\ q < MaxSeq
    BY <1>3, KvAssumption DEF PageSize, Reserved, TablesOK
  <2>3. p % MaxSeq = p /\ q % MaxSeq = q
    BY <1>1, <2>2
  <2> QED
    BY <2>1, <2>2, <2>3 DEF SlotOf
<1> QED
  BY <1>2, <1>3

-----------------------------------------------------------------------------
(* Both, as a state predicate.                                             *)
Addressed ==
  /\ \A l \in Layer : \A p \in Reserved :
       PhysicalPage(l, p) \in PoolPage /\ SlotOf(p) \in Slot
  /\ \A l, m \in Layer : \A p, q \in Reserved :
       PhysicalPage(l, p) = PhysicalPage(m, q) /\ SlotOf(p) = SlotOf(q)
         => l = m /\ p = q

LEMMA IInvAddressed == IInv => Addressed
BY ReservedHasPage, ReservedPositions, OneSlotEach DEF IInv, Addressed

-----------------------------------------------------------------------------
(* What a call that hands out pages leaves of the address of a reserved    *)
(* position: all of it.                                                    *)
AddressKept ==
  \A l \in Layer : \A p \in Reserved : PhysicalPage(l, p)' = PhysicalPage(l, p)

LEMMA CallsKeepAddresses ==
  ASSUME TablesOK, NEW n,
         ReserveLength(n) \/ PoolExhausted(n) \/ CopyFails(n)
  PROVE  AddressKept /\ UNCHANGED pool
<1>1. UNCHANGED pool
  BY DEF ReserveLength, PoolExhausted, CopyFails
<1>2. ASSUME NEW count, NEW copied, MapPages(Have, Need(n), count, copied)
      PROVE  AddressKept
  <2>1. \A l \in Layer : \A g \in Reached : deviceTable'[l][g] = deviceTable[l][g]
    BY <1>2, MapKeepsReserved
  <2>2. \A p \in Reserved : p \div PageSize \in Reached
    BY ReservedPositions
  <2> QED
    BY <2>1, <2>2 DEF AddressKept, PhysicalPage
<1>3. CASE ReserveLength(n)
  <2>1. CASE Paged
    BY <1>2, <1>3, <2>1 DEF ReserveLength
  <2>2. CASE ~ Paged
    BY <1>1, <2>2 DEF AddressKept, PhysicalPage
  <2> QED
    BY <1>1, <2>1, <2>2
<1>4. CASE PoolExhausted(n)
  BY <1>2, <1>4 DEF PoolExhausted
<1>5. CASE CopyFails(n)
  BY <1>2, <1>5 DEF CopyFails
<1> QED
  BY <1>1, <1>3, <1>4, <1>5

(* ... and so all of what it reads.                                        *)
LEMMA CallsKeepReads ==
  ASSUME TablesOK, NEW n,
         ReserveLength(n) \/ PoolExhausted(n) \/ CopyFails(n),
         NEW l \in Layer, NEW p \in Reserved
  PROVE  ReadKv(l, p)' = ReadKv(l, p)
<1>1. AddressKept /\ UNCHANGED pool
  BY CallsKeepAddresses
<1> QED
  BY <1>1 DEF AddressKept, ReadKv, SlotOf

(* Blank survives whatever keeps the pool and the reserved addresses.      *)
LEMMA BlankKept ==
  ASSUME TablesOK, Blank, AddressKept, UNCHANGED pool, length' \in Nat, length <= length'
  PROVE  Blank'
<1> SUFFICES ASSUME NEW g \in PoolPage, NEW s \in Slot, pool'[g][s] # Zero
             PROVE  \E l \in Layer : \E p \in Reserved' : LiesIn(l, p, g, s)'
  BY DEF Blank
<1>1. PICK l \in Layer : \E p \in Reserved : LiesIn(l, p, g, s)
  BY DEF Blank
<1>2. PICK p \in Reserved : LiesIn(l, p, g, s)
  BY <1>1
<1>3. p \in Reserved'
  <2> DEFINE m == length'
  <2>1. p \in 0 .. length - 1 /\ length \in Nat /\ m \in Nat /\ length <= m
    BY KvAssumption DEF Reserved, TablesOK
  <2>2. Reserved' = 0 .. m - 1
    BY DEF Reserved
  <2> HIDE DEF m
  <2> QED
    BY <2>1, <2>2
<1>4. LiesIn(l, p, g, s)'
  BY <1>2 DEF LiesIn, AddressKept, SlotOf
<1> QED
  BY <1>3, <1>4

-----------------------------------------------------------------------------
(* A write through the view changes the slots of its positions only, each  *)
(* to the value given for the position, whose slot is no other's.          *)
LEMMA WriteChanges ==
  ASSUME IInv, NEW layer \in Layer, NEW start \in Nat, NEW n \in Nat,
         NEW vals, Len(vals) = n, start + n <= length,
         WriteKv(layer, start, vals),
         NEW l \in Layer, NEW p \in Reserved
  PROVE  /\ PhysicalPage(l, p)' = PhysicalPage(l, p)
         /\ pool'[PhysicalPage(l, p)][SlotOf(p)] =
              IF l = layer /\ p \in start .. start + n - 1
                THEN vals[p - start + 1] ELSE pool[PhysicalPage(l, p)][SlotOf(p)]
<1> DEFINE g == PhysicalPage(l, p)
           s == SlotOf(p)
           hits == {q \in start .. start + n - 1 :
                      PhysicalPage(layer, q) = g /\ SlotOf(q) = s}
<1>1. /\ n \in Nat /\ start \in Nat /\ length \in Nat
      /\ Len(vals) = n
  BY KvAssumption DEF Position, IInv, TablesOK
<1>2. start .. start + n - 1 \subseteq Reserved
  BY <1>1 DEF Reserved
<1>3. g \in PoolPage /\ s \in Slot
  BY ReservedHasPage, ReservedPositions DEF IInv
<1>4. hits = IF l = layer /\ p \in start .. start + n - 1 THEN {p} ELSE {}
  <2>1. \A q \in hits : l = layer /\ p = q
    BY <1>2, OneSlotEach DEF IInv
  <2>2. l = layer /\ p \in start .. start + n - 1 => p \in hits
    OBVIOUS
  <2> QED
    BY <2>1, <2>2
<1>5. pool'[g][s] = IF hits = {} THEN pool[g][s]
                    ELSE vals[(CHOOSE q \in hits : TRUE) - start + 1]
  BY <1>1, <1>3 DEF WriteKv
<1>6. PhysicalPage(l, p)' = PhysicalPage(l, p)
  BY DEF WriteKv, PhysicalPage
<1> HIDE DEF g, s, hits
<1>7. hits = {p} => (CHOOSE q \in hits : TRUE) = p
  OBVIOUS
<1>8. pool'[g][s] = IF l = layer /\ p \in start .. start + n - 1
                      THEN vals[p - start + 1] ELSE pool[g][s]
  BY <1>4, <1>5, <1>7
<1> QED
  BY <1>6, <1>8 DEF g, s

(* So a position it writes reads as its value, and any other as before.    *)
LEMMA WriteReads ==
  ASSUME IInv, NEW layer \in Layer, NEW start \in Nat, NEW n \in Nat,
         NEW vals, Len(vals) = n, start + n <= length,
         WriteKv(layer, start, vals),
         NEW l \in Layer, NEW p \in Reserved
  PROVE  ReadKv(l, p)' = IF l = layer /\ p \in start .. start + n - 1
                           THEN vals[p - start + 1] ELSE ReadKv(l, p)
<1>1. PhysicalPage(l, p) # Unmapped
  BY ReservedHasPage, Sizes DEF IInv, PoolPage, Unmapped
<1>2. /\ PhysicalPage(l, p)' = PhysicalPage(l, p)
      /\ pool'[PhysicalPage(l, p)][SlotOf(p)] =
           IF l = layer /\ p \in start .. start + n - 1
             THEN vals[p - start + 1] ELSE pool[PhysicalPage(l, p)][SlotOf(p)]
  BY WriteChanges
<1> QED
  BY <1>1, <1>2 DEF ReadKv, SlotOf

LEMMA WriteKeepsBlank ==
  ASSUME IInv, Blank,
         NEW layer \in Layer, NEW start \in Position, NEW n \in 1 .. MaxSeq,
         NEW vals \in [1 .. n -> Values], start + n <= length,
         WriteKv(layer, start, vals)
  PROVE  Blank'
<1> SUFFICES ASSUME NEW g \in PoolPage, NEW s \in Slot, pool'[g][s] # Zero
             PROVE  \E l \in Layer : \E p \in Reserved' : LiesIn(l, p, g, s)'
  BY DEF Blank
<1> DEFINE hits == {q \in start .. start + n - 1 :
                      PhysicalPage(layer, q) = g /\ SlotOf(q) = s}
<1>1. /\ n \in Nat /\ start \in Nat /\ length \in Nat
      /\ Len(vals) = n /\ length' = length
  BY KvAssumption DEF Position, IInv, TablesOK, WriteKv
<1>2. pool'[g][s] = IF hits = {} THEN pool[g][s]
                    ELSE vals[(CHOOSE q \in hits : TRUE) - start + 1]
  BY <1>1 DEF WriteKv
<1>3. PICK l \in Layer : \E p \in Reserved : LiesIn(l, p, g, s)
  <2>1. CASE hits = {}
    BY <1>2, <2>1 DEF Blank
  <2>2. CASE hits # {}
    <3>1. PICK q \in hits : TRUE
      BY <2>2
    <3>2. q \in Reserved
      BY <1>1 DEF Reserved
    <3> QED
      BY <3>1, <3>2 DEF LiesIn
  <2> QED
    BY <2>1, <2>2
<1>4. PICK p \in Reserved : LiesIn(l, p, g, s)
  BY <1>3
<1> QED
  BY <1>1, <1>4 DEF LiesIn, PhysicalPage, SlotOf, WriteKv, Reserved

-----------------------------------------------------------------------------
(* The abstract store, as KvCache maps it.                                 *)
Stored == [l \in Layer |-> [p \in Position |-> IF p \in Reserved THEN ReadKv(l, p) ELSE Zero]]

LEMMA StoredReads ==
  ASSUME TablesOK, DeviceCurrent, NEW l \in Layer, NEW p \in Reserved
  PROVE  ReadKv(l, p) = pool[PhysicalPage(l, p)][SlotOf(p)]
<1>1. PhysicalPage(l, p) \in Nat
  BY ReservedHasPage, Sizes DEF PoolPage
<1> QED
  BY <1>1 DEF ReadKv, Unmapped

(* A call that returns makes positions available that read as zero.        *)
LEMMA ReserveRefines ==
  ASSUME StoreInv, IInv', NEW n \in 1 .. MaxSeq, ReserveLength(n)
  PROVE  n > length /\ length' = n /\ Stored' = Stored
<1> USE DEF SlotOf
<1>1. TablesOK /\ Blank
  BY DEF StoreInv, IInv
<1>2. AddressKept /\ UNCHANGED pool
  BY <1>1, CallsKeepAddresses
<1>3. n > length /\ length' = n /\ length \in Nat /\ n \in Nat
  BY <1>1, KvAssumption DEF ReserveLength, TablesOK
<1>4. Reserved = 0 .. length - 1 /\ Reserved' = 0 .. n - 1
  BY <1>3 DEF Reserved
<1>5. Addressed'
  BY IInvAddressed, PTL
<1>6. ASSUME NEW l \in Layer, NEW p \in Reserved
      PROVE  p \in Reserved' /\ ReadKv(l, p)' = ReadKv(l, p)
  BY <1>1, <1>3, <1>4, CallsKeepReads
<1>7. ASSUME NEW l \in Layer, NEW p \in Reserved', p \notin Reserved
      PROVE  ReadKv(l, p)' = Zero
  <2> DEFINE g == PhysicalPage(l, p)'
             s == SlotOf(p)
  <2>1. g \in PoolPage /\ s \in Slot
    BY <1>5 DEF Addressed
  <2>2. ASSUME NEW m \in Layer, NEW q \in Reserved, LiesIn(m, q, g, s)
        PROVE  FALSE
    <3>1. PhysicalPage(m, q)' = g /\ SlotOf(q) = s
      BY <1>2, <2>2 DEF LiesIn, AddressKept
    <3>2. q \in Reserved'
      BY <1>6
    <3>3. q = p
      BY <1>5, <3>1, <3>2 DEF Addressed
    <3> QED
      BY <1>7, <3>3
  <2>3. pool[g][s] = Zero
    BY <1>1, <2>1, <2>2 DEF Blank
  <2>4. g # Unmapped
    BY <2>1, Sizes DEF PoolPage, Unmapped
  <2> QED
    BY <1>2, <2>3, <2>4 DEF ReadKv
<1>8. Stored' = Stored
  BY <1>6, <1>7 DEF Stored
<1> QED
  BY <1>3, <1>8

(* A call that throws changes nothing a reserved position reads.           *)
LEMMA ThrowRefines ==
  ASSUME IInv, NEW n \in 1 .. MaxSeq, PoolExhausted(n) \/ CopyFails(n)
  PROVE  length' = length /\ Stored' = Stored
<1>1. length' = length
  BY DEF PoolExhausted, CopyFails
<1>2. Reserved' = Reserved
  BY <1>1 DEF Reserved
<1>3. ASSUME NEW l \in Layer, NEW p \in Reserved
      PROVE  ReadKv(l, p)' = ReadKv(l, p)
  BY CallsKeepReads DEF IInv
<1> QED
  BY <1>1, <1>2, <1>3 DEF Stored

(* A kernel's write is the abstract one.                                   *)
LEMMA WriteRefines ==
  ASSUME IInv, IInv', NEW layer \in Layer, NEW start \in Position, NEW n \in 1 .. MaxSeq,
         NEW vals \in [1 .. n -> Values], start + n <= length,
         WriteKv(layer, start, vals)
  PROVE  /\ start + Len(vals) <= length /\ length' = length
         /\ Stored' = [Stored EXCEPT ![layer] = [p \in Position |->
                         IF p \in start .. start + Len(vals) - 1
                           THEN vals[p - start + 1] ELSE @[p]]]
<1>1. /\ n \in Nat /\ start \in Nat /\ length \in Nat /\ length' = length
      /\ Len(vals) = n
  BY KvAssumption DEF Position, IInv, TablesOK, WriteKv
<1>2. Reserved' = Reserved /\ start .. start + n - 1 \subseteq Reserved
  BY <1>1 DEF Reserved
<1>4. ASSUME NEW l \in Layer, NEW p \in Reserved
      PROVE  ReadKv(l, p)' = IF l = layer /\ p \in start .. start + n - 1
                               THEN vals[p - start + 1] ELSE ReadKv(l, p)
  BY <1>1, WriteReads
<1>5. ASSUME NEW l \in Layer, NEW p \in Position
      PROVE  Stored'[l][p] = IF l = layer /\ p \in start .. start + n - 1
                               THEN vals[p - start + 1] ELSE Stored[l][p]
  BY <1>2, <1>4 DEF Stored
<1>6. Stored' = [l \in Layer |-> [p \in Position |-> Stored'[l][p]]]
  BY DEF Stored
<1>7. /\ Stored = [l \in Layer |-> [p \in Position |-> Stored[l][p]]]
      /\ DOMAIN Stored = Layer
  BY DEF Stored
<1> HIDE DEF Stored
<1>8. Stored' = [Stored EXCEPT ![layer] = [p \in Position |->
                   IF p \in start .. start + n - 1
                     THEN vals[p - start + 1] ELSE @[p]]]
  BY <1>5, <1>6, <1>7
<1> QED
  BY <1>1, <1>8

-----------------------------------------------------------------------------
LEMMA InitStoreInv == Init => StoreInv
<1> SUFFICES ASSUME Init PROVE StoreInv
  OBVIOUS
<1>1. Blank
  BY DEF Init, Blank
<1> QED
  BY <1>1, InitIInv DEF StoreInv

LEMMA NextStoreInv == StoreInv /\ [Next]_vars => StoreInv'
<1> SUFFICES ASSUME StoreInv, [Next]_vars PROVE StoreInv'
  OBVIOUS
<1>1. IInv /\ Blank /\ TablesOK /\ IInv'
  BY NextIInv DEF StoreInv, IInv
<1>2. length \in Nat /\ MaxSeq \in Nat
  BY <1>1, KvAssumption DEF TablesOK
<1>3. ASSUME NEW n \in 1 .. MaxSeq + 1,
             ReserveLength(n) \/ PoolExhausted(n) \/ CopyFails(n)
      PROVE  Blank'
  <2>1. AddressKept /\ UNCHANGED pool
    BY <1>1, <1>3, CallsKeepAddresses
  <2>2. length' \in Nat /\ length <= length'
    BY <1>2, <1>3 DEF ReserveLength, PoolExhausted, CopyFails
  <2> QED
    BY <1>1, <2>1, <2>2, BlankKept
<1>4. ASSUME NEW layer \in Layer, NEW start \in Position, NEW n \in 1 .. MaxSeq,
             start + n <= length,
             NEW vals \in [1 .. n -> Values], WriteKv(layer, start, vals)
      PROVE  Blank'
  BY <1>1, <1>4, WriteKeepsBlank
<1>5. ASSUME UNCHANGED vars PROVE Blank'
  <2>1. AddressKept /\ UNCHANGED <<pool, length>>
    BY <1>5 DEF vars, AddressKept, PhysicalPage
  <2> QED
    BY <1>1, <1>2, <2>1, BlankKept
<1>6. ASSUME Next PROVE Blank'
  <2>1. CASE \E n \in 1 .. MaxSeq + 1 : ReserveLength(n)
    BY <1>3, <2>1
  <2>2. CASE \E n \in 1 .. MaxSeq + 1 : PoolExhausted(n)
    BY <1>3, <2>2
  <2>3. CASE \E n \in 1 .. MaxSeq + 1 : CopyFails(n)
    BY <1>3, <2>3
  <2> QED
    BY <1>4, <1>6, <2>1, <2>2, <2>3 DEF Next
<1> QED
  BY <1>1, <1>5, <1>6 DEF StoreInv

(* kv_cache.cuh: a KvCache of either layout is a store of one value per    *)
(* layer and position: kernels read at a position what was last written    *)
(* there, through whatever page the table names, and zero before; and no   *)
(* call, complete or failed half way, changes what a position holds.       *)
THEOREM StoreImplemented == Spec => ImplementsStore
<1>1. Init => Store!Init
  <2> SUFFICES ASSUME Init PROVE Store!Init
    OBVIOUS
  <2> QED
    BY DEF Init, Store!Init, Store!Layer, Store!Position, Layer, Position
<1>2. StoreInv /\ StoreInv' /\ [Next]_vars => [Store!Next]_Store!vars
  <2> SUFFICES ASSUME StoreInv, IInv, IInv', [Next]_vars
               PROVE  Store!Next \/ UNCHANGED Store!vars
    BY DEF StoreInv
  <2> DEFINE abstract == [l \in Layer |-> [p \in Position |->
                           IF p < length THEN ReadKv(l, p) ELSE Zero]]
  <2>1. abstract = Stored /\ abstract' = Stored'
    <3> DEFINE m == length'
    <3>1. Position = 0 .. MaxSeq - 1 /\ MaxSeq \in Nat
      BY KvAssumption DEF Position
    <3>2. length \in Nat /\ m \in Nat
      BY KvAssumption DEF IInv, TablesOK
    <3>3. Reserved = 0 .. length - 1 /\ Reserved' = 0 .. m - 1
      BY DEF Reserved
    <3> HIDE DEF m
    <3>4. \A p \in Position : (p < length <=> p \in Reserved) /\ (p < m <=> p \in Reserved')
      BY <3>1, <3>2, <3>3
    <3> QED
      BY <3>4 DEF Stored, m
  <2> HIDE DEF abstract
  <2>2. ASSUME NEW n \in 1 .. MaxSeq + 1, ReserveLength(n)
        PROVE  Store!Next
    <3>1. n \in 1 .. MaxSeq
      BY <2>2, KvAssumption DEF ReserveLength, LengthFits
    <3>2. n > length /\ length' = n /\ Stored' = Stored
      BY <2>2, <3>1, ReserveRefines
    <3> QED
      BY <2>1, <3>1, <3>2 DEF Store!Next, Store!Reserve, abstract
  <2>3. ASSUME NEW n \in 1 .. MaxSeq + 1, PoolExhausted(n) \/ CopyFails(n)
        PROVE  UNCHANGED Store!vars
    <3>1. n \in 1 .. MaxSeq
      BY <2>3, KvAssumption DEF PoolExhausted, CopyFails, LengthFits
    <3>2. length' = length /\ Stored' = Stored
      BY <2>3, <3>1, ThrowRefines DEF IInv
    <3> QED
      BY <2>1, <3>2 DEF Store!vars, abstract
  <2>4. ASSUME NEW layer \in Layer, NEW start \in Position, NEW n \in 1 .. MaxSeq,
               start + n <= length,
               NEW vals \in [1 .. n -> Values], WriteKv(layer, start, vals)
        PROVE  Store!Next
    <3>1. /\ start + Len(vals) <= length /\ length' = length
          /\ Stored' = [Stored EXCEPT ![layer] = [p \in Position |->
                          IF p \in start .. start + Len(vals) - 1
                            THEN vals[p - start + 1] ELSE @[p]]]
      BY <2>4, WriteRefines
    <3>2. Store!Write(layer, start, vals)
      BY <2>1, <3>1 DEF Store!Write, Store!Position, Position, abstract
    <3> QED
      BY <3>2 DEF Store!Next, Store!Layer, Store!Position, Layer, Position
  <2>5. CASE UNCHANGED vars
    BY <2>5 DEF vars, Store!vars, ReadKv, PhysicalPage
  <2> QED
    BY <2>2, <2>3, <2>4, <2>5 DEF Next
<1> QED
  BY <1>1, <1>2, InitStoreInv, NextStoreInv, PTL DEF Spec, ImplementsStore, Store!Spec

=============================================================================
