---------------------------- MODULE SamplerProofs -----------------------------
(***************************************************************************)
(* Greedy decoding returns the first of the largest logits for every       *)
(* vocabulary, grid, row and schedule, whatever the memory its kernels     *)
(* work in held before.  The compaction of nucleus sampling keeps as many  *)
(* different candidates as its buffer holds, whatever the order of the     *)
(* atomic increments; the bitonic network sorts them, for a buffer of any  *)
(* power of two; and the walk over the sorted buffer then picks what a     *)
(* walk over the sorted vocabulary would, when the nucleus' bins fit.      *)
(***************************************************************************)
EXTENDS Sampler, FiniteSetTheorems, TLAPS

-----------------------------------------------------------------------------
(* A set of natural numbers has a least member.                            *)
LEMMA LeastNat ==
  ASSUME NEW S \in SUBSET Nat, S # {}
  PROVE  \E x \in S : \A y \in S : x <= y
<1>1. PICK x \in S : \A y \in S : ~ (<<y, x>> \in OpToRel(<, Nat))
  BY NatLessThanWellFounded, WFMin
<1>2. \A y \in S : ~ (y < x)
  BY <1>1 DEF OpToRel
<1> QED
  BY <1>2

(* A bounded one has a greatest.                                           *)
LEMMA GreatestNat ==
  ASSUME NEW S \in SUBSET Nat, S # {}, NEW n \in Nat, \A y \in S : y <= n
  PROVE  \E x \in S : \A y \in S : y <= x
<1> DEFINE D == {n - y : y \in S}
<1>1. D \in SUBSET Nat
  OBVIOUS
<1>2. D # {}
  <2>1. PICK y \in S : TRUE
    OBVIOUS
  <2>2. n - y \in D
    OBVIOUS
  <2> QED
    BY <2>2
<1>3. PICK d \in D : \A e \in D : d <= e
  BY <1>1, <1>2, LeastNat
<1>4. PICK x \in S : d = n - x
  BY <1>3
<1>5. \A y \in S : n - x <= n - y
  BY <1>3, <1>4
<1> QED
  BY <1>5

(* Induction: a set closed under successor is everything.                  *)
LEMMA Induct ==
  ASSUME NEW S \in SUBSET Nat, 0 \in S, \A n \in S : n + 1 \in S
  PROVE  S = Nat
<1> SUFFICES ASSUME Nat \ S # {} PROVE FALSE
  OBVIOUS
<1>1. PICK x \in Nat \ S : \A y \in Nat \ S : x <= y
  BY LeastNat
<1>2. x - 1 \in Nat /\ x - 1 \notin Nat \ S
  BY <1>1
<1> QED
  BY <1>1, <1>2

(* The functions on 0 .. k that start at x and step by F.                  *)
Runs(x, F, S, k) ==
  {g \in [0 .. k -> S] : g[0] = x /\ \A i \in 0 .. k - 1 : g[i + 1] = F[<<i, g[i]>>]}

LEMMA RunExists ==
  ASSUME NEW S, NEW x \in S, NEW F \in [Nat \X S -> S], NEW k \in Nat
  PROVE  Runs(x, F, S, k) # {}
<1> DEFINE D == {n \in Nat : Runs(x, F, S, n) # {}}
<1>1. 0 \in D
  <2>1. [i \in 0 .. 0 |-> x] \in Runs(x, F, S, 0)
    BY DEF Runs
  <2> QED
    BY <2>1
<1>2. ASSUME NEW n \in D PROVE n + 1 \in D
  <2>1. PICK g \in [0 .. n -> S] : g[0] = x /\ \A i \in 0 .. n - 1 : g[i + 1] = F[<<i, g[i]>>]
    BY DEF Runs
  <2> DEFINE h == [i \in 0 .. n + 1 |-> IF i = n + 1 THEN F[<<n, g[n]>>] ELSE g[i]]
  <2>2. h \in [0 .. n + 1 -> S]
    BY <2>1
  <2>3. h[0] = x
    BY <2>1
  <2>4. \A i \in 0 .. (n + 1) - 1 : h[i + 1] = F[<<i, h[i]>>]
    <3> TAKE i \in 0 .. (n + 1) - 1
    <3>1. CASE i = n
      <4>1. i + 1 = n + 1 /\ n + 1 \in 0 .. n + 1 /\ n \in 0 .. n + 1 /\ n # n + 1
        BY <3>1
      <4>2. h[n + 1] = F[<<n, g[n]>>] /\ h[n] = g[n]
        BY <4>1
      <4> QED
        BY <3>1, <4>2
    <3>2. CASE i # n
      <4>1. i \in 0 .. n - 1 /\ i + 1 \in 0 .. n + 1 /\ i + 1 # n + 1 /\ i # n + 1 /\ i \in 0 .. n + 1
        BY <3>2
      <4> QED
        BY <2>1, <4>1
    <3> QED
      BY <3>1, <3>2
  <2>5. n + 1 \in Nat
    OBVIOUS
  <2>6. h \in Runs(x, F, S, n + 1)
    BY <2>2, <2>3, <2>4 DEF Runs
  <2> QED
    BY <2>5, <2>6
<1>3. D = Nat
  <2> HIDE DEF D
  <2>1. D \in SUBSET Nat
    BY DEF D
  <2> QED
    BY <1>1, <1>2, <2>1, Induct
<1> QED
  BY <1>3

(* Those on Nat.                                                           *)
Orbits(x, F, S) ==
  {f \in [Nat -> S] : f[0] = x /\ \A n \in Nat : f[n + 1] = F[<<n, f[n]>>]}

LEMMA RunsAgree ==
  ASSUME NEW S, NEW x \in S, NEW F \in [Nat \X S -> S], NEW k \in Nat, NEW l \in Nat,
         NEW g \in Runs(x, F, S, k), NEW h \in Runs(x, F, S, l), NEW n \in Nat, n <= k, n <= l
  PROVE  g[n] = h[n]
<1> DEFINE D == {i \in Nat : i <= k /\ i <= l => g[i] = h[i]}
<1>1. 0 \in D
  BY DEF Runs
<1>2. ASSUME NEW i \in D PROVE i + 1 \in D
  <2>1. i + 1 \in Nat
    OBVIOUS
  <2>2. ASSUME i + 1 <= k, i + 1 <= l PROVE g[i + 1] = h[i + 1]
    <3>1. i \in 0 .. k - 1 /\ i \in 0 .. l - 1 /\ g[i] = h[i]
      BY <2>2
    <3> QED
      BY <3>1 DEF Runs
  <2> QED
    BY <2>1, <2>2
<1>3. D = Nat
  <2> HIDE DEF D
  <2>1. D \in SUBSET Nat
    BY DEF D
  <2> QED
    BY <1>1, <1>2, <2>1, Induct
<1> QED
  BY <1>3

(* A first value and a step function define a function on Nat: with this   *)
(* the recursive functions of the specifications are shown to exist.       *)
LEMMA Recursion ==
  ASSUME NEW S, NEW x \in S, NEW F \in [Nat \X S -> S]
  PROVE  Orbits(x, F, S) # {}
<1> DEFINE R(k) == CHOOSE g \in Runs(x, F, S, k) : TRUE
           f == [n \in Nat |-> R(n)[n]]
<1>1. \A k \in Nat : R(k) \in Runs(x, F, S, k)
  BY RunExists
<1> HIDE DEF R
<1>2. f \in [Nat -> S]
  BY <1>1 DEF Runs
<1>3. f[0] = x
  BY <1>1 DEF Runs
<1>4. ASSUME NEW n \in Nat PROVE f[n + 1] = F[<<n, f[n]>>]
  <2>1. n + 1 \in Nat /\ n <= n + 1 /\ n <= n /\ n \in 0 .. (n + 1) - 1
    OBVIOUS
  <2>2. R(n)[n] = R(n + 1)[n]
    BY <1>1, <2>1, RunsAgree
  <2>3. R(n + 1)[n + 1] = F[<<n, R(n + 1)[n]>>]
    BY <1>1, <2>1 DEF Runs
  <2> QED
    BY <2>1, <2>2, <2>3
<1>5. f \in Orbits(x, F, S)
  BY <1>2, <1>3, <1>4 DEF Orbits
<1> QED
  BY <1>5

(* Powers of two, of which the length of the buffer is one.                *)
LEMMA Pow2Defined ==
  /\ Pow2[0] = 1
  /\ \A n \in Nat : Pow2[n] \in Nat \ {0} /\ Pow2[n + 1] = 2 * Pow2[n]
<1> DEFINE S == Nat \ {0}
           F == [z \in Nat \X S |-> 2 * z[2]]
           body(f) == [n \in Nat |-> IF n = 0 THEN 1 ELSE 2 * f[n - 1]]
<1>1. PICK f \in [Nat -> S] : f[0] = 1 /\ \A n \in Nat : f[n + 1] = F[<<n, f[n]>>]
  <2>1. F \in [Nat \X S -> S] /\ 1 \in S
    OBVIOUS
  <2> HIDE DEF F, S
  <2>2. Orbits(1, F, S) # {}
    BY <2>1, Recursion
  <2> QED
    BY <2>2 DEF Orbits
<1>2. \A n \in Nat : f[n + 1] = 2 * f[n]
  BY <1>1
<1>3. f = body(f)
  <2>1. \A n \in Nat : n # 0 => n - 1 \in Nat /\ (n - 1) + 1 = n
    OBVIOUS
  <2>2. \A n \in Nat : f[n] = IF n = 0 THEN 1 ELSE 2 * f[n - 1]
    <3> TAKE n \in Nat
    <3>1. CASE n = 0
      BY <1>1, <3>1
    <3>2. CASE n # 0
      BY <1>2, <2>1, <3>2
    <3> QED
      BY <3>1, <3>2
  <2> QED
    BY <2>2
<1>4. Pow2 = body(Pow2)
  BY <1>3 DEF Pow2
<1> HIDE DEF body
<1>5. \A n \in Nat : Pow2[n] = IF n = 0 THEN 1 ELSE 2 * Pow2[n - 1]
  BY <1>4 DEF body
<1>6. Pow2[0] = 1
  BY <1>5
<1>7. \A n \in Nat : Pow2[n + 1] = 2 * Pow2[n]
  <2> TAKE n \in Nat
  <2>1. n + 1 \in Nat /\ n + 1 # 0 /\ (n + 1) - 1 = n
    OBVIOUS
  <2> QED
    BY <1>5, <2>1
<1>8. \A n \in Nat : Pow2[n] \in Nat \ {0}
  <2> DEFINE D == {n \in Nat : Pow2[n] \in Nat \ {0}}
  <2>1. 0 \in D /\ \A n \in D : n + 1 \in D
    BY <1>6, <1>7
  <2>2. D \in SUBSET Nat
    OBVIOUS
  <2> HIDE DEF D
  <2>3. D = Nat
    BY <2>1, <2>2, Induct
  <2> QED
    BY <2>3 DEF D
<1> QED
  BY <1>6, <1>7, <1>8

LEMMA Pow2Sum ==
  ASSUME NEW a \in Nat, NEW b \in Nat
  PROVE  Pow2[a + b] = Pow2[a] * Pow2[b]
<1> DEFINE D == {n \in Nat : Pow2[a + n] = Pow2[a] * Pow2[n]}
<1>1. 0 \in D
  <2>1. a + 0 = a
    OBVIOUS
  <2> QED
    BY <2>1, Pow2Defined
<1>2. ASSUME NEW n \in D PROVE n + 1 \in D
  <2>1. n + 1 \in Nat /\ a + n \in Nat /\ a + (n + 1) = (a + n) + 1
    OBVIOUS
  <2>2. Pow2[(a + n) + 1] = 2 * Pow2[a + n] /\ Pow2[n + 1] = 2 * Pow2[n]
    BY <2>1, Pow2Defined
  <2>3. Pow2[a] \in Nat /\ Pow2[n] \in Nat /\ Pow2[a + n] = Pow2[a] * Pow2[n]
    BY Pow2Defined
  <2>4. 2 * (Pow2[a] * Pow2[n]) = Pow2[a] * (2 * Pow2[n])
    BY <2>3
  <2> QED
    BY <2>1, <2>2, <2>3, <2>4
<1>3. D = Nat
  <2> HIDE DEF D
  <2>1. D \in SUBSET Nat
    BY DEF D
  <2> QED
    BY <1>1, <1>2, <2>1, Induct
<1> QED
  BY <1>3

LEMMA CapFacts == Cap \in Nat \ {0} /\ Cap = Pow2[LogCap]
BY Pow2Defined, SamplingAssumption DEF Cap

-----------------------------------------------------------------------------
LEMMA MaximumFacts ==
  ASSUME NEW S \in SUBSET Nat, S # {}, NEW n \in Nat, \A y \in S : y <= n
  PROVE  Greedy!Maximum(S) \in S /\ \A y \in S : y <= Greedy!Maximum(S)
BY GreatestNat DEF Greedy!Maximum

LEMMA MaximumOfTwo ==
  ASSUME NEW a \in Nat, NEW b \in Nat
  PROVE  /\ Greedy!Maximum({a, b}) \in {a, b}
         /\ a <= Greedy!Maximum({a, b}) /\ b <= Greedy!Maximum({a, b})
<1>1. \A y \in {a, b} : y <= a + b
  OBVIOUS
<1>2. a + b \in Nat /\ {a, b} \in SUBSET Nat /\ {a, b} # {}
  OBVIOUS
<1> QED
  BY <1>1, <1>2, MaximumFacts

-----------------------------------------------------------------------------
(* Arithmetic of packing a key and an index into one number.               *)
LEMMA PackedOrder ==
  ASSUME NEW v \in Nat \ {0}, NEW a \in Nat, NEW b \in Nat,
         NEW i \in 0 .. v - 1, NEW j \in 0 .. v - 1,
         a * v + (v - 1 - i) <= b * v + (v - 1 - j)
  PROVE  a <= b /\ (a = b => j <= i)
<1>1. ASSUME b + 1 <= a PROVE FALSE
  <2>1. (b + 1) * v <= a * v
    BY <1>1
  <2> QED
    BY <2>1
<1> QED
  BY <1>1

LEMMA UniqueRemainder ==
  ASSUME NEW v \in Nat \ {0}, NEW a \in Nat, NEW r \in 0 .. v - 1
  PROVE  (a * v + r) % v = r
<1> DEFINE n == a * v + r
           q == n \div v
           m == n % v
<1>1. n \in Nat
  OBVIOUS
<1>2. q \in Nat /\ m \in 0 .. v - 1 /\ n = q * v + m
  BY <1>1
<1>3. q * v + m = a * v + r
  BY <1>2
<1> HIDE DEF q, m, n
<1>4. ASSUME q + 1 <= a PROVE FALSE
  <2>1. (q + 1) * v <= a * v
    BY <1>2, <1>4
  <2> QED
    BY <1>2, <1>3, <2>1
<1>5. ASSUME a + 1 <= q PROVE FALSE
  <2>1. (a + 1) * v <= q * v
    BY <1>2, <1>5
  <2> QED
    BY <1>2, <1>3, <2>1
<1>6. q = a
  BY <1>2, <1>4, <1>5
<1> QED
  BY <1>2, <1>3, <1>6 DEF m, n

(* Every remainder names a block and a thread of it.                       *)
LEMMA MixedRadix ==
  ASSUME NEW g \in Nat \ {0}, NEW w \in Nat \ {0}, NEW r \in 0 .. g * w - 1
  PROVE  \E b \in 0 .. g - 1, u \in 0 .. w - 1 : r = b * w + u
<1> DEFINE q == r \div w
           m == r % w
<1>1. q \in Nat /\ m \in 0 .. w - 1 /\ r = q * w + m
  OBVIOUS
<1> HIDE DEF q, m
<1>2. ASSUME g <= q PROVE FALSE
  <2>1. g * w <= q * w
    BY <1>1, <1>2
  <2> QED
    BY <1>1, <2>1
<1> QED
  BY <1>1, <1>2

-----------------------------------------------------------------------------
(***************************************************************************)
(* The inductive invariant of a greedy call.  A thread's part of the row   *)
(* is below its local maximum once it has scanned, that is below the       *)
(* block's once the thread has combined, and that is below the best once   *)
(* the block has published.  Each of these memories holds a value of the   *)
(* row or zero, but only from the moment somebody has cleared it: this is  *)
(* what the barriers, stated in `Barriers', are for.                       *)
(***************************************************************************)
GThread == Greedy!Thread
First(t) == <<t[1], 0>>

Values == {0} \cup {Greedy!Packed(i) : i \in Token}

Labels == {"scan", "clear", "combine", "publish", "done"}
Before == {"scan", "clear"}
Behind == {"publish", "done"}

GTypes ==
  /\ depth \in [Token -> Depths]
  /\ pc \in [GThread -> Labels]
  /\ local \in [GThread -> Values]
  /\ DOMAIN shared = Greedy!Block
  /\ stage \in {"launch", "argmax", "returned", "refused"}

Barriers ==
  \A t, u \in GThread : t[1] = u[1] =>
    /\ pc[t] \in Behind => pc[u] \notin Before
    /\ pc[t] = "done" => pc[u] \in Behind

Scanned ==
  \A t \in GThread : pc[t] # "scan" =>
    \A i \in Greedy!Strided(t) : Greedy!Packed(i) <= local[t]

Combined ==
  \A t \in GThread : pc[First(t)] \notin Before =>
    /\ shared[t[1]] \in Values
    /\ pc[t] \in Behind => local[t] <= shared[t[1]]

Published ==
  stage # "launch" =>
    /\ best \in Values
    /\ \A t \in GThread : pc[First(t)] = "done" => local[t] <= best

Unpacked ==
  /\ outId # None => /\ \A t \in GThread : pc[t] = "done"
                     /\ outId = Vocab - 1 - (best % Vocab)
  /\ stage = "launch" => \A t \in GThread : pc[t] = "scan"
  /\ stage = "returned" => result = outId /\ result \in Token

GInv == /\ GTypes /\ Barriers /\ Scanned /\ Combined /\ Published /\ Unpacked

IInv == temperature = "zero" => GInv

-----------------------------------------------------------------------------
LEMMA GridTypes ==
  /\ Vocab \in Nat \ {0} /\ Blocks \in Nat \ {0} /\ BlockThreads \in Nat \ {0}
  /\ Deepest \in Nat /\ \A d \in Depths : d \in Nat /\ d <= Deepest
BY GreedyAssumption, SamplingAssumption DEF Greedy!ArgmaxAssumption

LEMMA ThreadFacts ==
  /\ \A t \in GThread : /\ First(t) \in GThread /\ First(t)[1] = t[1] /\ First(t)[2] = 0
                        /\ t[1] \in Greedy!Block
                        /\ t[2] = 0 => t = First(t)
  /\ GThread # {}
<1>1. BlockThreads \in Nat \ {0} /\ Blocks \in Nat \ {0}
  BY GridTypes
<1>2. <<0, 0>> \in GThread
  BY <1>1 DEF GThread, Greedy!Thread, Greedy!Block
<1> QED
  BY <1>1, <1>2 DEF GThread, Greedy!Thread, Greedy!Block, First

(* The keys of a row, and the values packed from them.                     *)
LEMMA KeyFacts ==
  ASSUME depth \in [Token -> Depths], NEW i \in Token
  PROVE  /\ KeyOf[i] = Deepest + 1 - depth[i]
         /\ KeyOf[i] \in Nat \ {0} /\ depth[i] \in Nat
         /\ Vocab - 1 - i \in 0 .. Vocab - 1
         /\ Greedy!Packed(i) = KeyOf[i] * Vocab + (Vocab - 1 - i)
<1>1. depth[i] \in Nat /\ depth[i] <= Deepest /\ Deepest \in Nat /\ Vocab \in Nat \ {0}
  BY GridTypes
<1>2. KeyOf[i] = Deepest + 1 - depth[i]
  BY DEF KeyOf
<1>3. Vocab - 1 - i \in 0 .. Vocab - 1
  BY <1>1 DEF Token
<1> QED
  BY <1>1, <1>2, <1>3 DEF Greedy!Packed

LEMMA PackedFacts ==
  ASSUME depth \in [Token -> Depths], NEW i \in Token
  PROVE  /\ Greedy!Packed(i) \in Nat
         /\ Greedy!Packed(i) > 0
         /\ Greedy!Packed(i) <= (Deepest + 2) * Vocab
<1> DEFINE k == KeyOf[i]
           r == Vocab - 1 - i
<1>1. /\ k \in Nat \ {0} /\ r \in 0 .. Vocab - 1 /\ k <= Deepest + 1
      /\ Greedy!Packed(i) = k * Vocab + r
      /\ Vocab \in Nat \ {0} /\ Deepest \in Nat
  BY KeyFacts, GridTypes
<1> HIDE DEF k, r
<1>2. k * Vocab \in Nat /\ k * Vocab >= Vocab
  BY <1>1
<1>3. k * Vocab <= (Deepest + 1) * Vocab
  BY <1>1
<1>4. (Deepest + 1) * Vocab + Vocab = (Deepest + 2) * Vocab
  BY <1>1
<1> QED
  BY <1>1, <1>2, <1>3, <1>4

LEMMA ValuesFacts ==
  ASSUME depth \in [Token -> Depths]
  PROVE  Values \in SUBSET Nat /\ 0 \in Values
BY PackedFacts DEF Values

(* What one thread reduces its stride to.                                  *)
LEMMA LocalFacts ==
  ASSUME depth \in [Token -> Depths], NEW t \in GThread
  PROVE  LET m == Greedy!Maximum({0} \cup {Greedy!Packed(i) : i \in Greedy!Strided(t)})
         IN  m \in Values /\ \A i \in Greedy!Strided(t) : Greedy!Packed(i) <= m
<1> DEFINE S == {0} \cup {Greedy!Packed(i) : i \in Greedy!Strided(t)}
           bound == (Deepest + 2) * Vocab
<1>1. Greedy!Strided(t) \subseteq Token
  BY DEF Greedy!Strided, Greedy!Token, Token
<1>2. S \in SUBSET Nat /\ S # {} /\ S \subseteq Values
  BY <1>1, PackedFacts DEF Values
<1>3. bound \in Nat
  BY GridTypes
<1>4. \A y \in S : y <= bound
  BY <1>1, <1>3, PackedFacts
<1> HIDE DEF bound
<1>5. Greedy!Maximum(S) \in S /\ \A y \in S : y <= Greedy!Maximum(S)
  BY <1>2, <1>3, <1>4, MaximumFacts
<1> QED
  BY <1>2, <1>5

(* Every logit is in some thread's stride.                                 *)
LEMMA StridesCover ==
  ASSUME NEW i \in Token
  PROVE  \E t \in GThread : i \in Greedy!Strided(t)
<1> DEFINE r == i % (Blocks * BlockThreads)
<1>1. Blocks \in Nat \ {0} /\ BlockThreads \in Nat \ {0} /\ i \in Nat
  BY GridTypes DEF Token
<1>2. Blocks * BlockThreads \in Nat \ {0}
  BY <1>1
<1>3. r \in 0 .. Blocks * BlockThreads - 1
  BY <1>1, <1>2
<1>4. PICK b \in 0 .. Blocks - 1, u \in 0 .. BlockThreads - 1 : r = b * BlockThreads + u
  BY <1>1, <1>3, MixedRadix
<1>5. <<b, u>> \in GThread
  BY DEF GThread, Greedy!Thread, Greedy!Block
<1>6. i \in Greedy!Strided(<<b, u>>)
  BY <1>4 DEF Greedy!Strided, Greedy!Token, Token
<1> QED
  BY <1>5, <1>6

-----------------------------------------------------------------------------
(* The row does not change, so neither do the values packed from it.       *)
LEMMA RowKept ==
  ASSUME depth' = depth
  PROVE  /\ Values' = Values
         /\ \A i : Greedy!Packed(i)' = Greedy!Packed(i)
<1>1. \A i : Greedy!Packed(i)' = Greedy!Packed(i)
  BY DEF Greedy!Packed, KeyOf
<1> QED
  BY <1>1 DEF Values

Quiet == UNCHANGED <<depth, stage, temperature, result>>

LEMMA QuietRun == RunArgmax => Quiet /\ stage = "argmax" /\ Greedy!Next
BY DEF RunArgmax, Quiet, inputs

LEMMA InitGInv == Init /\ temperature = "zero" => GInv
<1> SUFFICES ASSUME Init, temperature = "zero" PROVE GInv
  OBVIOUS
<1>1. /\ depth \in [Token -> Depths] /\ stage = "launch" /\ outId = None
      /\ pc = [t \in GThread |-> "scan"] /\ local = [t \in GThread |-> 0]
      /\ shared \in [Greedy!Block -> Greedy!Uninitialised]
  BY DEF Init, NucleusInit, Greedy!Init, GThread
<1>2. GTypes
  BY <1>1, ValuesFacts DEF GTypes, Labels
<1>3. \A t \in GThread : pc[t] = "scan"
  BY <1>1
<1>4. Barriers /\ Scanned /\ Published /\ Unpacked
  BY <1>1, <1>3 DEF Barriers, Scanned, Published, Unpacked, Behind
<1>5. Combined
  BY <1>3, ThreadFacts DEF Combined, Before
<1> QED
  BY <1>2, <1>4, <1>5 DEF GInv

(* launch_sample clears the accumulator before the kernel starts.          *)
LEMMA LaunchStep ==
  ASSUME GInv, temperature = "zero", Launch
  PROVE  GInv'
<1>1. /\ stage = "launch" /\ stage' = "argmax" /\ best' = 0
      /\ UNCHANGED <<depth, pc, local, shared, outId, result>>
  BY DEF Launch, inputs, nucleusVars
<1>2. Values' = Values /\ \A i : Greedy!Packed(i)' = Greedy!Packed(i)
  BY <1>1, RowKept
<1>3. \A t \in GThread : pc[t] = "scan"
  BY <1>1 DEF GInv, Unpacked
<1>4. outId = None
  BY <1>3, ThreadFacts DEF GInv, Unpacked
<1>5. GTypes' /\ Barriers'
  BY <1>1, <1>2 DEF GInv, GTypes, Barriers
<1>6. Scanned' /\ Combined'
  BY <1>1, <1>2 DEF GInv, Scanned, Combined
<1>7. Published'
  BY <1>1, <1>2, <1>3, ThreadFacts, ValuesFacts DEF GInv, GTypes, Published
<1>8. Unpacked'
  BY <1>1, <1>4 DEF Unpacked
<1> QED
  BY <1>5, <1>6, <1>7, <1>8 DEF GInv

LEMMA ScanStep ==
  ASSUME GInv, Quiet, stage = "argmax", NEW t \in GThread, Greedy!Scan(t)
  PROVE  GInv'
<1> DEFINE m == Greedy!Maximum({0} \cup {Greedy!Packed(i) : i \in Greedy!Strided(t)})
<1>1. /\ pc[t] = "scan" /\ pc' = [pc EXCEPT ![t] = "clear"]
      /\ local' = [local EXCEPT ![t] = m]
      /\ UNCHANGED <<depth, stage, result, shared, best, outId>>
  BY DEF Greedy!Scan, Greedy!Goto, Quiet
<1>2. Values' = Values /\ \A i : Greedy!Packed(i)' = Greedy!Packed(i)
  BY <1>1, RowKept
<1>3. m \in Values /\ \A i \in Greedy!Strided(t) : Greedy!Packed(i) <= m
  BY LocalFacts DEF GInv, GTypes
<1> HIDE DEF m
<1>4. GTypes'
  BY <1>1, <1>2, <1>3 DEF GInv, GTypes, Labels
<1>5. Barriers'
  BY <1>1 DEF GInv, GTypes, Barriers, Before, Behind
<1>6. Scanned'
  BY <1>1, <1>2, <1>3 DEF GInv, GTypes, Scanned
<1>7. Combined'
  BY <1>1, <1>2, ThreadFacts DEF GInv, GTypes, Combined, Before, Behind
<1>8. Published'
  <2>1. \A u \in GThread : pc'[First(u)] = "done" => pc[First(u)] = "done" /\ u # t
    BY <1>1, ThreadFacts DEF GInv, GTypes, Barriers, Behind
  <2> QED
    BY <1>1, <1>2, <2>1 DEF GInv, GTypes, Published
<1>9. Unpacked'
  BY <1>1 DEF GInv, Unpacked
<1> QED
  BY <1>4, <1>5, <1>6, <1>7, <1>8, <1>9 DEF GInv

(* Thread 0 clears the block's maximum before any thread has combined.     *)
LEMMA ClearStep ==
  ASSUME GInv, Quiet, stage = "argmax", NEW t \in GThread, Greedy!Clear(t)
  PROVE  GInv'
<1>1. /\ pc[t] = "clear" /\ pc' = [pc EXCEPT ![t] = "combine"]
      /\ shared' = IF t[2] = 0 THEN [shared EXCEPT ![t[1]] = 0] ELSE shared
      /\ UNCHANGED <<depth, stage, result, local, best, outId>>
  BY DEF Greedy!Clear, Greedy!Goto, Quiet
<1>2. Values' = Values /\ \A i : Greedy!Packed(i)' = Greedy!Packed(i)
  BY <1>1, RowKept
<1>3. GTypes'
  BY <1>1, <1>2 DEF GInv, GTypes, Labels
<1>4. Barriers'
  BY <1>1 DEF GInv, GTypes, Barriers, Before, Behind
<1>5. Scanned'
  BY <1>1, <1>2 DEF GInv, GTypes, Scanned
<1>6. Combined'
  <2> SUFFICES ASSUME NEW u \in GThread, pc'[First(u)] \notin Before
               PROVE  /\ shared'[u[1]] \in Values
                      /\ pc'[u] \in Behind => local[u] <= shared'[u[1]]
    BY <1>1, <1>2 DEF Combined
  <2>1. CASE t = First(u)
    <3>1. pc'[u] \notin Behind
      BY <1>1, <2>1, ThreadFacts DEF GInv, GTypes, Barriers, Before, Behind
    <3>2. shared'[u[1]] = 0
      BY <1>1, <2>1, ThreadFacts DEF GInv, GTypes
    <3> QED
      BY <3>1, <3>2, ValuesFacts DEF GInv, GTypes
  <2>2. CASE t # First(u)
    <3>1. pc[First(u)] \notin Before /\ (pc'[u] \in Behind => pc[u] \in Behind)
      BY <1>1, <2>2, ThreadFacts DEF GInv, GTypes, Behind
    <3>2. shared'[u[1]] = shared[u[1]]
      <4>1. t[2] = 0 => t[1] # u[1]
        BY <2>2, ThreadFacts DEF First
      <4> QED
        BY <1>1, <4>1, ThreadFacts DEF GInv, GTypes
    <3> QED
      BY <3>1, <3>2 DEF GInv, Combined
  <2> QED
    BY <2>1, <2>2
<1>7. Published'
  BY <1>1, <1>2, ThreadFacts DEF GInv, GTypes, Published
<1>8. Unpacked'
  BY <1>1 DEF GInv, Unpacked
<1> QED
  BY <1>3, <1>4, <1>5, <1>6, <1>7, <1>8 DEF GInv

(* atomicMax in shared memory, behind the first barrier.                   *)
LEMMA CombineStep ==
  ASSUME GInv, Quiet, stage = "argmax", NEW t \in GThread, Greedy!Combine(t)
  PROVE  GInv'
<1> DEFINE m == Greedy!Maximum({shared[t[1]], local[t]})
<1>1. /\ pc[t] = "combine" /\ pc' = [pc EXCEPT ![t] = "publish"]
      /\ shared' = [shared EXCEPT ![t[1]] = m]
      /\ \A u \in GThread : u[1] = t[1] => pc[u] \notin Before
      /\ UNCHANGED <<depth, stage, result, local, best, outId>>
  BY DEF Greedy!Combine, Greedy!Goto, Greedy!PeersPast, Greedy!Uncleared, Before,
         GThread, Greedy!Thread, Greedy!Block, Quiet
<1>2. Values' = Values /\ \A i : Greedy!Packed(i)' = Greedy!Packed(i)
  BY <1>1, RowKept
<1>3. /\ shared[t[1]] \in Values /\ local[t] \in Values /\ Values \in SUBSET Nat
      /\ t[1] \in DOMAIN shared
  BY <1>1, ThreadFacts, ValuesFacts DEF GInv, GTypes, Combined
<1>4. m \in Values /\ m \in Nat /\ shared[t[1]] <= m /\ local[t] <= m
  BY <1>3, MaximumOfTwo
<1> HIDE DEF m
<1>5. GTypes'
  BY <1>1, <1>2 DEF GInv, GTypes, Labels
<1>6. Barriers'
  BY <1>1 DEF GInv, GTypes, Barriers, Before, Behind
<1>7. Scanned'
  BY <1>1, <1>2 DEF GInv, GTypes, Scanned
<1>8. Combined'
  <2> SUFFICES ASSUME NEW u \in GThread, pc'[First(u)] \notin Before
               PROVE  /\ shared'[u[1]] \in Values
                      /\ pc'[u] \in Behind => local[u] <= shared'[u[1]]
    BY <1>1, <1>2 DEF Combined
  <2>1. pc[First(u)] \notin Before
    BY <1>1, ThreadFacts DEF GInv, GTypes, Before
  <2>2. CASE u[1] = t[1]
    <3>1. shared'[u[1]] = m
      BY <1>1, <1>3, <2>2
    <3>2. ASSUME u # t, pc'[u] \in Behind PROVE local[u] <= m
      <4>1. local[u] <= shared[t[1]] /\ local[u] \in Nat
        BY <1>1, <1>3, <2>1, <2>2, <3>2 DEF GInv, GTypes, Combined
      <4>2. shared[t[1]] \in Nat /\ m \in Nat /\ shared[t[1]] <= m
        BY <1>3, <1>4
      <4>3. \A a, b, c \in Nat : a <= b /\ b <= c => a <= c
        OBVIOUS
      <4> QED
        BY <4>1, <4>2, <4>3
    <3> QED
      BY <1>4, <3>1, <3>2
  <2>3. CASE u[1] # t[1]
    <3>1. shared'[u[1]] = shared[u[1]] /\ pc'[u] = pc[u]
      BY <1>1, <2>3, ThreadFacts DEF GInv, GTypes
    <3> QED
      BY <2>1, <3>1 DEF GInv, Combined
  <2> QED
    BY <2>2, <2>3
<1>9. Published'
  BY <1>1, <1>2, ThreadFacts DEF GInv, GTypes, Published
<1>10. Unpacked'
  BY <1>1 DEF GInv, Unpacked
<1> QED
  BY <1>5, <1>6, <1>7, <1>8, <1>9, <1>10 DEF GInv

(* One thread of each block raises the best, behind the second barrier.    *)
LEMMA PublishStep ==
  ASSUME GInv, Quiet, stage = "argmax", NEW t \in GThread, Greedy!Publish(t)
  PROVE  GInv'
<1> DEFINE m == Greedy!Maximum({best, shared[t[1]]})
<1>1. /\ pc[t] = "publish" /\ pc' = [pc EXCEPT ![t] = "done"]
      /\ best' = IF t[2] = 0 THEN m ELSE best
      /\ \A u \in GThread : u[1] = t[1] => pc[u] \notin Before \cup {"combine"}
      /\ UNCHANGED <<depth, stage, result, local, shared, outId>>
  BY DEF Greedy!Publish, Greedy!Goto, Greedy!PeersPast, Greedy!Uncleared, Greedy!Uncombined,
         Before, GThread, Greedy!Thread, Greedy!Block, Quiet
<1>2. Values' = Values /\ \A i : Greedy!Packed(i)' = Greedy!Packed(i)
  BY <1>1, RowKept
<1>3. \A u \in GThread : u[1] = t[1] => pc[u] \in Behind
  BY <1>1 DEF GInv, GTypes, Labels, Before, Behind
<1>4. /\ shared[t[1]] \in Values /\ best \in Values /\ Values \in SUBSET Nat
      /\ \A u \in GThread : u[1] = t[1] => local[u] <= shared[t[1]]
  BY <1>1, <1>3, ThreadFacts, ValuesFacts DEF GInv, GTypes, Combined, Published
<1>5. m \in Values /\ m \in Nat /\ best \in Nat /\ shared[t[1]] \in Nat
      /\ best <= m /\ shared[t[1]] <= m
  BY <1>4, MaximumOfTwo
<1> HIDE DEF m
<1>6. GTypes'
  BY <1>1, <1>2 DEF GInv, GTypes, Labels
<1>7. Barriers'
  BY <1>1, <1>3 DEF GInv, GTypes, Barriers, Before, Behind
<1>8. Scanned'
  BY <1>1, <1>2 DEF GInv, GTypes, Scanned
<1>9. Combined'
  <2>1. \A u \in GThread : /\ pc'[u] \in Behind <=> pc[u] \in Behind
                           /\ pc'[u] \notin Before <=> pc[u] \notin Before
    BY <1>1 DEF GInv, GTypes, Before, Behind
  <2> QED
    BY <1>1, <1>2, <2>1, ThreadFacts DEF GInv, Combined
<1>10. Published'
  <2>1. \A a, b, c \in Nat : a <= b /\ b <= c => a <= c
    OBVIOUS
  <2>2. best' \in Values' /\ best' \in Nat /\ best <= best'
    BY <1>1, <1>2, <1>4, <1>5
  <2>3. ASSUME NEW u \in GThread, pc'[First(u)] = "done" PROVE local[u] <= best'
    <3>1. local[u] \in Nat
      BY <1>4 DEF GInv, GTypes
    <3>2. CASE First(u) = t
      <4>1. best' = m /\ local[u] <= shared[t[1]]
        BY <1>1, <1>4, <3>2, ThreadFacts
      <4> QED
        BY <1>5, <2>1, <3>1, <4>1
    <3>3. CASE First(u) # t
      <4>1. pc[First(u)] = "done"
        BY <1>1, <2>3, <3>3, ThreadFacts DEF GInv, GTypes
      <4>2. local[u] <= best
        BY <1>1, <4>1 DEF GInv, Published, Quiet
      <4> QED
        BY <1>5, <2>1, <2>2, <3>1, <4>2
    <3> QED
      BY <3>2, <3>3
  <2> QED
    BY <1>1, <2>2, <2>3 DEF Published
<1>11. Unpacked'
  BY <1>1 DEF GInv, Unpacked
<1> QED
  BY <1>6, <1>7, <1>8, <1>9, <1>10, <1>11 DEF GInv

(* argmax_unpack_kernel, after the whole grid.                             *)
LEMMA UnpackStep ==
  ASSUME GInv, Quiet, stage = "argmax", Greedy!Unpack
  PROVE  GInv'
<1>1. /\ \A t \in GThread : pc[t] = "done"
      /\ outId' = Vocab - 1 - (best % Vocab)
      /\ UNCHANGED <<depth, stage, result, pc, local, shared, best>>
  BY DEF Greedy!Unpack, GThread, Quiet
<1>2. Values' = Values /\ \A i : Greedy!Packed(i)' = Greedy!Packed(i)
  BY <1>1, RowKept
<1>3. GTypes' /\ Barriers' /\ Scanned' /\ Combined' /\ Published'
  BY <1>1, <1>2 DEF GInv, GTypes, Barriers, Scanned, Combined, Published
<1>4. Unpacked'
  BY <1>1 DEF GInv, Unpacked
<1> QED
  BY <1>3, <1>4 DEF GInv

LEMMA ReturnStep ==
  ASSUME GInv, Return
  PROVE  GInv'
<1>1. /\ stage \in {"argmax", "sample"} /\ stage' \in {"returned", "refused"}
      /\ stage' = "returned" => result' = outId /\ outId \in Token
      /\ UNCHANGED <<depth, pc, local, shared, best, outId>>
  BY DEF Return, inputs, greedyVars
<1>2. Values' = Values /\ \A i : Greedy!Packed(i)' = Greedy!Packed(i)
  BY <1>1, RowKept
<1>3. GTypes' /\ Barriers' /\ Scanned' /\ Combined' /\ Published'
  BY <1>1, <1>2 DEF GInv, GTypes, Barriers, Scanned, Combined, Published
<1>4. Unpacked'
  BY <1>1 DEF GInv, Unpacked
<1> QED
  BY <1>3, <1>4 DEF GInv

LEMMA IdleStep ==
  ASSUME GInv, UNCHANGED vars
  PROVE  GInv'
<1>1. UNCHANGED <<depth, stage, result, pc, local, shared, best, outId>>
  BY DEF vars, inputs, greedyVars
<1>2. Values' = Values /\ \A i : Greedy!Packed(i)' = Greedy!Packed(i)
  BY <1>1, RowKept
<1>3. GTypes' /\ Barriers' /\ Scanned' /\ Combined' /\ Published' /\ Unpacked'
  BY <1>1, <1>2 DEF GInv, GTypes, Barriers, Scanned, Combined, Published, Unpacked
<1> QED
  BY <1>3 DEF GInv

LEMMA NextIInv == IInv /\ [Next]_vars => IInv'
<1> SUFFICES ASSUME IInv, [Next]_vars, temperature' = "zero" PROVE GInv'
  BY DEF IInv
<1>1. temperature = "zero"
  BY DEF Next, Launch, RunArgmax, RunSample, Return, vars
<1>2. GInv
  BY <1>1 DEF IInv
<1>3. CASE Launch
  BY <1>1, <1>2, <1>3, LaunchStep
<1>4. CASE RunArgmax
  <2>1. Quiet /\ stage = "argmax" /\ Greedy!Next
    BY <1>4, QuietRun
  <2> QED
    BY <1>2, <2>1, ScanStep, ClearStep, CombineStep, PublishStep, UnpackStep
       DEF Greedy!Next, GThread
<1>5. CASE RunSample
  BY <1>2, <1>5 DEF RunSample, GInv, GTypes
<1>6. CASE Return
  BY <1>2, <1>6, ReturnStep
<1>7. CASE UNCHANGED vars
  BY <1>2, <1>7, IdleStep
<1> QED
  BY <1>3, <1>4, <1>5, <1>6, <1>7 DEF Next

-----------------------------------------------------------------------------
(* Greedy decoding's result, as soon as it is written.                     *)
LEMMA UnpackedFacts ==
  ASSUME GInv, outId # None
  PROVE  /\ outId \in Token
         /\ \A i \in Token : depth[i] >= depth[outId]
         /\ \A i \in Token : i < outId => depth[i] > depth[outId]
<1>1. depth \in [Token -> Depths] /\ Vocab \in Nat \ {0}
  BY GridTypes DEF GInv, GTypes
<1>2. /\ \A t \in GThread : pc[t] = "done"
      /\ outId = Vocab - 1 - (best % Vocab)
  BY DEF GInv, Unpacked
<1>3. stage # "launch"
  <2>1. PICK t \in GThread : pc[t] = "done"
    BY <1>2, ThreadFacts
  <2> QED
    BY <2>1 DEF GInv, Unpacked
<1>4. best \in Values /\ best \in Nat
  BY <1>1, <1>3, ValuesFacts DEF GInv, Published
<1>5. ASSUME NEW i \in Token PROVE Greedy!Packed(i) <= best
  <2>1. PICK t \in GThread : i \in Greedy!Strided(t)
    BY StridesCover
  <2>2. Greedy!Packed(i) <= local[t]
    BY <1>2, <2>1 DEF GInv, Scanned
  <2>3. local[t] <= best
    BY <1>2, <1>3, ThreadFacts DEF GInv, Published
  <2>4. Greedy!Packed(i) \in Nat /\ local[t] \in Nat
    BY <1>1, PackedFacts, ValuesFacts DEF GInv, GTypes
  <2>5. \A a, b, c \in Nat : a <= b /\ b <= c => a <= c
    OBVIOUS
  <2> QED
    BY <1>4, <2>2, <2>3, <2>4, <2>5
<1>6. PICK j \in Token : best = Greedy!Packed(j)
  <2>1. 0 \in Token
    BY <1>1 DEF Token
  <2>2. Greedy!Packed(0) \in Nat /\ Greedy!Packed(0) > 0 /\ Greedy!Packed(0) <= best
    BY <1>1, <1>5, <2>1, PackedFacts
  <2>3. best # 0
    BY <1>4, <2>2
  <2> QED
    BY <1>4, <2>3 DEF Values
<1>7. outId = j
  <2> DEFINE k == KeyOf[j]
             r == Vocab - 1 - j
  <2>1. k \in Nat /\ r \in 0 .. Vocab - 1 /\ best = k * Vocab + r
    BY <1>1, <1>6, KeyFacts
  <2>2. best % Vocab = r
    <3> HIDE DEF k, r
    <3> QED
      BY <1>1, <2>1, UniqueRemainder
  <2>3. j \in Nat /\ Vocab - 1 - (Vocab - 1 - j) = j
    BY <1>1 DEF Token
  <2> QED
    BY <1>2, <2>2, <2>3
<1>8. ASSUME NEW i \in Token
      PROVE  depth[i] >= depth[outId] /\ (i < outId => depth[i] > depth[outId])
  <2> DEFINE a == KeyOf[i]
             b == KeyOf[outId]
  <2>1. /\ a \in Nat /\ b \in Nat
        /\ a = Deepest + 1 - depth[i] /\ b = Deepest + 1 - depth[outId]
        /\ depth[i] \in Nat /\ depth[outId] \in Nat /\ Deepest \in Nat
        /\ Vocab \in Nat \ {0} /\ i \in 0 .. Vocab - 1 /\ outId \in 0 .. Vocab - 1
    BY <1>1, <1>7, KeyFacts, GridTypes DEF Token
  <2>2. a * Vocab + (Vocab - 1 - i) <= b * Vocab + (Vocab - 1 - outId)
    BY <1>1, <1>5, <1>6, <1>7, KeyFacts
  <2> HIDE DEF a, b
  <2>3. a <= b /\ (a = b => outId <= i)
    BY <2>1, <2>2, PackedOrder
  <2> QED
    BY <2>1, <2>3
<1> QED
  BY <1>7, <1>8

(* sampling.cu:47: greedy decoding returns the first of the largest logits *)
(* for every row, vocabulary and grid and under every schedule, whatever   *)
(* attention left in the scratch and an earlier kernel in shared memory.   *)
THEOREM FirstMaximumPicked == Spec => []GreedyPicksFirstMaximum
<1>1. Init => IInv
  BY InitGInv DEF IInv
<1>2. IInv => GreedyPicksFirstMaximum
  <2> SUFFICES ASSUME GInv, stage = "returned"
               PROVE  /\ \A i \in Token : depth[i] >= depth[result]
                      /\ \A i \in 0 .. result - 1 : depth[i] > depth[result]
    BY DEF IInv, GreedyPicksFirstMaximum
  <2>1. result = outId /\ outId # None /\ outId \in Token
    BY GridTypes DEF GInv, Unpacked, Token, None
  <2>2. \A i \in 0 .. result - 1 : i \in Token /\ i < outId
    BY <2>1, GridTypes DEF Token
  <2> QED
    BY <2>1, <2>2, UnpackedFacts
<1> QED
  BY <1>1, <1>2, NextIInv, PTL DEF Spec

-----------------------------------------------------------------------------
(***************************************************************************)
(* The compaction of candidates in shared memory.  A candidate is taken    *)
(* once its thread holds a slot for it or has gone past it.  The counter   *)
(* is the number of those; a slot below it is either claimed by one thread *)
(* that is about to write it, or holds a taken candidate no other slot     *)
(* holds or will hold.                                                     *)
(***************************************************************************)
Candidates == {i \in Token : Candidate(i)}

OwnerOf(i) == i % Threads

Taken == {i \in Candidates :
            \/ i < cursor[OwnerOf(i)]
            \/ i = cursor[OwnerOf(i)] /\ claimed[OwnerOf(i)] # None}

Written == {s \in Slot : s < count /\ \A t \in Thread : claimed[t] # s}

CTypes ==
  /\ cursor \in [Thread -> Nat]
  /\ claimed \in [Thread -> {None} \cup Nat]
  /\ count \in Nat
  /\ DOMAIN slots = Slot

Strides ==
  \A t \in Thread : /\ OwnerOf(cursor[t]) = t
                    /\ claimed[t] # None => cursor[t] \in Candidates /\ claimed[t] < count

Counted == count = Cardinality(Taken)

OwnSlots ==
  /\ \A t, u \in Thread : claimed[t] = claimed[u] /\ claimed[t] # None => t = u
  /\ \A s \in Written : /\ slots[s].token \in Taken
                        /\ \A t \in Thread : claimed[t] # None => cursor[t] # slots[s].token
  /\ \A r, s \in Written : slots[r].token = slots[s].token => r = s

CInv == CTypes /\ Strides /\ Counted /\ OwnSlots

LEMMA BlockTypes ==
  /\ Vocab \in Nat \ {0} /\ Threads \in Nat \ {0} /\ Cap \in Nat \ {0}
  /\ Token \in SUBSET Nat /\ Thread \in SUBSET Nat /\ Slot \in SUBSET Nat
  /\ None \notin Nat
  /\ \A i \in Nat : OwnerOf(i) \in Thread
  /\ \A t \in Thread : OwnerOf(t) = t
<1>1. Vocab \in Nat \ {0} /\ Threads \in Nat \ {0} /\ Cap \in Nat \ {0}
  BY CapFacts, SamplingAssumption
<1> QED
  BY <1>1 DEF Token, Thread, Slot, None, OwnerOf

LEMMA TakenFinite ==
  /\ IsFiniteSet(Candidates) /\ IsFiniteSet(Taken)
  /\ Taken \subseteq Candidates /\ Candidates \subseteq Token
<1>1. IsFiniteSet(Token)
  BY FS_Interval, BlockTypes DEF Token
<1> QED
  BY <1>1, FS_Subset DEF Candidates, Taken

(* Two indices of one stride are the stride apart.                         *)
LEMMA NextInStride ==
  ASSUME NEW n \in Nat \ {0}, NEW i \in Nat, NEW c \in Nat, i % n = c % n
  PROVE  /\ (c + n) % n = c % n
         /\ i < c + n => i <= c
<1> DEFINE q == i \div n
           r == c % n
           p == c \div n
<1>1. /\ q \in Nat /\ p \in Nat /\ r \in 0 .. n - 1
      /\ i = q * n + r /\ c = p * n + r
  OBVIOUS
<1> DEFINE e == (c + n) \div n
           m == (c + n) % n
<1>2. e \in Nat /\ m \in 0 .. n - 1 /\ c + n = e * n + m
  OBVIOUS
<1> HIDE DEF q, r, p, e, m
<1>3. \A a, b \in Nat : a + 1 <= b => a * n + n <= b * n
  <2> SUFFICES ASSUME NEW a \in Nat, NEW b \in Nat, a + 1 <= b
               PROVE  a * n + n <= b * n
    OBVIOUS
  <2>1. (a + 1) * n <= b * n
    OBVIOUS
  <2>2. (a + 1) * n = a * n + n
    OBVIOUS
  <2> QED
    BY <2>1, <2>2
<1>4. q * n \in Nat /\ p * n \in Nat /\ e * n \in Nat
  BY <1>1, <1>2
<1>5. ASSUME i < c + n PROVE i <= c
  <2>1. ~ (p + 1 + 1 <= q)
    BY <1>1, <1>3, <1>4, <1>5
  <2>2. CASE q = p + 1
    <3>1. (p + 1) * n = p * n + n
      BY <1>1
    <3> QED
      BY <1>1, <1>4, <1>5, <2>2, <3>1
  <2>3. CASE q = p
    BY <1>1, <2>3
  <2>4. CASE q + 1 <= p
    <3>1. q * n + n <= p * n
      BY <1>1, <1>3, <2>4
    <3> QED
      BY <1>1, <1>4, <3>1
  <2> QED
    BY <1>1, <2>1, <2>2, <2>3, <2>4
<1>6. m = r
  <2>1. ASSUME e + 1 <= p + 1 PROVE FALSE
    <3>1. e * n + n <= (p + 1) * n
      BY <1>1, <1>2, <1>3, <2>1
    <3>2. (p + 1) * n = p * n + n
      BY <1>1
    <3> QED
      BY <1>1, <1>2, <1>4, <3>1, <3>2
  <2>2. ASSUME p + 1 + 1 <= e PROVE FALSE
    <3>1. (p + 1) * n + n <= e * n
      BY <1>1, <1>2, <1>3, <2>2
    <3>2. (p + 1) * n = p * n + n
      BY <1>1
    <3> QED
      BY <1>1, <1>2, <1>4, <3>1, <3>2
  <2>3. e = p + 1
    BY <1>1, <1>2, <2>1, <2>2
  <2>4. e * n = p * n + n
    BY <1>1, <2>3
  <2> QED
    BY <1>1, <1>2, <1>4, <2>4
<1> QED
  BY <1>5, <1>6 DEF m, r

LEMMA CandidateKept == depth' = depth => Candidates' = Candidates
BY DEF Candidates, Candidate, CutoffBin, UpToBin, BinOf

LEMMA InitCInv == Init => CInv
<1> SUFFICES ASSUME Init PROVE CInv
  OBVIOUS
<1>1. /\ cursor = [t \in Thread |-> t] /\ claimed = [t \in Thread |-> None]
      /\ count = 0 /\ DOMAIN slots = Slot
  BY DEF Init, NucleusInit
<1>2. CTypes /\ Strides
  BY <1>1, BlockTypes DEF CTypes, Strides
<1>3. Taken = {}
  <2> SUFFICES ASSUME NEW i \in Token PROVE ~(i < OwnerOf(i))
    BY <1>1, BlockTypes DEF Taken, Candidates
  <2>1. i \in Nat /\ Threads \in Nat \ {0}
    BY BlockTypes
  <2>2. i % Threads <= i
    <3> DEFINE q == i \div Threads
               r == i % Threads
    <3>1. q \in Nat /\ r \in Nat /\ i = q * Threads + r /\ r < Threads
      BY <2>1
    <3> HIDE DEF q, r
    <3>2. q * Threads \in Nat
      BY <2>1, <3>1
    <3>3. r <= i
      BY <2>1, <3>1, <3>2
    <3> QED
      BY <3>3 DEF r
  <2>3. i % Threads \in Nat
    BY <2>1
  <2> QED
    BY <2>1, <2>2, <2>3 DEF OwnerOf
<1>4. Counted
  BY <1>1, <1>3, FS_EmptySet DEF Counted
<1>5. Written = {}
  <2>1. \A s \in Slot : ~(s < 0)
    BY BlockTypes DEF Slot
  <2> QED
    BY <1>1, <2>1 DEF Written
<1>6. OwnSlots
  BY <1>1, <1>5 DEF OwnSlots
<1> QED
  BY <1>2, <1>4, <1>6 DEF CInv

LEMMA ClaimStep ==
  ASSUME CInv, NEW t \in Thread, Claim(t)
  PROVE  CInv'
<1>1. /\ cursor[t] \in Candidates /\ claimed[t] = None
      /\ claimed' = [claimed EXCEPT ![t] = count] /\ count' = count + 1
      /\ UNCHANGED <<depth, cursor, slots>>
  BY DEF Claim, ClaimSlot, Candidates, inputs
<1>2. Candidates' = Candidates
  BY <1>1, CandidateKept
<1>3. /\ cursor \in [Thread -> Nat] /\ claimed \in [Thread -> {None} \cup Nat]
      /\ count \in Nat /\ DOMAIN slots = Slot
  BY DEF CInv, CTypes
<1>4. CTypes'
  BY <1>1, <1>3 DEF CTypes
<1>5. \A u \in Thread : claimed[u] # None => claimed[u] < count
  BY DEF CInv, Strides
<1>6. \A u \in Thread : claimed'[u] = IF u = t THEN count ELSE claimed[u]
  BY <1>1, <1>3
<1>7. Strides'
  BY <1>1, <1>2, <1>3, <1>6 DEF CInv, Strides, OwnerOf
<1>8. Taken' = Taken \cup {cursor[t]} /\ cursor[t] \notin Taken
  <2>1. \A i \in Candidates : OwnerOf(i) \in Thread
    BY TakenFinite, BlockTypes
  <2>2. OwnerOf(cursor[t]) = t /\ cursor[t] \in Nat
    BY <1>3 DEF CInv, Strides
  <2>3. count # None
    BY <1>3, BlockTypes
  <2>4. \A i \in Candidates : i # cursor[t] => (i \in Taken' <=> i \in Taken)
    BY <1>1, <1>2, <1>3, <1>6, <2>1 DEF Taken, OwnerOf
  <2>5. cursor[t] \in Taken' /\ cursor[t] \notin Taken
    BY <1>1, <1>2, <1>3, <1>6, <2>2, <2>3 DEF Taken, OwnerOf
  <2>6. Taken' \subseteq Candidates /\ Taken \subseteq Candidates
    BY <1>2 DEF Taken
  <2> QED
    BY <1>1, <2>4, <2>5, <2>6
<1>9. Counted'
  BY <1>1, <1>8, FS_AddElement, TakenFinite DEF CInv, Counted
<1>10. Written' = Written
  <2>1. ASSUME NEW s \in Slot PROVE s \in Written' <=> s \in Written
    <3>1. s \in Nat
      BY BlockTypes
    <3>2. s \in Written' <=> s < count + 1 /\ \A u \in Thread : claimed'[u] # s
      BY <1>1 DEF Written
    <3>3. s \in Written <=> s < count /\ \A u \in Thread : claimed[u] # s
      BY DEF Written
    <3>4. CASE s = count
      <4>1. claimed'[t] = s /\ ~(s < count)
        BY <1>3, <1>6, <3>4
      <4> QED
        BY <3>2, <3>3, <4>1
    <3>5. CASE s # count
      <4>1. \A u \in Thread : claimed'[u] # s <=> claimed[u] # s
        BY <1>1, <1>6, <3>1, <3>5, BlockTypes
      <4>2. s < count + 1 <=> s < count
        BY <1>3, <3>1, <3>5
      <4> QED
        BY <3>2, <3>3, <4>1, <4>2
    <3> QED
      BY <3>4, <3>5
  <2>2. Written \subseteq Slot /\ Written' \subseteq Slot
    BY DEF Written
  <2> QED
    BY <2>1, <2>2
<1>11. OwnSlots'
  <2>1. \A u, w \in Thread : claimed'[u] = claimed'[w] /\ claimed'[u] # None => u = w
    BY <1>3, <1>5, <1>6 DEF CInv, OwnSlots
  <2>2. \A s \in Written : slots[s].token \in Taken
                           /\ \A u \in Thread : claimed'[u] # None => cursor[u] # slots[s].token
    BY <1>6, <1>8 DEF CInv, OwnSlots
  <2> QED
    BY <1>1, <1>8, <1>10, <2>1, <2>2 DEF CInv, OwnSlots
<1> QED
  BY <1>4, <1>7, <1>9, <1>11 DEF CInv

(* A thread that goes to the next index of its stride, from a token that   *)
(* is no candidate or that it has claimed a slot for.                      *)
LEMMA Advance ==
  ASSUME CInv, NEW t \in Thread, depth' = depth,
         cursor' = [cursor EXCEPT ![t] = @ + Threads],
         claimed' = [claimed EXCEPT ![t] = None],
         claimed[t] # None \/ cursor[t] \notin Candidates
  PROVE  /\ Candidates' = Candidates /\ Taken' = Taken
         /\ cursor' \in [Thread -> Nat] /\ claimed' \in [Thread -> {None} \cup Nat]
         /\ \A u \in Thread : OwnerOf(cursor[u])' = u
<1>1. Candidates' = Candidates
  BY CandidateKept
<1>2. cursor \in [Thread -> Nat] /\ claimed \in [Thread -> {None} \cup Nat]
  BY DEF CInv, CTypes
<1>3. /\ \A u \in Thread : cursor'[u] = IF u = t THEN cursor[t] + Threads ELSE cursor[u]
      /\ \A u \in Thread : claimed'[u] = IF u = t THEN None ELSE claimed[u]
  BY <1>2
<1>4. cursor[t] \in Nat /\ OwnerOf(cursor[t]) = t
  BY <1>2 DEF CInv, Strides
<1>5. \A i \in Nat : OwnerOf(i) = t =>
        OwnerOf(cursor[t] + Threads) = t /\ (i < cursor[t] + Threads => i <= cursor[t])
  BY <1>4, NextInStride, BlockTypes DEF OwnerOf
<1>6. cursor' \in [Thread -> Nat] /\ claimed' \in [Thread -> {None} \cup Nat]
  BY <1>2, BlockTypes
<1>7. \A u \in Thread : OwnerOf(cursor[u])' = u
  <2>1. \A u \in Thread : OwnerOf(cursor[u])' = OwnerOf(cursor'[u])
    BY DEF OwnerOf
  <2>2. \A u \in Thread : OwnerOf(cursor[u]) = u
    BY DEF CInv, Strides
  <2> QED
    BY <1>3, <1>4, <1>5, <2>1, <2>2
<1>8. ASSUME NEW i \in Candidates PROVE i \in Taken' <=> i \in Taken
  <2>1. i \in Nat /\ OwnerOf(i) \in Thread /\ OwnerOf(i)' = OwnerOf(i)
    BY TakenFinite, BlockTypes DEF OwnerOf
  <2>2. i \in Taken' <=> \/ i < cursor'[OwnerOf(i)]
                         \/ i = cursor'[OwnerOf(i)] /\ claimed'[OwnerOf(i)] # None
    BY <1>1 DEF Taken, OwnerOf
  <2>3. i \in Taken <=> \/ i < cursor[OwnerOf(i)]
                        \/ i = cursor[OwnerOf(i)] /\ claimed[OwnerOf(i)] # None
    BY DEF Taken
  <2>4. CASE OwnerOf(i) # t
    BY <1>3, <2>1, <2>2, <2>3, <2>4
  <2>5. CASE OwnerOf(i) = t
    <3>1. i \in Taken' <=> i <= cursor[t]
      BY <1>3, <1>4, <1>5, <2>1, <2>2, <2>5, BlockTypes
    <3>2. i \in Taken <=> i <= cursor[t]
      BY <1>4, <2>1, <2>3, <2>5
    <3> QED
      BY <3>1, <3>2
  <2> QED
    BY <2>4, <2>5
<1>9. Taken' \subseteq Candidates /\ Taken \subseteq Candidates
  BY <1>1 DEF Taken
<1> QED
  BY <1>1, <1>6, <1>7, <1>8, <1>9

LEMMA PassStep ==
  ASSUME CInv, NEW t \in Thread, Pass(t)
  PROVE  CInv'
<1>1. /\ claimed[t] = None /\ cursor[t] \notin Candidates
      /\ cursor' = [cursor EXCEPT ![t] = @ + Threads]
      /\ UNCHANGED <<depth, claimed, count, slots>>
  BY DEF Pass, Candidates, inputs
<1>2. claimed' = [claimed EXCEPT ![t] = None]
  BY <1>1 DEF CInv, CTypes
<1>3. /\ Candidates' = Candidates /\ Taken' = Taken
      /\ cursor' \in [Thread -> Nat] /\ claimed' \in [Thread -> {None} \cup Nat]
      /\ \A u \in Thread : OwnerOf(cursor[u])' = u
  BY <1>1, <1>2, Advance
<1>4. \A u \in Thread : claimed[u] # None => cursor'[u] = cursor[u]
  BY <1>1 DEF CInv, CTypes
<1>5. CTypes' /\ Counted'
  BY <1>1, <1>3 DEF CInv, CTypes, Counted
<1>6. Strides'
  BY <1>1, <1>3, <1>4 DEF CInv, Strides
<1>7. OwnSlots'
  BY <1>1, <1>3, <1>4 DEF CInv, OwnSlots, Written
<1> QED
  BY <1>5, <1>6, <1>7 DEF CInv

LEMMA FillStep ==
  ASSUME CInv, NEW t \in Thread, Fill(t)
  PROVE  CInv'
<1> DEFINE c == claimed[t]
           new == [depth |-> depth[cursor[t]], token |-> cursor[t]]
<1>1. /\ c # None
      /\ slots' = IF c \in Slot THEN [slots EXCEPT ![c] = new] ELSE slots
      /\ cursor' = [cursor EXCEPT ![t] = @ + Threads]
      /\ claimed' = [claimed EXCEPT ![t] = None]
      /\ UNCHANGED <<depth, count>>
  BY DEF Fill, inputs
<1>2. /\ Candidates' = Candidates /\ Taken' = Taken
      /\ cursor' \in [Thread -> Nat] /\ claimed' \in [Thread -> {None} \cup Nat]
      /\ \A u \in Thread : OwnerOf(cursor[u])' = u
  BY <1>1, Advance
<1>3. /\ cursor \in [Thread -> Nat] /\ claimed \in [Thread -> {None} \cup Nat]
      /\ count \in Nat /\ DOMAIN slots = Slot /\ None \notin Nat
  BY BlockTypes DEF CInv, CTypes
<1>4. /\ c \in Nat /\ c < count
      /\ cursor[t] \in Candidates /\ OwnerOf(cursor[t]) = t
  BY <1>1, <1>3 DEF CInv, Strides
<1>5. /\ \A u \in Thread : claimed'[u] # None =>
           u # t /\ claimed'[u] = claimed[u] /\ cursor'[u] = cursor[u]
      /\ \A u \in Thread : u # t => claimed'[u] = claimed[u]
      /\ claimed'[t] = None
  BY <1>1, <1>3
<1>6. CTypes' /\ Counted'
  BY <1>1, <1>2 DEF CInv, CTypes, Counted
<1>7. Strides'
  BY <1>1, <1>2, <1>5 DEF CInv, Strides
<1>8. cursor[t] \in Taken
  BY <1>1, <1>4 DEF Taken
<1>9. \A u \in Thread : u # t => claimed[u] # c
  BY <1>1 DEF CInv, OwnSlots
<1>10. Written' = IF c \in Slot THEN Written \cup {c} ELSE Written
  <2>1. \A s \in Slot : s \in Written' <=> s \in Written \/ s = c
    <3>1. \A s \in Slot : s \in Written' <=> s < count /\ \A u \in Thread : claimed'[u] # s
      BY <1>1 DEF Written
    <3>2. \A s \in Slot : s \in Written <=> s < count /\ \A u \in Thread : claimed[u] # s
      BY DEF Written
    <3>3. \A s \in Slot : s # None
      BY BlockTypes
    <3> QED
      BY <1>4, <1>5, <1>9, <3>1, <3>2, <3>3
  <2>2. Written \subseteq Slot /\ Written' \subseteq Slot
    BY DEF Written
  <2> QED
    BY <2>1, <2>2
<1>11. c \notin Written
  BY DEF Written
<1>12. /\ \A s \in Written : slots'[s] = slots[s]
       /\ c \in Slot => slots'[c].token = cursor[t]
  <2>1. Written \subseteq Slot
    BY DEF Written
  <2> QED
    BY <1>1, <1>3, <1>11, <2>1
<1>13. \A s \in Written : slots[s].token # cursor[t]
  BY <1>1 DEF CInv, OwnSlots
<1>14. \A u \in Thread : claimed'[u] # None => cursor'[u] # cursor[t]
  BY <1>4, <1>5 DEF CInv, Strides
<1> HIDE DEF c, new
<1>15. OwnSlots'
  <2>1. \A u, w \in Thread : claimed'[u] = claimed'[w] /\ claimed'[u] # None => u = w
    BY <1>5 DEF CInv, OwnSlots
  <2>2. ASSUME NEW s \in Written'
        PROVE  /\ slots'[s].token \in Taken
               /\ \A u \in Thread : claimed'[u] # None => cursor'[u] # slots'[s].token
    <3>1. CASE s \in Written
      BY <1>5, <1>12, <3>1 DEF CInv, OwnSlots
    <3>2. CASE s \notin Written
      <4>1. s = c /\ c \in Slot
        BY <1>10, <3>2
      <4> QED
        BY <1>8, <1>12, <1>14, <4>1
    <3> QED
      BY <3>1, <3>2
  <2>3. ASSUME NEW r \in Written', NEW s \in Written', slots'[r].token = slots'[s].token
        PROVE  r = s
    <3>1. \A x \in Written' : x \in Written \/ (x = c /\ c \in Slot)
      BY <1>10
    <3>2. CASE r \in Written /\ s \in Written
      BY <1>12, <2>3, <3>2 DEF CInv, OwnSlots
    <3> QED
      BY <1>12, <1>13, <2>3, <3>1, <3>2
  <2> QED
    BY <1>2, <2>1, <2>2, <2>3 DEF OwnSlots
<1> QED
  BY <1>6, <1>7, <1>15 DEF CInv

LEMMA NextCInv == CInv /\ [Next]_vars => CInv'
<1> SUFFICES ASSUME CInv, [Next]_vars PROVE CInv'
  OBVIOUS
<1>1. CASE UNCHANGED <<depth, cursor, claimed, count, slots>>
  <2>1. Candidates' = Candidates /\ Taken' = Taken
    BY <1>1, CandidateKept DEF Taken, OwnerOf
  <2> QED
    BY <1>1, <2>1 DEF CInv, CTypes, Strides, Counted, OwnSlots, Written, OwnerOf
<1>2. CASE RunSample
  <2>1. ASSUME NEW t \in Thread, Claim(t) \/ Pass(t) \/ Fill(t) PROVE CInv'
    BY <2>1, ClaimStep, PassStep, FillStep
  <2>2. CASE Select
    BY <1>1, <2>2 DEF Select, inputs
  <2> QED
    BY <1>2, <2>1, <2>2 DEF RunSample, NucleusNext
<1>3. CASE Launch \/ RunArgmax \/ Return
  BY <1>1, <1>3 DEF Launch, RunArgmax, Return, inputs, nucleusVars
<1> QED
  BY <1>1, <1>2, <1>3 DEF Next, vars, inputs, nucleusVars

(* A thread that has left the row has taken every candidate of its stride. *)
LEMMA AllTaken ==
  ASSUME CInv, CompactionOver
  PROVE  Taken = Candidates /\ \A t \in Thread : claimed[t] = None
<1>1. \A t \in Thread : cursor[t] \in Nat /\ cursor[t] \notin Token
  BY DEF CInv, CTypes, CompactionOver
<1>2. \A t \in Thread : claimed[t] = None
  BY <1>1, TakenFinite DEF CInv, Strides
<1>3. \A i \in Candidates : OwnerOf(i) \in Thread /\ i \in Token
  BY TakenFinite, BlockTypes
<1>4. \A i \in Token, n \in Nat : n \notin Token => i < n
  BY BlockTypes DEF Token
<1> QED
  BY <1>1, <1>2, <1>3, <1>4 DEF Taken

(* CompactionExact: for every vocabulary, block, buffer and schedule, the  *)
(* buffer ends with as many different candidates as fit, whatever order    *)
(* the atomic increments of shared_count land in.                          *)
THEOREM CompactionAlwaysExact == Spec => []CompactionExact
<1>1. CInv => CompactionExact
  <2> DEFINE filled == 0 .. Found - 1
             kept   == {slots[s].token : s \in filled}
             f      == [s \in filled |-> slots[s].token]
  <2> SUFFICES ASSUME CInv, CompactionOver
               PROVE  /\ kept \subseteq Candidates
                      /\ Cardinality(kept) = IF Cardinality(Candidates) < Cap
                                               THEN Cardinality(Candidates) ELSE Cap
    BY DEF CompactionExact, Candidates
  <2>1. Taken = Candidates /\ \A t \in Thread : claimed[t] = None
    BY AllTaken
  <2>2. count = Cardinality(Candidates) /\ count \in Nat /\ Cap \in Nat
    BY <2>1, BlockTypes DEF CInv, CTypes, Counted
  <2>3. Found \in Nat /\ Found <= count /\ Found <= Cap
    BY <2>2 DEF Found
  <2>4. \A s \in filled : s \in Slot /\ s < count /\ s # None
    BY <2>2, <2>3, BlockTypes DEF Slot
  <2>5. filled \subseteq Written
    BY <2>1, <2>4 DEF Written
  <2>6. /\ \A s \in filled : slots[s].token \in Candidates
        /\ \A r, s \in filled : slots[r].token = slots[s].token => r = s
    BY <2>1, <2>5 DEF CInv, OwnSlots
  <2> HIDE DEF filled
  <2>7. f \in Bijection(filled, kept)
    BY <2>6 DEF Bijection, Injection, IsInjective, Surjection
  <2>8. IsFiniteSet(filled) /\ Cardinality(filled) = Found
    BY <2>3, FS_Interval DEF filled
  <2>9. Cardinality(kept) = Found
    BY <2>7, <2>8, FS_Bijection DEF ExistsBijection
  <2> QED
    BY <2>2, <2>6, <2>9 DEF Found
<1> QED
  BY <1>1, InitCInv, NextCInv, PTL DEF Spec

-----------------------------------------------------------------------------
(***************************************************************************)
(* The bitonic network.  What holds of an array is said of one threshold   *)
(* at a time: a comparison moves the entries above it in the same way as   *)
(* it moves the entries, and of a set of slots "bitonic" says only that it *)
(* or its complement is an interval.                                       *)
(***************************************************************************)
LEMMA Quotient ==
  ASSUME NEW n \in Nat \ {0}, NEW q \in Nat, NEW r \in 0 .. n - 1
  PROVE  (q * n + r) \div n = q
OBVIOUS

(* Blocks of one size that lie in blocks of a multiple of it.              *)
LEMMA BlockInBlock ==
  ASSUME NEW n \in Nat \ {0}, NEW e \in Nat \ {0}, NEW w \in Nat, w = e * n,
         NEW m \in Nat, NEW q \in Nat, NEW s \in Nat,
         m * n <= s, s < m * n + n, q * w <= s, s < q * w + w
  PROVE  q * w <= m * n /\ m * n + n <= q * w + w
<1>1. q * w = (q * e) * n /\ q * w + w = (q * e + e) * n /\ q * e \in Nat
  BY Z3
<1>2. m * n + n = (m + 1) * n
  BY Z3
<1>3. \A x, y \in Nat : x * n < y * n => x < y
  BY Z3
<1>4. \A x, y \in Nat : x <= y => x * n <= y * n
  BY Z3
<1>5. q * e < m + 1
  BY <1>1, <1>2, <1>3
<1>6. m < q * e + e
  BY <1>1, <1>2, <1>3
<1> QED
  BY <1>1, <1>2, <1>4, <1>5, <1>6

(* Slot r of the lower half of block m of those of two distances.          *)
LowSlot(m, n, r) == m * (2 * n) + r

LEMMA PartnerFacts ==
  ASSUME NEW n \in Nat \ {0}, NEW m \in Nat, NEW r \in 0 .. n - 1
  PROVE  LET low == LowSlot(m, n, r)
         IN  Partner(low, n) = low + n /\ Partner(low + n, n) = low
<1>0. PICK low \in Nat : low = LowSlot(m, n, r)
  BY DEF LowSlot
<1>1. low = (2 * m) * n + r /\ low + n = (2 * m + 1) * n + r
  BY <1>0, Z3 DEF LowSlot
<1>2. low \div n = 2 * m
  BY <1>1, Quotient
<1>3. (low + n) \div n = 2 * m + 1
  BY <1>1, Quotient
<1>4. (2 * m) % 2 = 0 /\ (2 * m + 1) % 2 = 1
  OBVIOUS
<1>5. (low + n) - n = low
  OBVIOUS
<1> QED
  BY <1>0, <1>2, <1>3, <1>4, <1>5 DEF Partner

-----------------------------------------------------------------------------
Entry == [depth : Int, token : Int]

(* c starts a block of two distances, which lies in block q of a span.     *)
PairBlock(n, w, q, c) ==
  /\ \E m \in Nat : c = m * (2 * n)
  /\ c + 2 * n <= Cap
  /\ q * w <= c /\ c + 2 * n <= q * w + w

LEMMA ExchangePair ==
  ASSUME NEW a \in [Slot -> Entry], NEW n \in Nat \ {0}, NEW w \in Nat \ {0},
         NEW q \in Nat, NEW c \in Nat, PairBlock(n, w, q, c), NEW r \in 0 .. n - 1
  PROVE  LET low  == c + r
             high == c + r + n
             swap == IF q % 2 = 0 THEN a[low].depth > a[high].depth
                                  ELSE a[low].depth < a[high].depth
         IN  /\ low \in Slot /\ high \in Slot
             /\ Exchange(a, w, n)[low]  = IF swap THEN a[high] ELSE a[low]
             /\ Exchange(a, w, n)[high] = IF swap THEN a[low] ELSE a[high]
<1>0. PICK m \in Nat : c = m * (2 * n) /\ c + 2 * n <= Cap
                      /\ q * w <= c /\ c + 2 * n <= q * w + w
  BY DEF PairBlock
<1> DEFINE low  == c + r
           high == c + r + n
<1>1. low \in Nat /\ high \in Nat /\ low < high /\ ~(high < low) /\ Cap \in Nat
  BY <1>0, Pow2Defined, SamplingAssumption DEF Cap
<1>2. low \in Slot /\ high \in Slot
  BY <1>0, <1>1 DEF Slot
<1>3. Partner(low, n) = high /\ Partner(high, n) = low
  <2>1. low = LowSlot(m, n, r) /\ high = low + n
    BY <1>0, Z3 DEF LowSlot
  <2> HIDE DEF low, high
  <2>2. Partner(low, n) = low + n /\ Partner(low + n, n) = low
    BY <2>1, PartnerFacts
  <2> QED
    BY <2>1, <2>2
<1>4. low \div w = q
  <2>1. PICK x \in 0 .. w - 1 : low = q * w + x
    <3>1. q * w \in Nat
      OBVIOUS
    <3>2. low - q * w \in 0 .. w - 1
      BY <1>0, <3>1
    <3>3. low = q * w + (low - q * w)
      BY <3>1
    <3> QED
      BY <3>2, <3>3
  <2> QED
    BY <2>1, Quotient
<1> HIDE DEF low, high
<1>5. Exchange(a, w, n)[low] =
        IF (IF q % 2 = 0 THEN a[low].depth > a[high].depth ELSE a[low].depth < a[high].depth)
          THEN a[high] ELSE a[low]
  BY <1>1, <1>2, <1>3, <1>4 DEF Exchange
<1>6. Exchange(a, w, n)[high] =
        IF (IF q % 2 = 0 THEN a[low].depth > a[high].depth ELSE a[low].depth < a[high].depth)
          THEN a[low] ELSE a[high]
  BY <1>1, <1>2, <1>3, <1>4 DEF Exchange
<1> QED
  BY <1>2, <1>5, <1>6 DEF low, high

(* Where a slot lies.                                                      *)
LEMMA SlotPlace ==
  ASSUME NEW j \in Nat, NEW k \in Nat, j < k, k <= LogCap, NEW s \in Slot
  PROVE  \E c \in Nat, q \in Nat, r \in 0 .. Pow2[j] - 1 :
           PairBlock(Pow2[j], Pow2[k], q, c) /\ (s = c + r \/ s = c + r + Pow2[j])
<1>1. PICK n \in Nat \ {0} : n = Pow2[j]
  BY Pow2Defined
<1>2. PICK w \in Nat \ {0} : w = Pow2[k]
  BY Pow2Defined
<1>3. PICK h \in Nat \ {0} : h = 2 * n /\ h = Pow2[j + 1]
  BY <1>1, Pow2Defined
<1>4. PICK e \in Nat \ {0} : w = e * h
  <2>1. k - (j + 1) \in Nat /\ (j + 1) + (k - (j + 1)) = k
    BY SamplingAssumption
  <2>2. Pow2[k] = Pow2[k - (j + 1)] * Pow2[j + 1]
    <3>1. PICK d \in Nat, b \in Nat : d = k - (j + 1) /\ b = j + 1 /\ d + b = k
      BY <2>1
    <3>2. Pow2[d + b] = Pow2[d] * Pow2[b]
      BY Pow2Sum
    <3> QED
      BY <3>1, <3>2, Zenon
  <2> QED
    BY <1>2, <1>3, <2>1, <2>2, Pow2Defined
<1>5. PICK f \in Nat \ {0} : Cap = f * h
  <2>1. LogCap - (j + 1) \in Nat /\ (j + 1) + (LogCap - (j + 1)) = LogCap
    BY SamplingAssumption
  <2>2. Pow2[LogCap] = Pow2[LogCap - (j + 1)] * Pow2[j + 1]
    <3>1. PICK d \in Nat, b \in Nat : d = LogCap - (j + 1) /\ b = j + 1 /\ d + b = LogCap
      BY <2>1
    <3>2. Pow2[d + b] = Pow2[d] * Pow2[b]
      BY Pow2Sum
    <3> QED
      BY <3>1, <3>2, Zenon
  <2> QED
    BY <1>3, <2>1, <2>2, Pow2Defined DEF Cap
<1>6. s \in Nat /\ s < Cap /\ Cap \in Nat
  BY <1>5 DEF Slot
<1>7. PICK m \in Nat, x \in 0 .. h - 1 : s = m * h + x
  <2>1. s \div h \in Nat /\ s % h \in 0 .. h - 1 /\ s = (s \div h) * h + (s % h)
    BY <1>6
  <2> QED
    BY <2>1
<1>8. PICK q \in Nat, y \in 0 .. w - 1 : s = q * w + y
  <2>1. s \div w \in Nat /\ s % w \in 0 .. w - 1 /\ s = (s \div w) * w + (s % w)
    BY <1>6
  <2> QED
    BY <2>1
<1>9. m * h \in Nat /\ q * w \in Nat
  OBVIOUS
<1>10. q * w <= m * h /\ m * h + h <= q * w + w
  BY <1>4, <1>6, <1>7, <1>8, <1>9, BlockInBlock
<1>11. m * h + h <= Cap
  <2>1. 0 * Cap = 0 /\ 0 * Cap + Cap = Cap
    BY <1>6
  <2>2. m * h + h <= 0 * Cap + Cap
    BY <1>5, <1>6, <1>7, <1>9, <2>1, BlockInBlock
  <2> QED
    BY <2>1, <2>2
<1>12. \E r \in 0 .. n - 1 : s = m * h + r \/ s = m * h + r + n
  <2>1. CASE x < n
    BY <1>7, <2>1
  <2>2. CASE ~(x < n)
    <3>1. x - n \in 0 .. n - 1 /\ s = m * h + (x - n) + n
      BY <1>3, <1>7, <1>9, <2>2
    <3> QED
      BY <3>1
  <2> QED
    BY <2>1, <2>2
<1>13. PICK r \in 0 .. n - 1 : s = m * h + r \/ s = m * h + r + n
  BY <1>12
<1>14. PICK c \in Nat : c = m * h
  BY <1>9
<1>15. PairBlock(n, w, q, c)
  BY <1>3, <1>10, <1>11, <1>14 DEF PairBlock
<1>16. s = c + r \/ s = c + r + n
  BY <1>13, <1>14
<1> QED
  BY <1>1, <1>2, <1>15, <1>16

-----------------------------------------------------------------------------
(* On the slots from c up to e, H or its complement is an interval.        *)
Interval(H, c, e, p, q)   == \A s \in c .. e - 1 : s \in H <=> p <= s /\ s < q
Exception(H, c, e, p, q)  == \A s \in c .. e - 1 : s \in H <=> ~(p <= s /\ s < q)
Bitonic(H, c, e) ==
  \E p, q \in Nat : c <= p /\ p <= q /\ q <= e
                    /\ (Interval(H, c, e, p, q) \/ Exception(H, c, e, p, q))

(* A comparison at distance n leaves the lower of the two slots in the set *)
(* when both were, and the upper one when either was.                      *)
Halves(H, G, c, n) ==
  \A r \in 0 .. n - 1 : /\ c + r \in G <=> c + r \in H /\ c + r + n \in H
                        /\ c + r + n \in G <=> c + r \in H \/ c + r + n \in H

LEMMA HalvesAt ==
  ASSUME NEW H, NEW G, NEW n \in Nat \ {0}, NEW c \in Nat, Halves(H, G, c, n)
  PROVE  /\ \A s \in c .. c + n - 1 : s \in G <=> s \in H /\ s + n \in H
         /\ \A s \in c + n .. c + 2 * n - 1 : s \in G <=> s - n \in H \/ s \in H
<1>1. ASSUME NEW s \in c .. c + n - 1 PROVE s \in G <=> s \in H /\ s + n \in H
  <2>1. s - c \in 0 .. n - 1 /\ c + (s - c) = s
    OBVIOUS
  <2> QED
    BY <2>1 DEF Halves
<1>2. ASSUME NEW s \in c + n .. c + 2 * n - 1 PROVE s \in G <=> s - n \in H \/ s \in H
  <2>1. s - n - c \in 0 .. n - 1 /\ c + (s - n - c) = s - n /\ (s - n) + n = s
    OBVIOUS
  <2> QED
    BY <2>1 DEF Halves
<1> QED
  BY <1>1, <1>2

(* Half of a bitonic block comes out clean, and the other half bitonic.    *)
LEMMA HalfClean ==
  ASSUME NEW H, NEW G, NEW n \in Nat \ {0}, NEW c \in Nat, Halves(H, G, c, n),
         Bitonic(H, c, c + 2 * n)
  PROVE  \/ Bitonic(G, c, c + n) /\ \A s \in c + n .. c + 2 * n - 1 : s \in G
         \/ Bitonic(G, c + n, c + 2 * n) /\ \A s \in c .. c + n - 1 : s \notin G
<1> DEFINE e == c + 2 * n
<1>1. PICK p \in Nat, q \in Nat :
        c <= p /\ p <= q /\ q <= e /\ (Interval(H, c, e, p, q) \/ Exception(H, c, e, p, q))
  BY DEF Bitonic
<1>2. \A s \in c .. c + n - 1 : s \in G <=> s \in H /\ s + n \in H
  BY HalvesAt
<1>3. \A s \in c + n .. c + 2 * n - 1 : s \in G <=> s - n \in H \/ s \in H
  BY HalvesAt
<1>4. \A s \in c .. c + n - 1 : s \in c .. e - 1 /\ s + n \in c .. e - 1
  OBVIOUS
<1>5. \A s \in c + n .. c + 2 * n - 1 : s \in c .. e - 1 /\ s - n \in c .. e - 1
  OBVIOUS
<1>6. CASE Interval(H, c, e, p, q)
  <2>1. \A s \in c .. c + n - 1 : s \in G <=> (p <= s /\ s < q) /\ (p <= s + n /\ s + n < q)
    BY <1>2, <1>4, <1>6 DEF Interval
  <2>2. \A s \in c + n .. c + 2 * n - 1 :
          s \in G <=> (p <= s - n /\ s - n < q) \/ (p <= s /\ s < q)
    BY <1>3, <1>5, <1>6 DEF Interval
  <2>3. CASE q - p <= n
    <3>1. \A s \in c .. c + n - 1 : s \notin G
      BY <2>1, <2>3
    <3>2. CASE q <= c + n
      <4>1. Interval(G, c + n, c + 2 * n, p + n, q + n)
        BY <2>2, <3>2, <1>1 DEF Interval
      <4>2. p + n \in Nat /\ q + n \in Nat /\ c + n <= p + n /\ p + n <= q + n /\ q + n <= c + 2 * n
        BY <1>1, <3>2
      <4> QED
        BY <3>1, <4>1, <4>2 DEF Bitonic
    <3>3. CASE p >= c + n
      <4>1. Interval(G, c + n, c + 2 * n, p, q)
        BY <2>2, <3>3, <1>1 DEF Interval
      <4> QED
        BY <1>1, <3>1, <3>3, <4>1 DEF Bitonic
    <3>4. CASE q > c + n /\ p < c + n
      <4>1. Exception(G, c + n, c + 2 * n, q, p + n)
        BY <2>2, <3>4, <1>1 DEF Exception
      <4>2. p + n \in Nat /\ c + n <= q /\ q <= p + n /\ p + n <= c + 2 * n
        BY <1>1, <2>3, <3>4
      <4> QED
        BY <3>1, <4>1, <4>2 DEF Bitonic
    <3> QED
      BY <3>2, <3>3, <3>4
  <2>4. CASE q - p > n
    <3>1. \A s \in c + n .. c + 2 * n - 1 : s \in G
      BY <1>1, <2>2, <2>4
    <3>2. Interval(G, c, c + n, p, q - n)
      BY <1>1, <2>1, <2>4 DEF Interval
    <3>3. q - n \in Nat /\ p <= q - n /\ q - n <= c + n
      BY <1>1, <2>4
    <3> QED
      BY <1>1, <3>1, <3>2, <3>3 DEF Bitonic
  <2> QED
    BY <2>3, <2>4
<1>7. CASE Exception(H, c, e, p, q)
  <2>1. \A s \in c .. c + n - 1 : s \in G <=> ~(p <= s /\ s < q) /\ ~(p <= s + n /\ s + n < q)
    BY <1>2, <1>4, <1>7 DEF Exception
  <2>2. \A s \in c + n .. c + 2 * n - 1 :
          s \in G <=> ~(p <= s - n /\ s - n < q) \/ ~(p <= s /\ s < q)
    BY <1>3, <1>5, <1>7 DEF Exception
  <2>3. CASE q - p <= n
    <3>1. \A s \in c + n .. c + 2 * n - 1 : s \in G
      BY <2>2, <2>3
    <3>2. CASE q <= c + n
      <4>1. Exception(G, c, c + n, p, q)
        BY <2>1, <3>2, <1>1 DEF Exception
      <4> QED
        BY <1>1, <3>1, <3>2, <4>1 DEF Bitonic
    <3>3. CASE p >= c + n
      <4>1. Exception(G, c, c + n, p - n, q - n)
        BY <2>1, <3>3, <1>1 DEF Exception
      <4>2. p - n \in Nat /\ q - n \in Nat /\ c <= p - n /\ p - n <= q - n /\ q - n <= c + n
        BY <1>1, <3>3
      <4> QED
        BY <3>1, <4>1, <4>2 DEF Bitonic
    <3>4. CASE q > c + n /\ p < c + n
      <4>1. Interval(G, c, c + n, q - n, p)
        BY <2>1, <3>4, <1>1 DEF Interval
      <4>2. q - n \in Nat /\ c <= q - n /\ q - n <= p /\ p <= c + n
        BY <1>1, <2>3, <3>4
      <4> QED
        BY <3>1, <4>1, <4>2 DEF Bitonic
    <3> QED
      BY <3>2, <3>3, <3>4
  <2>4. CASE q - p > n
    <3>1. \A s \in c .. c + n - 1 : s \notin G
      BY <1>1, <2>1, <2>4
    <3>2. Exception(G, c + n, c + 2 * n, p + n, q)
      BY <1>1, <2>2, <2>4 DEF Exception
    <3>3. p + n \in Nat /\ c + n <= p + n /\ p + n <= q /\ q <= c + 2 * n
      BY <1>1, <2>4
    <3> QED
      BY <1>1, <3>1, <3>2, <3>3 DEF Bitonic
  <2> QED
    BY <2>3, <2>4
<1> QED
  BY <1>1, <1>6, <1>7

-----------------------------------------------------------------------------
(* Of the block of w slots from B: one sub-block of n slots is bitonic,    *)
(* nothing below it is in H and everything above it is.                    *)
NarrowedTo(H, B, w, n, c) ==
  /\ B <= c /\ c + n <= B + w
  /\ Bitonic(H, c, c + n)
  /\ \A s \in B .. c - 1 : s \notin H
  /\ \A s \in c + n .. B + w - 1 : s \in H
Narrowed(H, B, w, n) == \E m \in Nat : NarrowedTo(H, B, w, n, m * n)

LEMMA RoundNarrows ==
  ASSUME NEW H, NEW G, NEW n \in Nat \ {0}, NEW e \in Nat \ {0}, NEW b \in Nat,
         NEW B \in Nat, B = b * (2 * n), NEW w \in Nat \ {0}, w = e * (2 * n),
         \A m \in Nat : B <= m * (2 * n) /\ m * (2 * n) + 2 * n <= B + w
                          => Halves(H, G, m * (2 * n), n),
         Narrowed(H, B, w, 2 * n)
  PROVE  Narrowed(G, B, w, n)
<1> DEFINE h == 2 * n
<1>1. PICK m \in Nat : NarrowedTo(H, B, w, h, m * h)
  BY DEF Narrowed
<1>2. PICK c \in Nat : c = m * h
  OBVIOUS
<1>3. B <= c /\ c + h <= B + w /\ Bitonic(H, c, c + h)
      /\ (\A s \in B .. c - 1 : s \notin H) /\ (\A s \in c + h .. B + w - 1 : s \in H)
  BY <1>1, <1>2 DEF NarrowedTo
<1>4. Halves(H, G, c, n)
  BY <1>2, <1>3
<1>5. ASSUME NEW s \in B .. B + w - 1, s < c \/ s >= c + h
      PROVE  s \in G <=> s \in H
  <2>0. h \in Nat \ {0} /\ s \in Nat
    OBVIOUS
  <2>1. PICK k \in Nat, x \in 0 .. h - 1 : s = k * h + x
    <3> HIDE DEF h
    <3>1. s \div h \in Nat /\ s % h \in 0 .. h - 1 /\ s = (s \div h) * h + (s % h)
      BY <2>0
    <3> QED
      BY <3>1
  <2>2. PICK d \in Nat : d = k * h
    OBVIOUS
  <2>3. b * w \in Nat /\ b * h <= k * h /\ k * h + h <= b * h + w
    <3>1. \A y, z \in Nat : y * h < z * h => y < z
      BY Z3
    <3>2. \A y, z \in Nat : y <= z => y * h <= z * h
      BY Z3
    <3>3. b * h + w = (b + e) * h /\ k * h + h = (k + 1) * h /\ b + e \in Nat /\ k + 1 \in Nat
      BY Z3
    <3>4. b < k + 1 /\ k < b + e
      BY <2>0, <2>1, <3>1, <3>3
    <3> QED
      BY <3>2, <3>3, <3>4
  <2>4. B <= d /\ d + h <= B + w
    BY <2>2, <2>3
  <2>5. d + h <= c \/ c + h <= d
    <3>1. \A y, z \in Nat : y * h < z * h => y < z
      BY Z3
    <3>2. \A y, z \in Nat : y <= z => y * h <= z * h
      BY Z3
    <3>3. c + h = (m + 1) * h /\ k * h + h = (k + 1) * h /\ m + 1 \in Nat /\ k + 1 \in Nat
      BY <1>2, Z3
    <3>4. k < m \/ m + 1 < k + 1
      BY <1>2, <1>5, <2>0, <2>1, <3>1, <3>3
    <3>5. k + 1 <= m \/ m + 1 <= k
      BY <3>4
    <3> QED
      BY <1>2, <2>2, <3>2, <3>3, <3>5
  <2>6. Halves(H, G, d, n)
    BY <2>2, <2>4
  <2>7. /\ \A v \in d .. d + n - 1 : v \in G <=> v \in H /\ v + n \in H
        /\ \A v \in d + n .. d + 2 * n - 1 : v \in G <=> v - n \in H \/ v \in H
    BY <2>6, HalvesAt
  <2>8. s \in d .. d + h - 1
    BY <2>1, <2>2
  <2>9. (\A v \in d .. d + h - 1 : v \in H) \/ (\A v \in d .. d + h - 1 : v \notin H)
    BY <1>3, <2>4, <2>5
  <2>10. CASE s < d + n
    <3>1. s \in d .. d + n - 1 /\ s + n \in d .. d + h - 1
      BY <2>8, <2>10
    <3> QED
      BY <2>7, <2>8, <2>9, <3>1
  <2>11. CASE ~(s < d + n)
    <3>1. s \in d + n .. d + 2 * n - 1 /\ s - n \in d .. d + h - 1
      BY <2>8, <2>11
    <3> QED
      BY <2>7, <2>8, <2>9, <3>1
  <2> QED
    BY <2>10, <2>11
<1>6. \A s \in B .. c - 1 : s \notin G
  BY <1>3, <1>5
<1>7. \A s \in c + h .. B + w - 1 : s \in G
  BY <1>3, <1>5
<1>8. c = (2 * m) * n /\ c + n = (2 * m + 1) * n /\ 2 * m \in Nat /\ 2 * m + 1 \in Nat
  BY <1>2, Z3
<1>9. CASE Bitonic(G, c, c + n) /\ \A s \in c + n .. c + 2 * n - 1 : s \in G
  <2>1. NarrowedTo(G, B, w, n, c)
    BY <1>3, <1>6, <1>7, <1>9 DEF NarrowedTo
  <2> QED
    BY <1>8, <2>1 DEF Narrowed
<1>10. CASE Bitonic(G, c + n, c + 2 * n) /\ \A s \in c .. c + n - 1 : s \notin G
  <2>1. (c + n) + n = c + 2 * n
    OBVIOUS
  <2>2. NarrowedTo(G, B, w, n, c + n)
    BY <1>3, <1>6, <1>7, <1>10, <2>1 DEF NarrowedTo
  <2> QED
    BY <1>8, <2>2 DEF Narrowed
<1> QED
  BY <1>3, <1>4, <1>9, <1>10, HalfClean

-----------------------------------------------------------------------------
(* The slots whose entry lies above the threshold t in the order that a    *)
(* block sorts to: ascending depths when up, descending ones otherwise.    *)
Above(a, t, up) == {s \in Slot : IF up THEN a[s].depth > t ELSE a[s].depth <= t}

LEMMA ExchangeHalves ==
  ASSUME NEW a \in [Slot -> Entry], NEW t \in Int, NEW n \in Nat \ {0}, NEW w \in Nat \ {0},
         NEW q \in Nat, NEW c \in Nat, PairBlock(n, w, q, c)
  PROVE  Halves(Above(a, t, q % 2 = 0), Above(Exchange(a, w, n), t, q % 2 = 0), c, n)
<1> SUFFICES ASSUME NEW r \in 0 .. n - 1
             PROVE  /\ c + r \in Above(Exchange(a, w, n), t, q % 2 = 0)
                         <=> /\ c + r \in Above(a, t, q % 2 = 0)
                             /\ c + r + n \in Above(a, t, q % 2 = 0)
                    /\ c + r + n \in Above(Exchange(a, w, n), t, q % 2 = 0)
                         <=> \/ c + r \in Above(a, t, q % 2 = 0)
                             \/ c + r + n \in Above(a, t, q % 2 = 0)
  BY DEF Halves
<1> DEFINE low  == c + r
           high == c + r + n
           b    == Exchange(a, w, n)
           swap == IF q % 2 = 0 THEN a[low].depth > a[high].depth
                                ELSE a[low].depth < a[high].depth
<1>1. /\ low \in Slot /\ high \in Slot
      /\ b[low]  = IF swap THEN a[high] ELSE a[low]
      /\ b[high] = IF swap THEN a[low] ELSE a[high]
  BY ExchangePair
<1>2. a[low].depth \in Int /\ a[high].depth \in Int
  BY <1>1 DEF Entry
<1> HIDE DEF low, high, b
<1>3. CASE q % 2 = 0
  <2>1. /\ b[low]  = IF a[low].depth > a[high].depth THEN a[high] ELSE a[low]
        /\ b[high] = IF a[low].depth > a[high].depth THEN a[low] ELSE a[high]
    BY <1>1, <1>3
  <2>2. /\ b[low].depth > t <=> a[low].depth > t /\ a[high].depth > t
        /\ b[high].depth > t <=> a[low].depth > t \/ a[high].depth > t
    BY <1>2, <2>1
  <2> QED
    BY <1>1, <1>3, <2>2 DEF Above, low, high, b
<1>4. CASE ~(q % 2 = 0)
  <2>1. /\ b[low]  = IF a[low].depth < a[high].depth THEN a[high] ELSE a[low]
        /\ b[high] = IF a[low].depth < a[high].depth THEN a[low] ELSE a[high]
    BY <1>1, <1>4
  <2>2. /\ b[low].depth <= t <=> a[low].depth <= t /\ a[high].depth <= t
        /\ b[high].depth <= t <=> a[low].depth <= t \/ a[high].depth <= t
    BY <1>2, <2>1
  <2> QED
    BY <1>1, <1>4, <2>2 DEF Above, low, high, b
<1> QED
  BY <1>3, <1>4

-----------------------------------------------------------------------------
(* A network only moves the entries.                                       *)
Permutes(a, b) ==
  \E f, g \in [Slot -> Slot] : /\ \A s \in Slot : g[f[s]] = s /\ f[g[s]] = s
                               /\ \A s \in Slot : b[s] = a[f[s]]

LEMMA PermutesSame ==
  ASSUME NEW a
  PROVE  Permutes(a, a)
<1> DEFINE id == [s \in Slot |-> s]
<1>1. id \in [Slot -> Slot] /\ \A s \in Slot : id[s] = s
  OBVIOUS
<1> HIDE DEF id
<1> QED
  BY <1>1 DEF Permutes

LEMMA PermutesTwice ==
  ASSUME NEW a, NEW b, NEW c, Permutes(a, b), Permutes(b, c)
  PROVE  Permutes(a, c)
<1>1. PICK f \in [Slot -> Slot], g \in [Slot -> Slot] :
        /\ \A s \in Slot : g[f[s]] = s /\ f[g[s]] = s
        /\ \A s \in Slot : b[s] = a[f[s]]
  BY DEF Permutes
<1>2. PICK h \in [Slot -> Slot], k \in [Slot -> Slot] :
        /\ \A s \in Slot : k[h[s]] = s /\ h[k[s]] = s
        /\ \A s \in Slot : c[s] = b[h[s]]
  BY DEF Permutes
<1> DEFINE fh == [s \in Slot |-> f[h[s]]]
           kg == [s \in Slot |-> k[g[s]]]
<1>3. fh \in [Slot -> Slot] /\ kg \in [Slot -> Slot]
  OBVIOUS
<1>4. \A s \in Slot : kg[fh[s]] = s /\ fh[kg[s]] = s /\ c[s] = a[fh[s]]
  BY <1>1, <1>2
<1> HIDE DEF fh, kg
<1> QED
  BY ONLY <1>3, <1>4, Zenon DEF Permutes

LEMMA PartnerOfSlot ==
  ASSUME NEW j \in Nat, NEW k \in Nat, j < k, k <= LogCap, NEW s \in Slot
  PROVE  LET n == Pow2[j]
         IN  /\ Partner(s, n) \in Slot
             /\ Partner(Partner(s, n), n) = s
             /\ Partner(s, n) # s
<1>1. PICK n \in Nat \ {0} : n = Pow2[j]
  BY Pow2Defined
<1>2. PICK c \in Nat, q \in Nat, r \in 0 .. n - 1 :
        PairBlock(n, Pow2[k], q, c) /\ (s = c + r \/ s = c + r + n)
  BY <1>1, SlotPlace
<1>3. PICK m \in Nat : c = m * (2 * n)
  BY <1>2 DEF PairBlock
<1>4. PICK low \in Nat : low = LowSlot(m, n, r) /\ low + n < Cap /\ (s = low \/ s = low + n)
  <2>1. c + r \in Nat /\ c + r + n < Cap
    BY <1>2, CapFacts DEF PairBlock
  <2> QED
    BY <1>2, <1>3, <2>1 DEF LowSlot
<1>5. Partner(low, n) = low + n /\ Partner(low + n, n) = low
  BY <1>4, PartnerFacts
<1>6. low \in Slot /\ low + n \in Slot /\ low # low + n
  BY <1>4, CapFacts DEF Slot
<1> QED
  BY <1>1, <1>4, <1>5, <1>6

LEMMA ExchangePermutes ==
  ASSUME NEW a \in [Slot -> Entry], NEW j \in Nat, NEW k \in Nat, j < k, k <= LogCap
  PROVE  /\ Exchange(a, Pow2[k], Pow2[j]) \in [Slot -> Entry]
         /\ Permutes(a, Exchange(a, Pow2[k], Pow2[j]))
<1> DEFINE n == Pow2[j]
           w == Pow2[k]
           b == Exchange(a, w, n)
           P(s) == Partner(s, n)
           low(s)  == IF s < P(s) THEN s ELSE P(s)
           high(s) == IF s < P(s) THEN P(s) ELSE s
           swap(s) == IF (low(s) \div w) % 2 = 0 THEN a[low(s)].depth > a[high(s)].depth
                                                 ELSE a[low(s)].depth < a[high(s)].depth
           f == [s \in Slot |-> IF swap(s) THEN P(s) ELSE s]
<1>1. \A s \in Slot : P(s) \in Slot /\ P(P(s)) = s /\ P(s) # s
  BY PartnerOfSlot
<1>2. \A s \in Slot : s \in Int
  BY CapFacts DEF Slot
<1>3. \A s \in Slot : b[s] = IF swap(s) THEN a[P(s)] ELSE a[s]
  BY DEF Exchange
<1>4. b = [s \in Slot |-> IF swap(s) THEN a[P(s)] ELSE a[s]]
  BY DEF Exchange
<1> HIDE DEF P, b, n, w
<1>5. \A s \in Slot : low(P(s)) = low(s) /\ high(P(s)) = high(s)
  BY <1>1, <1>2
<1>6. \A s \in Slot : swap(P(s)) <=> swap(s)
  BY <1>5
<1> HIDE DEF swap
<1>7. f \in [Slot -> Slot]
  BY <1>1
<1>8. \A s \in Slot : f[f[s]] = s
  BY <1>1, <1>6
<1>9. \A s \in Slot : b[s] = a[f[s]]
  BY <1>3
<1>10. b \in [Slot -> Entry]
  BY <1>1, <1>4
<1> HIDE DEF f
<1>11. Permutes(a, b)
  BY <1>7, <1>8, <1>9 DEF Permutes
<1> QED
  BY <1>10, <1>11 DEF b, n, w

-----------------------------------------------------------------------------
Buffers == [Slot -> Entry]

LEMMA MergeRun ==
  ASSUME NEW a \in Buffers, NEW k \in Nat, k <= LogCap
  PROVE  \E g \in [0 .. k -> Buffers] :
           /\ g[0] = a
           /\ \A i \in 0 .. k - 1 : g[i + 1] = Exchange(g[i], Pow2[k], Pow2[k - (i + 1)])
           /\ Merge(a, k) = g[k]
<1> DEFINE F == [z \in Nat \X Buffers |->
                   IF z[1] < k THEN Exchange(z[2], Pow2[k], Pow2[k - (z[1] + 1)]) ELSE z[2]]
           body(f) == [r \in 0 .. k |->
                         IF r = 0 THEN a ELSE Exchange(f[r - 1], Pow2[k], Pow2[k - r])]
           h == CHOOSE f : f = body(f)
<1>1. \A i \in 0 .. k - 1, b \in Buffers : Exchange(b, Pow2[k], Pow2[k - (i + 1)]) \in Buffers
  <2> TAKE i \in 0 .. k - 1, b \in Buffers
  <2>1. k - (i + 1) \in Nat /\ k - (i + 1) < k
    OBVIOUS
  <2> QED
    BY <2>1, ExchangePermutes DEF Buffers
<1>2. F \in [Nat \X Buffers -> Buffers]
  <2>1. ASSUME NEW z \in Nat \X Buffers
        PROVE  (IF z[1] < k THEN Exchange(z[2], Pow2[k], Pow2[k - (z[1] + 1)]) ELSE z[2]) \in Buffers
    <3>1. z[1] \in Nat /\ z[2] \in Buffers
      OBVIOUS
    <3>2. CASE z[1] < k
      <4>1. z[1] \in 0 .. k - 1
        BY <3>1, <3>2
      <4> QED
        BY <1>1, <3>1, <3>2, <4>1
    <3> QED
      BY <3>1, <3>2
  <2> QED
    BY <2>1
<1>3. PICK g \in [0 .. k -> Buffers] : g[0] = a /\ \A i \in 0 .. k - 1 : g[i + 1] = F[<<i, g[i]>>]
  <2> HIDE DEF F
  <2>1. Runs(a, F, Buffers, k) # {}
    BY <1>2, RunExists
  <2> QED
    BY <2>1 DEF Runs
<1>4. \A i \in 0 .. k - 1 : g[i + 1] = Exchange(g[i], Pow2[k], Pow2[k - (i + 1)])
  <2> TAKE i \in 0 .. k - 1
  <2>1. i \in Nat /\ i < k /\ i \in 0 .. k
    OBVIOUS
  <2>2. g[i] \in Buffers
    BY <2>1
  <2>3. F[<<i, g[i]>>] = Exchange(g[i], Pow2[k], Pow2[k - (i + 1)])
    BY <2>1, <2>2
  <2> QED
    BY <1>3, <2>3
<1> HIDE DEF F
<1>5. g = body(g)
  <2>1. \A r \in 0 .. k : g[r] = IF r = 0 THEN a ELSE Exchange(g[r - 1], Pow2[k], Pow2[k - r])
    <3> TAKE r \in 0 .. k
    <3>1. CASE r = 0
      BY <1>3, <3>1
    <3>2. CASE r # 0
      <4>1. r - 1 \in 0 .. k - 1 /\ (r - 1) + 1 = r
        BY <3>2
      <4> QED
        BY <1>4, <3>2, <4>1
    <3> QED
      BY <3>1, <3>2
  <2> QED
    BY <2>1
<1>6. h = body(h)
  BY <1>5
<1>7. Merge(a, k) = h[k]
  BY DEF Merge
<1> HIDE DEF h
<1>8. \A r \in 0 .. k : h[r] = IF r = 0 THEN a ELSE Exchange(h[r - 1], Pow2[k], Pow2[k - r])
  BY <1>6
<1> DEFINE D == {i \in Nat : i <= k => h[i] = g[i]}
<1>9. 0 \in D
  BY <1>3, <1>8
<1>10. ASSUME NEW i \in D PROVE i + 1 \in D
  <2>1. i + 1 \in Nat
    OBVIOUS
  <2>2. ASSUME i + 1 <= k PROVE h[i + 1] = g[i + 1]
    <3>1. i \in 0 .. k - 1 /\ i + 1 \in 0 .. k /\ i + 1 # 0 /\ (i + 1) - 1 = i /\ h[i] = g[i]
      BY <2>2
    <3> QED
      BY <1>4, <1>8, <3>1
  <2> QED
    BY <2>1, <2>2
<1>11. D = Nat
  <2> HIDE DEF D
  <2>1. D \in SUBSET Nat
    BY DEF D
  <2> QED
    BY <1>9, <1>10, <2>1, Induct
<1>12. Merge(a, k) = g[k]
  BY <1>7, <1>11
<1> QED
  BY <1>3, <1>4, <1>12

(* The block of w slots from B is sorted: H is its upper end.              *)
SortedBlock(H, B, w) == \E p \in Nat : \A s \in B .. B + w - 1 : s \in H <=> s >= p

LEMMA NarrowedToOne ==
  ASSUME NEW H, NEW B \in Nat, NEW w \in Nat \ {0}, Narrowed(H, B, w, 1)
  PROVE  SortedBlock(H, B, w)
<1>1. PICK m \in Nat : NarrowedTo(H, B, w, 1, m)
  <2>1. \A m \in Nat : m * 1 = m
    OBVIOUS
  <2> QED
    BY <2>1 DEF Narrowed
<1>2. (\A s \in B .. m - 1 : s \notin H) /\ (\A s \in m + 1 .. B + w - 1 : s \in H)
  BY <1>1 DEF NarrowedTo
<1>3. CASE m \in H
  <2>1. \A s \in B .. B + w - 1 : s \in H <=> s >= m
    BY <1>2, <1>3
  <2> QED
    BY <2>1 DEF SortedBlock
<1>4. CASE m \notin H
  <2>1. \A s \in B .. B + w - 1 : s \in H <=> s >= m + 1
    BY <1>2, <1>4
  <2> QED
    BY <2>1 DEF SortedBlock
<1> QED
  BY <1>3, <1>4

(* Every block of w slots is sorted, the even ones upward.                 *)
BlocksSorted(a, w) ==
  \A q \in Nat, t \in Int :
    q * w + w <= Cap => SortedBlock(Above(a, t, q % 2 = 0), q * w, w)

BlocksBitonic(a, w) ==
  \A q \in Nat, t \in Int :
    q * w + w <= Cap => Bitonic(Above(a, t, q % 2 = 0), q * w, q * w + w)

LEMMA MergeSorts ==
  ASSUME NEW a \in Buffers, NEW k \in Nat, k <= LogCap, BlocksBitonic(a, Pow2[k])
  PROVE  Merge(a, k) \in Buffers /\ Permutes(a, Merge(a, k)) /\ BlocksSorted(Merge(a, k), Pow2[k])
<1>1. PICK w \in Nat \ {0} : w = Pow2[k]
  BY Pow2Defined
<1>2. PICK g \in [0 .. k -> Buffers] :
        /\ g[0] = a
        /\ \A i \in 0 .. k - 1 : g[i + 1] = Exchange(g[i], Pow2[k], Pow2[k - (i + 1)])
        /\ Merge(a, k) = g[k]
  BY MergeRun
<1> DEFINE D == {i \in Nat : i <= k => Permutes(a, g[i])}
<1>3. D = Nat
  <2>1. 0 \in D
    BY <1>2, PermutesSame
  <2>2. ASSUME NEW i \in D PROVE i + 1 \in D
    <3>1. ASSUME i + 1 <= k PROVE Permutes(a, g[i + 1])
      <4>1. i \in 0 .. k - 1 /\ i \in 0 .. k /\ k - (i + 1) \in Nat /\ k - (i + 1) < k
        BY <3>1
      <4>2. Permutes(a, g[i]) /\ g[i] \in Buffers
        BY <4>1
      <4>3. Permutes(g[i], g[i + 1])
        <5>1. PICK j \in Nat : j = k - (i + 1) /\ j < k
          BY <4>1
        <5>2. g[i + 1] = Exchange(g[i], Pow2[k], Pow2[j])
          BY <1>2, <4>1, <5>1
        <5> QED
          BY <4>2, <5>1, <5>2, ExchangePermutes DEF Buffers
      <4> QED
        BY <4>2, <4>3, PermutesTwice
    <3> QED
      BY <3>1
  <2>3. D \in SUBSET Nat
    OBVIOUS
  <2> HIDE DEF D
  <2> QED
    BY <2>1, <2>2, <2>3, Induct
<1>4. ASSUME NEW q \in Nat, NEW t \in Int, q * w + w <= Cap
      PROVE  SortedBlock(Above(Merge(a, k), t, q % 2 = 0), q * w, w)
  <2> DEFINE A(i) == Above(g[i], t, q % 2 = 0)
             E == {i \in Nat : i <= k => Narrowed(A(i), q * w, w, Pow2[k - i])}
  <2>0. PICK B \in Nat : B = q * w
    OBVIOUS
  <2>1. 0 \in E
    <3>1. Bitonic(A(0), B, B + w)
      BY <1>1, <1>2, <1>4, <2>0 DEF BlocksBitonic
    <3>2. NarrowedTo(A(0), B, w, w, B)
      BY <3>1 DEF NarrowedTo
    <3>3. Narrowed(A(0), B, w, w)
      BY <2>0, <3>2 DEF Narrowed
    <3>4. k - 0 = k
      OBVIOUS
    <3> QED
      BY <1>1, <2>0, <3>3, <3>4
  <2>2. ASSUME NEW i \in E PROVE i + 1 \in E
    <3> SUFFICES ASSUME i + 1 <= k PROVE Narrowed(A(i + 1), B, w, Pow2[k - (i + 1)])
      BY <2>0
    <3>1. i \in 0 .. k - 1 /\ i \in 0 .. k /\ k - (i + 1) \in Nat /\ k - (i + 1) < k
          /\ (k - (i + 1)) + 1 = k - i
      OBVIOUS
    <3>2. PICK j \in Nat : j = k - (i + 1)
      BY <3>1
    <3>3. PICK n \in Nat \ {0} : n = Pow2[j]
      BY Pow2Defined
    <3>4. Pow2[k - i] = 2 * n
      BY <3>1, <3>2, <3>3, Pow2Defined
    <3>5. PICK e \in Nat \ {0} : w = e * (2 * n)
      <4>1. PICK d \in Nat : d = i
        BY <3>1
      <4>2. k - i \in Nat /\ d + (k - i) = k
        BY <3>1, <4>1
      <4>3. PICK l \in Nat : l = k - i
        BY <4>2
      <4>4. Pow2[d + l] = Pow2[d] * Pow2[l]
        BY Pow2Sum
      <4>5. w = Pow2[d] * (2 * n) /\ Pow2[d] \in Nat \ {0}
        BY <1>1, <3>4, <4>2, <4>3, <4>4, Pow2Defined
      <4> QED
        BY <4>5
    <3>6. PICK b \in Nat : b = q * e
      OBVIOUS
    <3>7. B = b * (2 * n)
      BY <2>0, <3>5, <3>6, Z3
    <3>8. ASSUME NEW m \in Nat, B <= m * (2 * n), m * (2 * n) + 2 * n <= B + w
          PROVE  Halves(A(i), A(i + 1), m * (2 * n), n)
      <4>1. PICK c \in Nat : c = m * (2 * n)
        OBVIOUS
      <4>2. PairBlock(n, w, q, c)
        <5>1. c + 2 * n <= Cap
          BY <1>4, <2>0, <3>8, <4>1, CapFacts
        <5> QED
          BY <2>0, <3>8, <4>1, <5>1 DEF PairBlock
      <4>3. g[i] \in [Slot -> Entry] /\ g[i + 1] = Exchange(g[i], w, n)
        BY <1>1, <1>2, <3>1, <3>2, <3>3 DEF Buffers
      <4> QED
        BY <4>1, <4>2, <4>3, ExchangeHalves
    <3>9. Narrowed(A(i), B, w, 2 * n)
      BY <2>0, <3>1, <3>4
    <3> HIDE DEF A
    <3>10. Narrowed(A(i + 1), B, w, n)
      BY <3>5, <3>7, <3>8, <3>9, RoundNarrows
    <3> QED
      BY <3>2, <3>3, <3>10
  <2>3. E \in SUBSET Nat
    OBVIOUS
  <2>4. E = Nat
    <3> HIDE DEF E
    <3> QED
      BY <2>1, <2>2, <2>3, Induct
  <2>5. Narrowed(A(k), B, w, Pow2[k - k])
    BY <2>0, <2>4
  <2>6. k - k = 0 /\ Pow2[0] = 1
    BY Pow2Defined
  <2>7. Narrowed(A(k), B, w, 1)
    BY <2>5, <2>6
  <2> QED
    BY <1>2, <2>0, <2>7, NarrowedToOne
<1>5. Permutes(a, g[k]) /\ g[k] \in Buffers
  BY <1>3
<1> QED
  BY <1>1, <1>2, <1>4, <1>5 DEF BlocksSorted

(* Two sorted blocks, the second one the other way, are bitonic.           *)
LEMMA SortedPairs ==
  ASSUME NEW a \in Buffers, NEW w \in Nat \ {0}, BlocksSorted(a, w)
  PROVE  BlocksBitonic(a, 2 * w)
<1> SUFFICES ASSUME NEW q \in Nat, NEW t \in Int, q * (2 * w) + 2 * w <= Cap
             PROVE  Bitonic(Above(a, t, q % 2 = 0), q * (2 * w), q * (2 * w) + 2 * w)
  BY DEF BlocksBitonic
<1>1. PICK B \in Nat : B = q * (2 * w)
  OBVIOUS
<1>2. B = (2 * q) * w /\ B + w = (2 * q + 1) * w /\ 2 * q \in Nat /\ 2 * q + 1 \in Nat
  BY <1>1, Z3
<1>3. (2 * q) % 2 = 0 /\ (2 * q + 1) % 2 # 0
  OBVIOUS
<1>4. B + 2 * w <= Cap /\ B + w + w <= Cap /\ B + w <= Cap
  BY <1>1, CapFacts
<1>5. SortedBlock(Above(a, t, TRUE), B, w)
  <2>1. SortedBlock(Above(a, t, (2 * q) % 2 = 0), (2 * q) * w, w)
    BY <1>2, <1>4 DEF BlocksSorted
  <2> QED
    BY <1>2, <1>3, <2>1
<1>6. SortedBlock(Above(a, t, FALSE), B + w, w)
  <2>1. SortedBlock(Above(a, t, (2 * q + 1) % 2 = 0), (2 * q + 1) * w, w)
    BY <1>2, <1>4 DEF BlocksSorted
  <2> QED
    BY <1>2, <1>3, <2>1
<1>7. PICK p1 \in Nat : \A s \in B .. B + w - 1 : s \in Above(a, t, TRUE) <=> s >= p1
  BY <1>5 DEF SortedBlock
<1>8. PICK p2 \in Nat : \A s \in B + w .. (B + w) + w - 1 : s \in Above(a, t, FALSE) <=> s >= p2
  BY <1>6 DEF SortedBlock
<1>9. \A s \in Slot : s \in Above(a, t, TRUE) <=> s \notin Above(a, t, FALSE)
  BY DEF Above, Buffers, Entry
<1>10. \A s \in B .. (B + 2 * w) - 1 : s \in Slot
  BY <1>4, CapFacts DEF Slot
<1>11. PICK lo \in Nat, hi \in Nat :
         /\ B <= lo /\ lo <= B + w /\ B + w <= hi /\ hi <= B + 2 * w
         /\ \A s \in B .. B + w - 1 : s >= p1 <=> s >= lo
         /\ \A s \in B + w .. (B + w) + w - 1 : s >= p2 <=> s >= hi
  <2> DEFINE lo == IF p1 < B THEN B ELSE IF p1 > B + w THEN B + w ELSE p1
             hi == IF p2 < B + w THEN B + w ELSE IF p2 > B + 2 * w THEN B + 2 * w ELSE p2
  <2>1. lo \in Nat /\ hi \in Nat /\ B <= lo /\ lo <= B + w /\ B + w <= hi /\ hi <= B + 2 * w
    OBVIOUS
  <2>2. \A s \in B .. B + w - 1 : s >= p1 <=> s >= lo
    OBVIOUS
  <2>3. \A s \in B + w .. (B + w) + w - 1 : s >= p2 <=> s >= hi
    OBVIOUS
  <2> HIDE DEF lo, hi
  <2> QED
    BY <2>1, <2>2, <2>3
<1>14. \A s \in B .. (B + 2 * w) - 1 : s \in Above(a, t, TRUE) <=> lo <= s /\ s < hi
  <2> TAKE s \in B .. (B + 2 * w) - 1
  <2>1. CASE s < B + w
    <3>1. s \in B .. B + w - 1
      BY <2>1
    <3>2. s \in Above(a, t, TRUE) <=> s >= p1
      BY <1>7, <3>1
    <3>3. s >= p1 <=> s >= lo
      BY <1>11, <3>1
    <3>4. (s >= lo <=> lo <= s) /\ s < hi
      BY <1>11, <2>1
    <3> QED
      BY <3>2, <3>3, <3>4, Zenon
  <2>2. CASE ~(s < B + w)
    <3>1. s \in B + w .. (B + w) + w - 1
      BY <2>2
    <3>2. s \in Above(a, t, FALSE) <=> s >= p2
      BY <1>8, <3>1
    <3>3. s >= p2 <=> s >= hi
      BY <1>11, <3>1
    <3>4. (~(s >= hi) <=> s < hi) /\ lo <= s
      BY <1>11, <2>2
    <3>5. s \in Above(a, t, TRUE) <=> s \notin Above(a, t, FALSE)
      BY <1>9, <1>10
    <3> QED
      BY <3>2, <3>3, <3>4, <3>5, Zenon
  <2> QED
    BY <2>1, <2>2
<1>15. \A s \in B .. (B + 2 * w) - 1 : s \in Above(a, t, FALSE) <=> ~(lo <= s /\ s < hi)
  BY <1>9, <1>10, <1>14
<1>16. Bitonic(Above(a, t, TRUE), B, B + 2 * w) /\ Bitonic(Above(a, t, FALSE), B, B + 2 * w)
  <2>1. lo <= hi
    BY <1>11
  <2>2. Interval(Above(a, t, TRUE), B, B + 2 * w, lo, hi)
    BY <1>14, Zenon DEF Interval
  <2>3. Exception(Above(a, t, FALSE), B, B + 2 * w, lo, hi)
    BY <1>15, Zenon DEF Exception
  <2> QED
    BY <1>11, <2>1, <2>2, <2>3 DEF Bitonic
<1>17. (q % 2 = 0) = TRUE \/ (q % 2 = 0) = FALSE
  OBVIOUS
<1> QED
  BY <1>1, <1>16, <1>17

Sorted(a) == \A s, u \in Slot : s <= u => a[s].depth <= a[u].depth

(* bitonic_sort_descending sorts: it moves the entries of the buffer, and  *)
(* leaves them with the smallest depth, the largest logit, first.          *)
THEOREM BitonicSortSorts ==
  ASSUME NEW a \in Buffers
  PROVE  BitonicSort(a) \in Buffers /\ Permutes(a, BitonicSort(a)) /\ Sorted(BitonicSort(a))
<1> DEFINE F == [z \in Nat \X Buffers |-> IF z[1] + 1 <= LogCap THEN Merge(z[2], z[1] + 1) ELSE z[2]]
           body(f) == [k \in 0 .. LogCap |-> IF k = 0 THEN a ELSE Merge(f[k - 1], k)]
           h == CHOOSE f : f = body(f)
<1>0. LogCap \in Nat
  BY SamplingAssumption
<1>1. \A b \in Buffers, k \in Nat : k <= LogCap => Merge(b, k) \in Buffers
  BY MergeRun
<1>2. F \in [Nat \X Buffers -> Buffers]
  <2>1. ASSUME NEW z \in Nat \X Buffers
        PROVE  (IF z[1] + 1 <= LogCap THEN Merge(z[2], z[1] + 1) ELSE z[2]) \in Buffers
    <3>1. z[1] + 1 \in Nat /\ z[2] \in Buffers
      OBVIOUS
    <3> QED
      BY <1>1, <3>1
  <2> QED
    BY <2>1
<1>3. PICK g \in [0 .. LogCap -> Buffers] :
        g[0] = a /\ \A i \in 0 .. LogCap - 1 : g[i + 1] = F[<<i, g[i]>>]
  <2> HIDE DEF F
  <2>1. Runs(a, F, Buffers, LogCap) # {}
    BY <1>0, <1>2, RunExists
  <2> QED
    BY <2>1 DEF Runs
<1>4. \A i \in 0 .. LogCap - 1 : g[i + 1] = Merge(g[i], i + 1)
  <2> TAKE i \in 0 .. LogCap - 1
  <2>1. i \in Nat /\ i + 1 <= LogCap /\ i \in 0 .. LogCap
    BY <1>0
  <2>2. g[i] \in Buffers
    BY <2>1
  <2>3. F[<<i, g[i]>>] = Merge(g[i], i + 1)
    BY <2>1, <2>2
  <2> QED
    BY <1>3, <2>3
<1> HIDE DEF F
<1>5. g = body(g)
  <2>1. \A r \in 0 .. LogCap : g[r] = IF r = 0 THEN a ELSE Merge(g[r - 1], r)
    <3> TAKE r \in 0 .. LogCap
    <3>1. CASE r = 0
      BY <1>3, <3>1
    <3>2. CASE r # 0
      <4>1. r - 1 \in 0 .. LogCap - 1 /\ (r - 1) + 1 = r
        BY <1>0, <3>2
      <4> QED
        BY <1>4, <3>2, <4>1
    <3> QED
      BY <3>1, <3>2
  <2> QED
    BY <2>1
<1>6. h = body(h)
  BY <1>5
<1>7. BitonicSort(a) = h[LogCap]
  BY DEF BitonicSort
<1> HIDE DEF h
<1>8. \A k \in 0 .. LogCap : h[k] = IF k = 0 THEN a ELSE Merge(h[k - 1], k)
  BY <1>6
<1> DEFINE Good(b, k) == b \in Buffers /\ Permutes(a, b) /\ BlocksSorted(b, Pow2[k])
           D == {k \in Nat : k <= LogCap => Good(h[k], k)}
<1>9. 0 \in D
  <2>1. h[0] = a
    BY <1>0, <1>8
  <2>2. BlocksSorted(a, 1)
    <3>1. ASSUME NEW q \in Nat, NEW t \in Int
          PROVE  SortedBlock(Above(a, t, q % 2 = 0), q * 1, 1)
      <4>1. q * 1 = q /\ \A s \in q .. q + 1 - 1 : s = q
        OBVIOUS
      <4>2. CASE q \in Above(a, t, q % 2 = 0)
        <5>1. \A s \in q .. q + 1 - 1 : s \in Above(a, t, q % 2 = 0) <=> s >= q
          BY <4>1, <4>2
        <5> QED
          BY <4>1, <5>1 DEF SortedBlock
      <4>3. CASE q \notin Above(a, t, q % 2 = 0)
        <5>1. \A s \in q .. q + 1 - 1 : s \in Above(a, t, q % 2 = 0) <=> s >= q + 1
          BY <4>1, <4>3
        <5> QED
          BY <4>1, <5>1 DEF SortedBlock
      <4> QED
        BY <4>2, <4>3
    <3> QED
      BY <3>1 DEF BlocksSorted
  <2>3. Pow2[0] = 1
    BY Pow2Defined
  <2> QED
    BY <2>1, <2>2, <2>3, PermutesSame
<1>10. ASSUME NEW k \in D PROVE k + 1 \in D
  <2> SUFFICES ASSUME k + 1 <= LogCap PROVE Good(h[k + 1], k + 1)
    OBVIOUS
  <2>1. k \in Nat /\ k <= LogCap /\ k + 1 \in 0 .. LogCap /\ k + 1 # 0 /\ (k + 1) - 1 = k /\ k + 1 \in Nat
    BY <1>0
  <2>2. h[k] \in Buffers /\ Permutes(a, h[k]) /\ BlocksSorted(h[k], Pow2[k])
    BY <2>1
  <2>3. h[k + 1] = Merge(h[k], k + 1)
    BY <1>8, <2>1
  <2> HIDE DEF D
  <2>4. Pow2[k] \in Nat \ {0} /\ Pow2[k + 1] = 2 * Pow2[k]
    BY <2>1, Pow2Defined
  <2>5. BlocksBitonic(h[k], Pow2[k + 1])
    BY <2>2, <2>4, SortedPairs
  <2>6. /\ Merge(h[k], k + 1) \in Buffers
        /\ Permutes(h[k], Merge(h[k], k + 1))
        /\ BlocksSorted(Merge(h[k], k + 1), Pow2[k + 1])
    BY <2>1, <2>2, <2>5, MergeSorts
  <2> QED
    BY <2>2, <2>3, <2>6, PermutesTwice
<1>11. D = Nat
  <2> HIDE DEF D
  <2>1. D \in SUBSET Nat
    BY DEF D
  <2> QED
    BY <1>9, <1>10, <2>1, Induct
<1>12. PICK b \in Buffers : b = BitonicSort(a) /\ Permutes(a, b) /\ BlocksSorted(b, Cap)
  <2>1. Good(h[LogCap], LogCap)
    BY <1>0, <1>11
  <2> QED
    BY <1>7, <2>1, CapFacts
<1>13. ASSUME NEW s \in Slot, NEW u \in Slot, s <= u PROVE b[s].depth <= b[u].depth
  <2>1. \A v \in Slot : b[v].depth \in Int /\ v \in 0 .. 0 + Cap - 1
    BY CapFacts DEF Buffers, Entry, Slot
  <2>2. PICK t \in Int : t = b[u].depth
    BY <2>1
  <2>3. 0 * Cap = 0 /\ 0 * Cap + Cap <= Cap /\ 0 % 2 = 0
    BY CapFacts
  <2>4. SortedBlock(Above(b, t, TRUE), 0, Cap)
    <3>1. SortedBlock(Above(b, t, 0 % 2 = 0), 0 * Cap, Cap)
      BY <1>12, <2>3 DEF BlocksSorted
    <3> QED
      BY <2>3, <3>1
  <2>5. PICK p \in Nat : \A v \in 0 .. 0 + Cap - 1 : v \in Above(b, t, TRUE) <=> v >= p
    BY <2>4 DEF SortedBlock
  <2>6. u \notin Above(b, t, TRUE)
    BY <2>1, <2>2 DEF Above
  <2>7. s \in Nat /\ u \in Nat
    BY CapFacts DEF Slot
  <2>8. ~(u >= p)
    BY <2>1, <2>5, <2>6
  <2>9. ~(s >= p)
    BY <1>13, <2>7, <2>8
  <2>10. s \notin Above(b, t, TRUE)
    BY <2>1, <2>5, <2>9
  <2> QED
    BY <2>1, <2>2, <2>10 DEF Above
<1> QED
  BY <1>12, <1>13 DEF Sorted

-----------------------------------------------------------------------------
(***************************************************************************)
(* The walk.  What it keeps and picks depends on the beginning of the list *)
(* only, if it stops there; the sorted buffer is the beginning of the      *)
(* sorted vocabulary, because the cutoff admits whole bins.                *)
(***************************************************************************)
LEMMA LeastFacts ==
  ASSUME NEW S \in SUBSET Nat, S # {}
  PROVE  Least(S) \in S /\ \A y \in S : Least(S) <= y
BY LeastNat DEF Least

LEMMA LeastIs ==
  ASSUME NEW S \in SUBSET Nat, NEW x \in S, \A y \in S : x <= y
  PROVE  Least(S) = x
<1>1. Least(S) \in S /\ \A y \in S : Least(S) <= y
  BY LeastFacts
<1>2. Least(S) \in Nat /\ x \in Nat /\ Least(S) <= x /\ x <= Least(S)
  BY <1>1
<1> QED
  BY <1>2

(* A bounded set of naturals with everything below each of its members.    *)
LEMMA InitialSegment ==
  ASSUME NEW D \in SUBSET Nat, NEW n \in Nat, \A y \in D : y < n,
         \A y \in D : \A x \in Nat : x <= y => x \in D
  PROVE  /\ IsFiniteSet(D) /\ Cardinality(D) \in Nat
         /\ D = 0 .. Cardinality(D) - 1
<1>1. CASE D = {}
  <2>1. Cardinality(D) = 0 /\ IsFiniteSet(D)
    BY <1>1, FS_EmptySet
  <2>2. 0 .. 0 - 1 = {}
    OBVIOUS
  <2> QED
    BY <1>1, <2>1, <2>2
<1>2. CASE D # {}
  <2>1. PICK m \in D : \A y \in D : y <= m
    <3>1. \A y \in D : y <= n
      OBVIOUS
    <3> QED
      BY <1>2, <3>1, GreatestNat
  <2>2. D = 0 .. m
    <3>1. ASSUME NEW x \in D PROVE x \in 0 .. m
      BY <2>1
    <3>2. ASSUME NEW x \in 0 .. m PROVE x \in D
      <4>1. x \in Nat /\ x <= m
        OBVIOUS
      <4> QED
        BY <4>1
    <3> QED
      BY <3>1, <3>2
  <2>3. m \in Nat
    OBVIOUS
  <2>4. IsFiniteSet(D) /\ Cardinality(D) = m + 1
    <3>1. IsFiniteSet(0 .. m) /\ Cardinality(0 .. m) = IF 0 > m THEN 0 ELSE m - 0 + 1
      BY <2>3, FS_Interval
    <3> QED
      BY <2>2, <2>3, <3>1
  <2> QED
    BY <2>2, <2>3, <2>4
<1> QED
  BY <1>1, <1>2

-----------------------------------------------------------------------------
(* The mass of a list of depths.                                           *)
Lists(n) == [1 .. n -> Depths]

LEMMA ListFacts ==
  ASSUME NEW n \in Nat, NEW list \in Lists(n)
  PROVE  Len(list) = n
BY DEF Lists

LEMMA WeightFacts == \A d \in Depths : d \in Nat /\ d < Lowest /\ Weight[d] \in Nat \ {0}
BY SamplingAssumption

LEMMA MassFacts ==
  ASSUME NEW n \in Nat, NEW list \in Lists(n)
  PROVE  /\ MassOf(list) \in [0 .. n -> Nat]
         /\ MassOf(list)[0] = 0
         /\ \A i \in 0 .. n - 1 : MassOf(list)[i + 1] = MassOf(list)[i] + Weight[list[i + 1]]
<1> DEFINE F == [z \in Nat \X Nat |-> IF z[1] < n THEN z[2] + Weight[list[z[1] + 1]] ELSE 0]
           body(f) == [i \in 0 .. n |-> IF i = 0 THEN 0 ELSE f[i - 1] + Weight[list[i]]]
           h == CHOOSE f : f = body(f)
<1>1. \A i \in 1 .. n : Weight[list[i]] \in Nat
  BY WeightFacts DEF Lists
<1>2. F \in [Nat \X Nat -> Nat]
  <2>1. ASSUME NEW z \in Nat \X Nat
        PROVE  (IF z[1] < n THEN z[2] + Weight[list[z[1] + 1]] ELSE 0) \in Nat
    <3>1. CASE z[1] < n
      <4>1. z[1] + 1 \in 1 .. n /\ z[2] \in Nat
        BY <3>1
      <4> QED
        BY <1>1, <3>1, <4>1
    <3> QED
      BY <3>1
  <2> QED
    BY <2>1
<1>3. PICK g \in [0 .. n -> Nat] : g[0] = 0 /\ \A i \in 0 .. n - 1 : g[i + 1] = F[<<i, g[i]>>]
  <2> HIDE DEF F
  <2>1. Runs(0, F, Nat, n) # {}
    BY <1>2, RunExists
  <2> QED
    BY <2>1 DEF Runs
<1>4. \A i \in 0 .. n - 1 : g[i + 1] = g[i] + Weight[list[i + 1]]
  <2> TAKE i \in 0 .. n - 1
  <2>1. i \in Nat /\ i < n /\ g[i] \in Nat
    OBVIOUS
  <2>2. F[<<i, g[i]>>] = g[i] + Weight[list[i + 1]]
    BY <2>1
  <2> QED
    BY <1>3, <2>2
<1> HIDE DEF F
<1>5. g = body(g)
  <2>1. \A r \in 0 .. n : g[r] = IF r = 0 THEN 0 ELSE g[r - 1] + Weight[list[r]]
    <3> TAKE r \in 0 .. n
    <3>1. CASE r = 0
      BY <1>3, <3>1
    <3>2. CASE r # 0
      <4>1. r - 1 \in 0 .. n - 1 /\ (r - 1) + 1 = r
        BY <3>2
      <4> QED
        BY <1>4, <3>2, <4>1
    <3> QED
      BY <3>1, <3>2
  <2> QED
    BY <2>1
<1>6. h = body(h)
  BY <1>5
<1>7. MassOf(list) = h
  BY ListFacts DEF MassOf
<1> HIDE DEF h
<1>8. h = [i \in 0 .. n |-> IF i = 0 THEN 0 ELSE h[i - 1] + Weight[list[i]]]
  BY <1>6
<1> HIDE DEF body
<1>9. \A i \in 0 .. n : h[i] = IF i = 0 THEN 0 ELSE h[i - 1] + Weight[list[i]]
  BY <1>8
<1> DEFINE D == {i \in Nat : i <= n => h[i] = g[i]}
<1>10. 0 \in D
  BY <1>3, <1>9
<1>11. ASSUME NEW i \in D PROVE i + 1 \in D
  <2>1. i + 1 \in Nat
    OBVIOUS
  <2>2. ASSUME i + 1 <= n PROVE h[i + 1] = g[i + 1]
    <3>1. i \in 0 .. n - 1 /\ i + 1 \in 0 .. n /\ i + 1 # 0 /\ (i + 1) - 1 = i /\ h[i] = g[i]
      BY <2>2
    <3> QED
      BY <1>4, <1>9, <3>1
  <2> QED
    BY <2>1, <2>2
<1>12. D = Nat
  <2> HIDE DEF D
  <2>1. D \in SUBSET Nat
    BY DEF D
  <2> QED
    BY <1>10, <1>11, <2>1, Induct
<1>13. \A i \in 0 .. n : h[i] = g[i]
  BY <1>12
<1>14. h = g
  <2>1. h = [i \in 0 .. n |-> h[i]]
    BY <1>8, Zenon
  <2> QED
    BY <1>13, <2>1
<1> QED
  BY <1>3, <1>4, <1>7, <1>14

(* The mass depends on the beginning of the list only.                     *)
LEMMA MassAgrees ==
  ASSUME NEW n \in Nat, NEW m \in Nat, m <= n, NEW long \in Lists(n), NEW short \in Lists(m),
         \A i \in 1 .. m : short[i] = long[i]
  PROVE  \A i \in 0 .. m : MassOf(short)[i] = MassOf(long)[i]
<1> DEFINE D == {i \in Nat : i <= m => MassOf(short)[i] = MassOf(long)[i]}
<1>1. 0 \in D
  BY MassFacts
<1>2. ASSUME NEW i \in D PROVE i + 1 \in D
  <2>1. i + 1 \in Nat
    OBVIOUS
  <2>2. ASSUME i + 1 <= m PROVE MassOf(short)[i + 1] = MassOf(long)[i + 1]
    <3>1. i \in 0 .. m - 1 /\ i \in 0 .. n - 1 /\ i + 1 \in 1 .. m
      BY <2>2
    <3>2. MassOf(short)[i] = MassOf(long)[i] /\ short[i + 1] = long[i + 1]
      BY <3>1
    <3>3. MassOf(short)[i + 1] = MassOf(short)[i] + Weight[short[i + 1]]
      BY <3>1, MassFacts
    <3>4. MassOf(long)[i + 1] = MassOf(long)[i] + Weight[long[i + 1]]
      BY <3>1, MassFacts
    <3> QED
      BY <3>2, <3>3, <3>4
  <2> QED
    BY <2>1, <2>2
<1>3. D = Nat
  <2> HIDE DEF D
  <2>1. D \in SUBSET Nat
    BY DEF D
  <2> QED
    BY <1>1, <1>2, <2>1, Induct
<1> QED
  BY <1>3

-----------------------------------------------------------------------------
Arguments ==
  /\ depth \in [Token -> Depths] /\ \E i \in Token : depth[i] = 0
  /\ topK \in Int /\ topP \in Int \X (Nat \ {0})
  /\ uniform \in Nat \X Nat /\ uniform[1] < uniform[2]

LimitOf(n) == IF topK > 0 /\ topK < n THEN topK ELSE n
Reached(list, n) == {i \in 1 .. LimitOf(n) : topP[1] < topP[2]
                       /\ MassOf(list)[i] * topP[2] >= topP[1] * TotalMass}

LEMMA KeepIs ==
  ASSUME NEW n \in Nat, NEW list \in Lists(n)
  PROVE  Keep(list) = IF Reached(list, n) = {} THEN LimitOf(n) ELSE Least(Reached(list, n))
BY ListFacts DEF Keep, LimitOf, Reached

LEMMA KeepFacts ==
  ASSUME NEW n \in Nat \ {0}, NEW list \in Lists(n), Arguments
  PROVE  /\ LimitOf(n) \in 1 .. n
         /\ Keep(list) \in 1 .. LimitOf(n)
         /\ \A i \in Reached(list, n) : Keep(list) <= i
         /\ Reached(list, n) # {} => Keep(list) \in Reached(list, n)
         /\ Reached(list, n) = {} => Keep(list) = LimitOf(n)
<1>1. LimitOf(n) \in 1 .. n
  BY DEF LimitOf, Arguments
<1>2. Reached(list, n) \subseteq 1 .. LimitOf(n)
  BY DEF Reached
<1>3. CASE Reached(list, n) = {}
  BY <1>1, <1>3, KeepIs
<1>4. CASE Reached(list, n) # {}
  <2>1. Reached(list, n) \in SUBSET Nat
    BY <1>1, <1>2
  <2>2. Keep(list) = Least(Reached(list, n))
    BY <1>4, KeepIs
  <2>3. Keep(list) \in Reached(list, n) /\ \A i \in Reached(list, n) : Keep(list) <= i
    BY <1>4, <2>1, <2>2, LeastFacts
  <2> QED
    BY <1>1, <1>2, <1>4, <2>3
<1> QED
  BY <1>3, <1>4

(* A walk that stops within the beginning of a list stops there too when   *)
(* it is given the beginning only.                                         *)
LEMMA KeepAgrees ==
  ASSUME NEW n \in Nat \ {0}, NEW m \in Nat \ {0}, m <= n, NEW long \in Lists(n),
         NEW short \in Lists(m), \A i \in 1 .. m : short[i] = long[i],
         Arguments, Keep(long) <= m
  PROVE  Keep(short) = Keep(long)
<1>1. \A i \in 1 .. m : MassOf(short)[i] = MassOf(long)[i]
  BY MassAgrees
<1>2. LimitOf(m) \in 1 .. m /\ LimitOf(n) \in 1 .. n /\ LimitOf(m) <= LimitOf(n)
      /\ (LimitOf(m) = m \/ LimitOf(m) = LimitOf(n))
  BY DEF LimitOf, Arguments
<1>3. \A i \in 1 .. LimitOf(m) : i \in 1 .. m /\ (i \in Reached(short, m) <=> i \in Reached(long, n))
  BY <1>1, <1>2 DEF Reached
<1>4. Keep(long) \in 1 .. LimitOf(n)
  BY KeepFacts
<1>5. Keep(long) \in 1 .. LimitOf(m)
  BY <1>2, <1>4
<1>6. Reached(short, m) \subseteq 1 .. LimitOf(m)
  BY DEF Reached
<1>7. CASE Reached(long, n) = {}
  <2>1. Reached(short, m) = {}
    BY <1>3, <1>6, <1>7
  <2>2. Keep(short) = LimitOf(m) /\ Keep(long) = LimitOf(n)
    BY <1>7, <2>1, KeepFacts
  <2> QED
    BY <1>2, <1>5, <2>2
<1>8. CASE Reached(long, n) # {}
  <2>1. Keep(long) \in Reached(long, n) /\ \A i \in Reached(long, n) : Keep(long) <= i
    BY <1>8, KeepFacts
  <2>2. Keep(long) \in Reached(short, m)
    BY <1>3, <1>5, <2>1
  <2>3. \A i \in Reached(short, m) : Keep(long) <= i
    BY <1>3, <1>6, <2>1
  <2>4. Reached(short, m) \in SUBSET Nat
    BY <1>2, <1>6
  <2>5. Least(Reached(short, m)) = Keep(long)
    BY <2>2, <2>3, <2>4, LeastIs
  <2> QED
    BY <2>2, <2>5, KeepIs
<1> QED
  BY <1>7, <1>8

Hit(list) == {n \in 1 .. Keep(list) :
                MassOf(list)[n] * uniform[2] >= uniform[1] * MassOf(list)[Keep(list)]}

LEMMA PickFacts ==
  ASSUME NEW n \in Nat \ {0}, NEW list \in Lists(n), Arguments
  PROVE  Pick(list) \in 1 .. Keep(list) /\ \A i \in Hit(list) : Pick(list) <= i
<1>1. PICK k \in 1 .. n : k = Keep(list)
  BY KeepFacts
<1>2. PICK x \in Nat : x = MassOf(list)[k]
  BY MassFacts
<1>3. PICK u \in Nat, v \in Nat : u = uniform[1] /\ v = uniform[2] /\ u < v
  BY DEF Arguments
<1>4. x * v >= u * x
  BY <1>3, Z3
<1>5. k \in Hit(list)
  BY <1>1, <1>2, <1>3, <1>4 DEF Hit
<1>6. Hit(list) \subseteq 1 .. k /\ Hit(list) \in SUBSET Nat
  BY <1>1 DEF Hit
<1>7. Pick(list) = Least(Hit(list))
  BY DEF Pick, Hit
<1> QED
  BY <1>1, <1>5, <1>6, <1>7, LeastFacts

LEMMA PickAgrees ==
  ASSUME NEW n \in Nat \ {0}, NEW m \in Nat \ {0}, m <= n, NEW long \in Lists(n),
         NEW short \in Lists(m), \A i \in 1 .. m : short[i] = long[i],
         Arguments, Keep(long) <= m
  PROVE  Pick(short) = Pick(long)
<1>1. Keep(short) = Keep(long) /\ Keep(long) \in 1 .. m
  BY KeepAgrees, KeepFacts
<1>2. \A i \in 1 .. Keep(long) : MassOf(short)[i] = MassOf(long)[i]
  BY <1>1, MassAgrees
<1>3. Hit(short) = Hit(long)
  BY <1>1, <1>2 DEF Hit
<1> QED
  BY <1>3 DEF Pick, Hit

-----------------------------------------------------------------------------
(* The tokens that are more likely than a depth, and those at least so.    *)
Below(d)  == {i \in Token : depth[i] < d}
AtMost(d) == {i \in Token : depth[i] <= d}

LEMMA TokensFinite ==
  /\ IsFiniteSet(Token) /\ Cardinality(Token) = Vocab /\ Vocab \in Nat \ {0}
  /\ \A S \in SUBSET Token : IsFiniteSet(S) /\ Cardinality(S) \in Nat
  /\ \A S, T \in SUBSET Token : S \subseteq T => Cardinality(S) <= Cardinality(T)
<1>1. Vocab \in Nat \ {0}
  BY SamplingAssumption
<1>2. IsFiniteSet(Token) /\ Cardinality(Token) = Vocab
  <2>1. 0 \in Int /\ Vocab - 1 \in Int /\ ~(0 > Vocab - 1) /\ Vocab - 1 - 0 + 1 = Vocab
    BY <1>1
  <2>2. IsFiniteSet(0 .. Vocab - 1)
        /\ Cardinality(0 .. Vocab - 1) = IF 0 > Vocab - 1 THEN 0 ELSE Vocab - 1 - 0 + 1
    BY <2>1, FS_Interval
  <2> QED
    BY <2>1, <2>2 DEF Token
<1>3. \A S \in SUBSET Token : IsFiniteSet(S) /\ Cardinality(S) \in Nat
  BY <1>2, FS_Subset, FS_CardinalityType
<1>4. \A S, T \in SUBSET Token : S \subseteq T => Cardinality(S) <= Cardinality(T)
  BY <1>3, FS_Subset
<1> QED
  BY <1>1, <1>2, <1>3, <1>4

Ranked(d, n) == Cardinality(Below(d)) < n /\ Cardinality(AtMost(d)) >= n

LEMMA RankUnique ==
  ASSUME Arguments, NEW n \in Nat, NEW d \in Depths, NEW e \in Depths,
         Ranked(d, n), Ranked(e, n)
  PROVE  d = e
<1>1. \A i \in Token : depth[i] \in Nat
  BY WeightFacts DEF Arguments
<1>2. \A x, y \in Depths : x < y => AtMost(x) \subseteq Below(y)
  BY <1>1, WeightFacts DEF AtMost, Below
<1>3. \A x \in Depths : Below(x) \in SUBSET Token /\ AtMost(x) \in SUBSET Token
  BY DEF AtMost, Below
<1>4. ASSUME NEW x \in Depths, NEW y \in Depths, Ranked(x, n), Ranked(y, n), x < y
      PROVE  FALSE
  <2>1. Cardinality(AtMost(x)) <= Cardinality(Below(y))
    BY <1>2, <1>3, <1>4, TokensFinite
  <2>2. Cardinality(AtMost(x)) \in Nat /\ Cardinality(Below(y)) \in Nat
    BY <1>3, TokensFinite
  <2> QED
    BY <1>4, <2>1, <2>2 DEF Ranked
<1>5. ~(d < e) /\ ~(e < d)
  BY <1>4
<1> QED
  BY <1>5, WeightFacts

LEMMA RankExists ==
  ASSUME Arguments, NEW n \in 1 .. Vocab
  PROVE  \E d \in Depths : Ranked(d, n)
<1> DEFINE D == {d \in Depths : Cardinality(AtMost(d)) >= n}
<1>1. \A i \in Token : depth[i] \in Depths /\ depth[i] \in Nat
  BY WeightFacts DEF Arguments
<1>2. \A x : Below(x) \in SUBSET Token /\ AtMost(x) \in SUBSET Token
  BY DEF AtMost, Below
<1>3. D \in SUBSET Nat
  BY WeightFacts
<1>4. D # {}
  <2>1. Deepest \in Depths /\ \A d \in Depths : d <= Deepest
    BY GreedyAssumption
  <2>2. AtMost(Deepest) = Token
    BY <1>1, <2>1 DEF AtMost
  <2>3. Deepest \in D
    BY <2>1, <2>2, TokensFinite
  <2> QED
    BY <2>3
<1>5. PICK d \in D : \A e \in D : d <= e
  BY <1>3, <1>4, LeastNat
<1>6. Cardinality(Below(d)) < n
  <2>1. CASE Below(d) = {}
    BY <2>1, FS_EmptySet
  <2>2. CASE Below(d) # {}
    <3> DEFINE V == {depth[i] : i \in Below(d)}
    <3>1. V \in SUBSET Nat /\ V # {} /\ \A y \in V : y <= d
      BY <1>1, <1>2, <1>3, <2>2 DEF Below
    <3>2. PICK e \in V : \A y \in V : y <= e
      BY <1>3, <3>1, GreatestNat
    <3>3. e < d /\ e \in Depths /\ e \in Nat /\ d \in Nat
      BY <1>1, <1>2, <1>3, <3>2 DEF Below
    <3>4. Below(d) \subseteq AtMost(e)
      <4> SUFFICES ASSUME NEW i \in Below(d) PROVE i \in AtMost(e)
        OBVIOUS
      <4>1. i \in Token /\ depth[i] \in V
        BY <1>2
      <4> QED
        BY <3>2, <4>1 DEF AtMost
    <3>5. e \notin D
      BY <1>5, <3>3
    <3>6. ~(Cardinality(AtMost(e)) >= n)
      BY <3>3, <3>5
    <3>7. Cardinality(Below(d)) <= Cardinality(AtMost(e))
      BY <1>2, <3>4, TokensFinite
    <3>8. Cardinality(Below(d)) \in Nat /\ Cardinality(AtMost(e)) \in Nat
      BY <1>2, TokensFinite
    <3> QED
      BY <3>6, <3>7, <3>8
  <2> QED
    BY <2>1, <2>2
<1> QED
  BY <1>6 DEF Ranked

LEMMA InOrderFacts ==
  ASSUME Arguments
  PROVE  /\ InOrder \in Lists(Vocab)
         /\ \A n \in 1 .. Vocab : Ranked(InOrder[n], n)
         /\ \A n \in 1 .. Vocab, d \in Depths : Ranked(d, n) => InOrder[n] = d
<1> DEFINE pick(n) == CHOOSE d \in Depths : Ranked(d, n)
<1>1. InOrder = [n \in 1 .. Vocab |-> pick(n)]
  BY Zenon DEF InOrder, Ranked, Below, AtMost
<1> HIDE DEF pick
<1>2. \A n \in 1 .. Vocab : InOrder[n] = CHOOSE d \in Depths : Ranked(d, n)
  BY <1>1 DEF pick
<1>3. \A n \in 1 .. Vocab : InOrder[n] \in Depths /\ Ranked(InOrder[n], n)
  <2> TAKE n \in 1 .. Vocab
  <2>1. \E d \in Depths : Ranked(d, n)
    BY RankExists
  <2> QED
    BY <1>2, <2>1
<1>4. \A n \in 1 .. Vocab, d \in Depths : Ranked(d, n) => InOrder[n] = d
  <2> TAKE n \in 1 .. Vocab, d \in Depths
  <2>1. n \in Nat
    OBVIOUS
  <2> QED
    BY <1>3, <2>1, RankUnique
<1>5. InOrder \in Lists(Vocab)
  BY <1>1, <1>3 DEF Lists
<1> QED
  BY <1>3, <1>4, <1>5

-----------------------------------------------------------------------------
LEMMA BinFacts ==
  /\ \A d \in Nat : BinOf(d) \in 0 .. Bins - 1
  /\ \A d, e \in Nat : d <= e => BinOf(d) <= BinOf(e)
<1>1. BinWidth \in Nat \ {0} /\ Bins \in Nat \ {0}
  BY SamplingAssumption
<1>2. \A d \in Nat : d \div BinWidth \in Nat
  BY <1>1
<1>3. \A d, e \in Nat : d <= e => d \div BinWidth <= e \div BinWidth
  <2> SUFFICES ASSUME NEW d \in Nat, NEW e \in Nat, d <= e
               PROVE  d \div BinWidth <= e \div BinWidth
    OBVIOUS
  <2>1. PICK p \in Nat, q \in Nat, w \in Nat \ {0} :
          p = d \div BinWidth /\ q = e \div BinWidth /\ w = BinWidth
    BY <1>1, <1>2
  <2>2. PICK r \in 0 .. w - 1, s \in 0 .. w - 1 : d = p * w + r /\ e = q * w + s
    <3>1. d % w \in 0 .. w - 1 /\ e % w \in 0 .. w - 1
          /\ d = (d \div w) * w + (d % w) /\ e = (e \div w) * w + (e % w)
      OBVIOUS
    <3> QED
      BY <2>1, <3>1
  <2>3. \A x, y \in Nat : x + 1 <= y => x * w + w <= y * w
    BY Z3
  <2>4. ~(q + 1 <= p)
    <3>1. q * w \in Nat /\ p * w \in Nat
      OBVIOUS
    <3> QED
      BY <2>2, <2>3, <3>1
  <2> QED
    BY <2>1, <2>4
<1> QED
  BY <1>1, <1>2, <1>3 DEF BinOf

(* The tokens down to a bin.                                               *)
Down(b) == {i \in Token : BinOf(depth[i]) <= b}

(* When the bins down to the last token that the walk keeps fit, the       *)
(* cutoff admits all tokens at least as likely, and no more than fit.      *)
LEMMA CutoffAdmits ==
  ASSUME Arguments, NEW d \in Depths, UpToBin(BinOf(d)) <= Cap
  PROVE  /\ AtMost(d) \subseteq Candidates
         /\ Cardinality(Candidates) <= Cap
         /\ \A i \in Token, j \in Candidates : depth[i] <= depth[j] => i \in Candidates
<1> DEFINE fitting == {b \in 0 .. Bins - 1 : UpToBin(b) <= Cap}
<1>1. \A b : UpToBin(b) = Cardinality(Down(b)) /\ Down(b) \in SUBSET Token
  BY DEF UpToBin, Down
<1>2. \A b : UpToBin(b) \in Nat
  BY <1>1, TokensFinite
<1>3. \A i \in Token : BinOf(depth[i]) \in 0 .. Bins - 1
  BY BinFacts, WeightFacts DEF Arguments
<1>4. Bins \in Nat \ {0} /\ Cap \in Nat
  BY SamplingAssumption, CapFacts
<1>5. ASSUME NEW y \in fitting, NEW x \in Nat, x <= y PROVE x \in fitting
  <2>1. Down(x) \subseteq Down(y)
    BY <1>3, <1>4, <1>5 DEF Down
  <2>2. UpToBin(x) <= UpToBin(y)
    BY <1>1, <2>1, TokensFinite
  <2> QED
    BY <1>2, <1>4, <1>5, <2>2
<1>6. fitting \in SUBSET Nat /\ \A y \in fitting : y < Bins
  BY <1>4
<1>7. BinOf(d) \in fitting
  BY BinFacts, WeightFacts
<1> HIDE DEF fitting
<1>8. fitting = 0 .. Cardinality(fitting) - 1 /\ Cardinality(fitting) \in Nat
  BY <1>4, <1>5, <1>6, InitialSegment
<1>9. PICK c \in Nat : c = Cardinality(fitting) /\ fitting = 0 .. c - 1
  BY <1>8
<1>10. CutoffBin = c
  <2>1. fitting # {}
    BY <1>7
  <2> QED
    BY <1>9, <2>1 DEF CutoffBin, fitting
<1>11. c - 1 \in fitting /\ BinOf(d) < c
  <2>1. BinOf(d) \in Nat
    BY BinFacts, WeightFacts
  <2>2. BinOf(d) \in 0 .. c - 1
    BY <1>7, <1>9
  <2>3. BinOf(d) < c /\ c - 1 \in 0 .. c - 1
    BY <2>1, <2>2
  <2> QED
    BY <1>9, <2>3
<1>12. Candidates = Down(c - 1)
  <2>1. \A i \in Token : BinOf(depth[i]) < c <=> BinOf(depth[i]) <= c - 1
    BY <1>3, <1>4
  <2> QED
    BY <1>10, <2>1 DEF Candidates, Candidate, Down
<1>13. UpToBin(c - 1) <= Cap
  BY <1>11 DEF fitting
<1>14. Candidates = {i \in Token : BinOf(depth[i]) < c}
  BY <1>10 DEF Candidates, Candidate
<1>15. \A i \in Token : depth[i] \in Nat /\ BinOf(depth[i]) \in Nat
  BY <1>3, WeightFacts DEF Arguments
<1>16. BinOf(d) \in Nat /\ d \in Nat
  BY BinFacts, WeightFacts
<1>17. AtMost(d) \subseteq Candidates
  <2> SUFFICES ASSUME NEW i \in Token, depth[i] <= d PROVE BinOf(depth[i]) < c
    BY <1>14 DEF AtMost
  <2>1. BinOf(depth[i]) <= BinOf(d)
    BY <1>15, <1>16, BinFacts
  <2> QED
    BY <1>9, <1>11, <1>15, <1>16, <2>1
<1>18. ASSUME NEW i \in Token, NEW j \in Candidates, depth[i] <= depth[j]
       PROVE  i \in Candidates
  <2>1. j \in Token /\ BinOf(depth[j]) < c
    BY <1>14
  <2>2. BinOf(depth[i]) <= BinOf(depth[j])
    BY <1>15, <1>18, <2>1, BinFacts
  <2>3. BinOf(depth[i]) < c
    BY <1>9, <1>15, <2>1, <2>2
  <2> QED
    BY <1>14, <2>3
<1> QED
  BY <1>1, <1>12, <1>13, <1>17, <1>18

-----------------------------------------------------------------------------
(* A slot that has been written holds a token with its depth.              *)
Filled == \A s \in Written :
            slots[s] = [depth |-> depth[slots[s].token], token |-> slots[s].token]

(* The buffer after the sort, when every candidate fits: the candidates,   *)
(* each once, in the order of their depths.                                *)
LEMMA SortedFront ==
  ASSUME Arguments, CInv, Filled, CompactionOver, Cardinality(Candidates) <= Cap
  PROVE  LET b == BitonicSort(Padded)
         IN  /\ Found = Cardinality(Candidates) /\ Found \in 0 .. Cap
             /\ \A s \in 0 .. Found - 1 : /\ b[s].token \in Candidates
                                          /\ b[s].depth = depth[b[s].token]
             /\ \A s, u \in 0 .. Found - 1 : b[s].token = b[u].token => s = u
             /\ \A i \in Candidates : \E s \in 0 .. Found - 1 : b[s].token = i
             /\ \A s, u \in 0 .. Found - 1 : s <= u => b[s].depth <= b[u].depth
<1> DEFINE b == BitonicSort(Padded)
<1>1. Taken = Candidates /\ \A t \in Thread : claimed[t] = None
  BY AllTaken
<1>2. count = Cardinality(Candidates) /\ count \in Nat /\ Cap \in Nat
  BY <1>1, CapFacts DEF CInv, CTypes, Counted
<1>3. PICK n \in Nat : n = Found /\ n = count /\ n <= Cap
  BY <1>2 DEF Found
<1>4. \A s \in 0 .. n - 1 : s \in Slot /\ s \in Written
  BY <1>1, <1>2, <1>3, BlockTypes DEF Slot, Written
<1>5. \A i \in Token : depth[i] \in Nat /\ depth[i] < Lowest /\ i \in Nat
  BY WeightFacts, BlockTypes DEF Arguments
<1>6. \A s \in 0 .. n - 1 : slots[s].token \in Candidates
  BY <1>1, <1>4 DEF CInv, OwnSlots
<1>7. Candidates \subseteq Token
  BY DEF Candidates
<1>8. \A s \in 0 .. n - 1 : /\ Padded[s].token = slots[s].token
                            /\ Padded[s].depth = depth[slots[s].token]
  <2> TAKE s \in 0 .. n - 1
  <2>1. ~(s >= Found)
    BY <1>3
  <2>2. Padded[s] = slots[s]
    BY <1>4, <2>1 DEF Padded
  <2>3. slots[s] = [depth |-> depth[slots[s].token], token |-> slots[s].token]
    BY <1>4 DEF Filled
  <2> QED
    BY <2>2, <2>3
<1>9. \A s \in Slot : ~(s < n) => Padded[s] = [depth |-> Lowest, token |-> 0]
  BY <1>3, BlockTypes DEF Padded
<1>10. \A s \in Slot : s \in 0 .. n - 1 <=> s < n
  BY BlockTypes
<1>11. Padded \in Buffers
  <2>1. \A s \in Slot : Padded[s] \in Entry
    <3> TAKE s \in Slot
    <3>1. CASE s < n
      <4>1. s \in 0 .. n - 1
        BY <1>10, <3>1
      <4>2. Padded[s] = slots[s]
        BY <1>3, <4>1 DEF Padded
      <4>3. slots[s] = [depth |-> depth[slots[s].token], token |-> slots[s].token]
        BY <1>4, <4>1 DEF Filled
      <4>4. depth[slots[s].token] \in Nat /\ slots[s].token \in Nat
        BY <1>5, <1>6, <1>7, <4>1
      <4> QED
        BY <4>2, <4>3, <4>4 DEF Entry
    <3>2. CASE ~(s < n)
      BY <1>9, <3>2 DEF Entry, Lowest
    <3> QED
      BY <3>1, <3>2
  <2>2. Padded = [s \in Slot |-> Padded[s]]
    BY DEF Padded
  <2> QED
    BY <2>1, <2>2 DEF Buffers
<1>12. b \in Buffers /\ Permutes(Padded, b) /\ Sorted(b)
  BY <1>11, BitonicSortSorts
<1>13. PICK f \in [Slot -> Slot], g \in [Slot -> Slot] :
         /\ \A s \in Slot : g[f[s]] = s /\ f[g[s]] = s
         /\ \A s \in Slot : b[s] = Padded[f[s]]
  BY <1>12 DEF Permutes
<1> HIDE DEF b
<1> DEFINE front == {s \in Slot : f[s] < n}
<1>14. \A s \in front : /\ f[s] \in 0 .. n - 1
                        /\ b[s].token = slots[f[s]].token
                        /\ b[s].depth = depth[slots[f[s]].token]
                        /\ b[s].depth < Lowest
  <2> TAKE s \in front
  <2>1. s \in Slot /\ f[s] \in 0 .. n - 1
    BY <1>10
  <2>2. b[s] = Padded[f[s]]
    BY <1>13, <2>1
  <2>3. slots[f[s]].token \in Token
    BY <1>6, <1>7, <2>1
  <2> QED
    BY <1>5, <1>8, <2>1, <2>2, <2>3
<1>15. \A s \in Slot : s \notin front => b[s].depth = Lowest
  BY <1>9, <1>13
<1>16. front \in SUBSET Nat /\ \A y \in front : y < Cap
  <2>1. front \subseteq Slot
    OBVIOUS
  <2>2. \A y \in Slot : y \in Nat /\ y < Cap
    BY <1>2 DEF Slot
  <2> QED
    BY <2>1, <2>2
<1>17. ASSUME NEW y \in front, NEW x \in Nat, x <= y PROVE x \in front
  <2>1. x \in Slot /\ y \in Slot
    BY <1>16, <1>17, <1>2 DEF Slot
  <2>2. b[x].depth <= b[y].depth
    BY <1>12, <1>17, <2>1 DEF Sorted
  <2>3. b[y].depth < Lowest /\ b[x].depth \in Int /\ b[y].depth \in Int
    BY <1>12, <1>14, <2>1 DEF Buffers, Entry
  <2>4. b[x].depth # Lowest
    BY <2>2, <2>3 DEF Lowest
  <2> QED
    BY <1>15, <2>1, <2>4
<1>18. IsFiniteSet(front) /\ Cardinality(front) \in Nat /\ front = 0 .. Cardinality(front) - 1
  <2> HIDE DEF front
  <2> QED
    BY <1>2, <1>16, <1>17, InitialSegment
<1>19. Cardinality(front) = n
  <2> DEFINE low == 0 .. n - 1
             h   == [s \in low |-> g[s]]
  <2>1. IsFiniteSet(low) /\ Cardinality(low) = n
    BY <1>3, FS_Interval
  <2>2. \A s \in low : s \in Slot /\ g[s] \in front
    BY <1>4, <1>10, <1>13
  <2>3. \A r, s \in low : g[r] = g[s] => r = s
    BY <1>13, <2>2
  <2>4. \A s \in front : f[s] \in low /\ g[f[s]] = s
    BY <1>13, <1>14
  <2> HIDE DEF low, front
  <2>5. h \in Bijection(low, front)
    <3>1. h \in [low -> front] /\ \A s \in low : h[s] = g[s]
      BY <2>2
    <3> QED
      BY <2>3, <2>4, <3>1 DEF Bijection, Injection, IsInjective, Surjection
  <2> QED
    BY <2>1, <2>5, FS_Bijection DEF ExistsBijection
<1>20. front = 0 .. n - 1
  BY <1>18, <1>19
<1>21. \A s \in 0 .. n - 1 : b[s].token \in Candidates /\ b[s].depth = depth[b[s].token]
  BY <1>6, <1>14, <1>20
<1>22. ASSUME NEW s \in 0 .. n - 1, NEW u \in 0 .. n - 1, b[s].token = b[u].token
       PROVE  s = u
  <2>1. f[s] \in 0 .. n - 1 /\ f[u] \in 0 .. n - 1 /\ slots[f[s]].token = slots[f[u]].token
    BY <1>14, <1>20, <1>22
  <2>2. f[s] = f[u]
    BY <1>4, <2>1 DEF CInv, OwnSlots
  <2>3. s \in Slot /\ u \in Slot
    BY <1>4
  <2> QED
    BY <1>13, <2>2, <2>3
<1>23. \A i \in Candidates : \E s \in 0 .. n - 1 : b[s].token = i
  <2> DEFINE low == 0 .. n - 1
             h   == [s \in low |-> b[s].token]
             hit == {b[s].token : s \in low}
  <2>1. IsFiniteSet(low) /\ Cardinality(low) = n
    BY <1>3, FS_Interval
  <2>2. hit \subseteq Candidates
    BY <1>21
  <2>3. h \in Bijection(low, hit)
    <3> HIDE DEF low
    <3> QED
      BY <1>22 DEF Bijection, Injection, IsInjective, Surjection, low
  <2>4. Cardinality(hit) = n
    <3> HIDE DEF h, hit, low
    <3> QED
      BY <2>1, <2>3, FS_Bijection DEF ExistsBijection
  <2>5. hit = Candidates
    <3> HIDE DEF hit
    <3> QED
      BY <1>2, <1>3, <2>2, <2>4, FS_Subset, TakenFinite
  <2> QED
    BY <2>5
<1>24. \A s, u \in 0 .. n - 1 : s <= u => b[s].depth <= b[u].depth
  BY <1>4, <1>12 DEF Sorted
<1> QED
  BY <1>2, <1>3, <1>21, <1>22, <1>23, <1>24 DEF b

(* When the nucleus' bins fit, the token chosen is as likely as the one    *)
(* that sampling from the whole sorted vocabulary gives.                   *)
LEMMA ChoiceExact ==
  ASSUME Arguments, CInv, Filled, CompactionOver,
         UpToBin(BinOf(InOrder[Keep(InOrder)])) <= Cap
  PROVE  depth[Choice(Padded)] = InOrder[Pick(InOrder)]
<1>1. InOrder \in Lists(Vocab) /\ Vocab \in Nat \ {0}
  BY InOrderFacts, TokensFinite
<1>2. PICK k \in 1 .. Vocab : k = Keep(InOrder)
  BY <1>1, KeepFacts
<1>3. PICK d \in Depths : d = InOrder[k] /\ Ranked(d, k)
  BY <1>2, InOrderFacts DEF Lists
<1>4. /\ AtMost(d) \subseteq Candidates
      /\ Cardinality(Candidates) <= Cap
      /\ \A i \in Token, j \in Candidates : depth[i] <= depth[j] => i \in Candidates
  BY <1>2, <1>3, CutoffAdmits
<1>5. PICK n \in Nat : n = Found /\ n = Cardinality(Candidates)
  BY <1>4, SortedFront
<1> DEFINE b == BitonicSort(Padded)
<1>6. /\ \A s \in 0 .. n - 1 : b[s].token \in Candidates /\ b[s].depth = depth[b[s].token]
      /\ \A s, u \in 0 .. n - 1 : b[s].token = b[u].token => s = u
      /\ \A i \in Candidates : \E s \in 0 .. n - 1 : b[s].token = i
      /\ \A s, u \in 0 .. n - 1 : s <= u => b[s].depth <= b[u].depth
  BY <1>4, <1>5, SortedFront
<1>7. Candidates \in SUBSET Token /\ AtMost(d) \in SUBSET Token
  BY DEF Candidates, AtMost
<1>8. k <= n /\ n <= Vocab /\ n \in Nat \ {0}
  <2>1. Cardinality(AtMost(d)) <= Cardinality(Candidates)
        /\ Cardinality(Candidates) <= Cardinality(Token)
    BY <1>4, <1>7, TokensFinite
  <2>2. k <= Cardinality(AtMost(d)) /\ Cardinality(AtMost(d)) \in Nat
    BY <1>3, <1>7, TokensFinite DEF Ranked
  <2> QED
    BY <1>5, <2>1, <2>2, TokensFinite
<1> DEFINE short == [i \in 1 .. n |-> b[i - 1].depth]
<1>9. \A i \in Token : depth[i] \in Depths /\ depth[i] \in Nat
  BY WeightFacts DEF Arguments
<1> HIDE DEF b
<1>10. \A i \in 1 .. n : i - 1 \in 0 .. n - 1 /\ short[i] = b[i - 1].depth
  OBVIOUS
<1>11. short \in Lists(n)
  BY <1>6, <1>7, <1>9, <1>10 DEF Lists
<1>12. ASSUME NEW i \in 1 .. n PROVE short[i] = InOrder[i]
  <2>1. PICK e \in Depths : e = b[i - 1].depth
    BY <1>6, <1>7, <1>9, <1>10
  <2> DEFINE before == 0 .. (i - 1) - 1
             upto   == 0 .. i - 1
             h(S)   == [s \in S |-> b[s].token]
             im(S)  == {b[s].token : s \in S}
  <2>2. i \in Nat /\ i - 1 \in Nat /\ i - 1 \in 0 .. n - 1
    OBVIOUS
  <2>3. /\ IsFiniteSet(before) /\ Cardinality(before) = i - 1
        /\ IsFiniteSet(upto) /\ Cardinality(upto) = i
    <3>1. /\ IsFiniteSet(0 .. i - 1) /\ Cardinality(0 .. i - 1) = i
      BY <2>2, FS_Interval
    <3>2. PICK a \in Nat : a = i - 1
      BY <2>2
    <3>3. /\ IsFiniteSet(0 .. a - 1) /\ Cardinality(0 .. a - 1) = a
      BY FS_Interval
    <3> QED
      BY <3>1, <3>2, <3>3
  <2>4. before \subseteq 0 .. n - 1 /\ upto \subseteq 0 .. n - 1
    BY <2>2
  <2>5. ASSUME NEW S \in SUBSET (0 .. n - 1), IsFiniteSet(S)
        PROVE  Cardinality(im(S)) = Cardinality(S) /\ im(S) \in SUBSET Token
    <3>0. \A s, u \in S : b[s].token = b[u].token => s = u
      BY <1>6
    <3>1. h(S) \in Bijection(S, im(S))
      BY ONLY <3>0 DEF Bijection, Injection, IsInjective, Surjection
    <3>2. im(S) \in SUBSET Token
      BY <1>6, <1>7
    <3> HIDE DEF h, im
    <3>3. Cardinality(im(S)) = Cardinality(S)
      BY <2>5, <3>1, FS_Bijection DEF ExistsBijection
    <3> QED
      BY <3>2, <3>3
  <2>6. Below(e) \subseteq im(before)
    <3> SUFFICES ASSUME NEW j \in Token, depth[j] < e PROVE j \in im(before)
      BY DEF Below
    <3>1. b[i - 1].token \in Candidates /\ depth[b[i - 1].token] = e
      BY <1>6, <2>1, <2>2
    <3>2. j \in Candidates
      BY <1>4, <1>7, <1>9, <3>1
    <3>3. PICK s \in 0 .. n - 1 : b[s].token = j
      BY <1>6, <3>2
    <3>4. b[s].depth = depth[j]
      BY <1>6, <3>3
    <3>5. ~(i - 1 <= s)
      <4>1. i - 1 <= s => e <= depth[j]
        BY <1>6, <2>1, <2>2, <3>4
      <4> QED
        BY <1>9, <3>1, <4>1, <1>7
    <3>6. s \in before
      BY <2>2, <3>5
    <3> QED
      BY <3>3, <3>6
  <2>7. im(upto) \subseteq AtMost(e)
    <3> SUFFICES ASSUME NEW s \in upto PROVE b[s].token \in AtMost(e)
      OBVIOUS
    <3>1. s \in 0 .. n - 1 /\ s <= i - 1
      BY <2>2, <2>4
    <3>2. b[s].token \in Token /\ b[s].depth = depth[b[s].token] /\ b[s].depth <= e
      BY <1>6, <1>7, <2>1, <2>2, <3>1
    <3> QED
      BY <3>2 DEF AtMost
  <2>8. Below(e) \in SUBSET Token /\ AtMost(e) \in SUBSET Token
    BY DEF Below, AtMost
  <2> HIDE DEF before, upto, h, im
  <2>9. /\ Cardinality(im(before)) = i - 1 /\ im(before) \in SUBSET Token
        /\ Cardinality(im(upto)) = i /\ im(upto) \in SUBSET Token
    BY <2>3, <2>4, <2>5
  <2>10. Cardinality(Below(e)) <= i - 1 /\ i <= Cardinality(AtMost(e))
    BY <2>6, <2>7, <2>8, <2>9, TokensFinite
  <2>11. Cardinality(Below(e)) \in Nat /\ Cardinality(AtMost(e)) \in Nat
    BY <2>8, TokensFinite
  <2>12. Ranked(e, i)
    BY <2>2, <2>10, <2>11 DEF Ranked
  <2>13. i \in 1 .. Vocab
    BY <1>8, <2>2, TokensFinite
  <2> QED
    BY <1>10, <2>1, <2>12, <2>13, InOrderFacts
<1>13. Choice(Padded) = b[Pick(short) - 1].token
  BY <1>5 DEF Choice, b
<1> HIDE DEF short
<1>14. Keep(short) = Keep(InOrder) /\ Pick(short) = Pick(InOrder)
  BY <1>1, <1>2, <1>8, <1>11, <1>12, KeepAgrees, PickAgrees
<1>15. Pick(InOrder) \in 1 .. k
  BY <1>1, <1>2, PickFacts
<1>16. PICK p \in 1 .. n : p = Pick(InOrder)
  BY <1>8, <1>15
<1>17. depth[b[p - 1].token] = short[p]
  BY <1>6, <1>10, <1>16
<1> QED
  BY <1>12, <1>13, <1>14, <1>16, <1>17

-----------------------------------------------------------------------------
(* The row and the arguments do not change, and nothing computed from them.*)
LEMMA OrderKept ==
  ASSUME UNCHANGED inputs
  PROVE  /\ InOrder' = InOrder
         /\ Keep(InOrder)' = Keep(InOrder)
         /\ Pick(InOrder)' = Pick(InOrder)
         /\ UpToBin(BinOf(InOrder[Keep(InOrder)]))' = UpToBin(BinOf(InOrder[Keep(InOrder)]))
<1>0. UNCHANGED <<depth, topK, topP, uniform>>
  BY DEF inputs
<1>1. InOrder' = InOrder
  BY <1>0 DEF InOrder
<1>2. TotalMass' = TotalMass
  BY <1>0 DEF TotalMass
<1>3. MassOf(InOrder)' = MassOf(InOrder)
  BY <1>1 DEF MassOf
<1>4. Keep(InOrder)' = Keep(InOrder)
  BY <1>0, <1>1, <1>2, <1>3 DEF Keep
<1>5. Pick(InOrder)' = Pick(InOrder)
  BY <1>0, <1>1, <1>3, <1>4 DEF Pick
<1>6. UpToBin(BinOf(InOrder[Keep(InOrder)]))' = UpToBin(BinOf(InOrder[Keep(InOrder)]))
  BY <1>0, <1>1, <1>4 DEF UpToBin, BinOf
<1> QED
  BY <1>1, <1>4, <1>5, <1>6

-----------------------------------------------------------------------------
Modes ==
  /\ temperature \in {"zero", "positive"}
  /\ stage = "argmax" => temperature = "zero"
  /\ stage = "sample" => temperature = "positive"
  /\ temperature = "zero" => uniform[1] = 0

SInv == /\ IInv /\ CInv /\ Arguments /\ Filled /\ Modes
        /\ temperature = "positive" => ExactWhenBinsFit

LEMMA InitSInv == Init => SInv
<1> SUFFICES ASSUME Init PROVE SInv
  OBVIOUS
<1>1. IInv /\ CInv
  BY InitGInv, InitCInv DEF IInv
<1>2. Arguments
  BY SamplingAssumption DEF Init, NucleusInit, Arguments
<1>3. Filled
  <2>1. count = 0
    BY DEF Init, NucleusInit
  <2>2. \A s \in Slot : ~(s < 0)
    BY BlockTypes DEF Slot
  <2> QED
    BY <2>1, <2>2 DEF Filled, Written
<1>4. Modes
  BY DEF Init, Modes
<1>5. ExactWhenBinsFit
  BY DEF Init, NucleusInit, ExactWhenBinsFit
<1> QED
  BY <1>1, <1>2, <1>3, <1>4, <1>5 DEF SInv

LEMMA FilledKept ==
  ASSUME CInv, Filled, [Next]_vars
  PROVE  Filled'
<1>1. /\ claimed \in [Thread -> {None} \cup Nat] /\ count \in Nat /\ DOMAIN slots = Slot
      /\ None \notin Nat
  BY BlockTypes DEF CInv, CTypes
<1>2. CASE UNCHANGED <<depth, claimed, count, slots>>
  BY <1>2 DEF Filled, Written
<1>3. CASE \E t \in Thread : Claim(t)
  <2>1. PICK t \in Thread : Claim(t)
    BY <1>3
  <2>2. /\ claimed[t] = None /\ claimed' = [claimed EXCEPT ![t] = count]
        /\ count' = count + 1 /\ UNCHANGED <<depth, slots>>
    BY <2>1 DEF Claim, ClaimSlot, inputs
  <2>3. Written' \subseteq Written
    <3> SUFFICES ASSUME NEW s \in Slot, s < count + 1, \A u \in Thread : claimed'[u] # s
                 PROVE  s < count /\ \A u \in Thread : claimed[u] # s
      BY <2>2 DEF Written
    <3>1. s \in Nat /\ claimed'[t] = count
      BY <1>1, <2>2, BlockTypes
    <3>2. \A u \in Thread : u # t => claimed'[u] = claimed[u]
      BY <1>1, <2>2
    <3> QED
      BY <1>1, <2>2, <3>1, <3>2
  <2> QED
    BY <2>2, <2>3 DEF Filled
<1>4. CASE \E t \in Thread : Fill(t)
  <2>1. PICK t \in Thread : Fill(t)
    BY <1>4
  <2> DEFINE c == claimed[t]
             new == [depth |-> depth[cursor[t]], token |-> cursor[t]]
  <2>2. /\ slots' = IF c \in Slot THEN [slots EXCEPT ![c] = new] ELSE slots
        /\ claimed' = [claimed EXCEPT ![t] = None] /\ UNCHANGED <<depth, count>>
    BY <2>1 DEF Fill, inputs
  <2>3. ASSUME NEW s \in Written' PROVE s \in Written \/ s = c
    <3>1. \A u \in Thread : u # t => claimed'[u] = claimed[u]
      BY <1>1, <2>2
    <3> QED
      BY <2>2, <3>1 DEF Written
  <2>4. ASSUME NEW s \in Written'
        PROVE  slots'[s] = [depth |-> depth[slots'[s].token], token |-> slots'[s].token]
    <3>1. s \in Slot
      BY DEF Written
    <3>2. CASE s = c
      <4>1. slots'[s] = new
        BY <1>1, <2>2, <3>1, <3>2
      <4> QED
        BY <4>1
    <3>3. CASE s # c
      <4>1. slots'[s] = slots[s]
        BY <1>1, <2>2, <3>1, <3>3
      <4>2. s \in Written
        BY <2>3, <3>3
      <4> QED
        BY <4>1, <4>2 DEF Filled
    <3> QED
      BY <3>2, <3>3
  <2> QED
    BY <2>2, <2>4 DEF Filled
<1>5. CASE Select \/ \E t \in Thread : Pass(t)
  BY <1>2, <1>5 DEF Select, Pass, inputs
<1>6. CASE Launch \/ RunArgmax \/ Return \/ UNCHANGED vars
  BY <1>2, <1>6 DEF Launch, RunArgmax, Return, vars, inputs, nucleusVars
<1> QED
  BY <1>3, <1>4, <1>5, <1>6 DEF Next, RunSample, NucleusNext

LEMMA NextSInv == SInv /\ [Next]_vars => SInv'
<1> SUFFICES ASSUME SInv, [Next]_vars PROVE SInv'
  OBVIOUS
<1>1. IInv' /\ CInv' /\ Filled'
  BY NextIInv, NextCInv, FilledKept DEF SInv
<1>2. UNCHANGED inputs /\ temperature' = temperature
  BY DEF Next, Launch, RunArgmax, RunSample, Return, NucleusNext, Claim, Pass, Fill, Select, vars
<1>3. Arguments'
  BY <1>2 DEF SInv, Arguments, inputs
<1>4. Modes'
  <2>1. UNCHANGED uniform
    BY <1>2 DEF inputs
  <2> QED
    BY <1>2, <2>1 DEF SInv, Modes, Next, Launch, RunArgmax, RunSample, Return, vars
<1>5. ASSUME temperature = "positive" PROVE ExactWhenBinsFit'
  <2>1. CASE UNCHANGED outId
    BY <1>2, <1>5, <2>1, OrderKept DEF SInv, ExactWhenBinsFit, inputs
  <2>2. CASE RunSample /\ Select
    <3>1. CompactionOver /\ outId' = Choice(Padded) /\ depth' = depth
      BY <2>2 DEF Select, inputs
    <3>2. ASSUME UpToBin(BinOf(InOrder[Keep(InOrder)])) <= Cap
          PROVE  depth[Choice(Padded)] = InOrder[Pick(InOrder)]
      BY <3>1, <3>2, ChoiceExact DEF SInv
    <3> QED
      BY <1>2, <3>1, <3>2, OrderKept DEF ExactWhenBinsFit
  <2>3. stage # "argmax"
    BY <1>5 DEF SInv, Modes
  <2> QED
    BY <2>1, <2>2, <2>3
       DEF Next, Launch, RunArgmax, RunSample, Return, NucleusNext, Claim, Pass, Fill, vars
<1> QED
  BY <1>1, <1>2, <1>3, <1>4, <1>5 DEF SInv

(* A sampling call of the whole sorted row with a zero uniform number      *)
(* picks a largest logit.                                                  *)
LEMMA ZeroPicksFirst ==
  ASSUME Arguments, uniform[1] = 0
  PROVE  InOrder[Pick(InOrder)] = 0
<1>1. InOrder \in Lists(Vocab) /\ Vocab \in Nat \ {0}
  BY InOrderFacts, TokensFinite
<1>2. PICK k \in 1 .. Vocab : k = Keep(InOrder)
  BY <1>1, KeepFacts
<1>3. \A n \in 1 .. k : MassOf(InOrder)[n] \in Nat
  BY <1>1, MassFacts
<1>4. 1 \in Hit(InOrder)
  <2>1. PICK x \in Nat, y \in Nat : x = MassOf(InOrder)[1] /\ y = MassOf(InOrder)[k]
    BY <1>3
  <2>2. uniform[2] \in Nat /\ x * uniform[2] >= 0 /\ uniform[1] * y = 0
    BY Z3 DEF Arguments
  <2> QED
    BY <1>2, <2>1, <2>2 DEF Hit
<1>5. Pick(InOrder) = 1
  <2>1. Pick(InOrder) \in 1 .. k /\ Pick(InOrder) <= 1
    BY <1>1, <1>2, <1>4, PickFacts
  <2> QED
    BY <2>1
<1>6. Ranked(0, 1)
  <2>1. \A i \in Token : depth[i] \in Nat
    BY WeightFacts DEF Arguments
  <2>2. Below(0) = {}
    BY <2>1 DEF Below
  <2>3. PICK i \in Token : depth[i] = 0
    BY DEF Arguments
  <2>4. {i} \subseteq AtMost(0) /\ AtMost(0) \in SUBSET Token /\ {i} \in SUBSET Token
    BY <2>3 DEF AtMost
  <2>5. Cardinality({i}) = 1
    BY FS_Singleton
  <2>6. 1 <= Cardinality(AtMost(0))
    BY <2>4, <2>5, TokensFinite
  <2>7. Cardinality(AtMost(0)) \in Nat
    BY <2>4, TokensFinite
  <2> QED
    BY <2>2, <2>6, <2>7, FS_EmptySet DEF Ranked
<1>7. 0 \in Depths /\ 1 \in 1 .. Vocab
  BY <1>1, SamplingAssumption
<1> QED
  BY <1>5, <1>6, <1>7, InOrderFacts

(* ExactWhenBinsFit: for every vocabulary, block, power-of-two buffer,     *)
(* binning, row, arguments and order of the atomic increments, when the    *)
(* bins down to the last token of the nucleus fit in the buffer, histogram,*)
(* compaction, sort and walk choose a token exactly as likely as sampling  *)
(* from the whole sorted vocabulary would.                                 *)
THEOREM SamplingExact == Spec => []ExactWhenBinsFit
<1>1. SInv => ExactWhenBinsFit
  <2> SUFFICES ASSUME SInv, temperature = "zero", outId # None
               PROVE  depth[outId] = InOrder[Pick(InOrder)]
    BY DEF SInv, Modes, ExactWhenBinsFit
  <2>1. InOrder[Pick(InOrder)] = 0
    BY ZeroPicksFirst DEF SInv, Modes
  <2>2. PICK i \in Token : depth[i] = 0
    BY DEF SInv, Arguments
  <2>3. outId \in Token /\ depth[i] >= depth[outId]
    <3>1. GInv
      BY DEF SInv, IInv
    <3>2. outId \in Token
      BY <3>1, UnpackedFacts
    <3>4. \A j \in Token : depth[j] >= depth[outId]
      BY <3>1, UnpackedFacts
    <3> QED
      BY <2>2, <3>2, <3>4
  <2>4. depth[outId] \in Nat
    BY <2>3, WeightFacts DEF SInv, Arguments
  <2> QED
    BY <2>1, <2>2, <2>3, <2>4
<1> QED
  BY <1>1, InitSInv, NextSInv, PTL DEF Spec

=============================================================================
