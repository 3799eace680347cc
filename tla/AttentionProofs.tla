--------------------------- MODULE AttentionProofs ---------------------------
(***************************************************************************)
(* For every sequence length, number of splits and of warps and every row  *)
(* of scores, decode attention and the prefill softmax are the softmax     *)
(* over the positions the token may see.  A partial softmax is exact over  *)
(* a set of positions when its maximum is the largest score there and its  *)
(* values and sum are the weights at that maximum (Exact); folding in one  *)
(* position, rescaling onto a larger maximum and combining the partials of *)
(* disjoint sets keep it so.                                               *)
(***************************************************************************)
EXTENDS PrefillAttention, FiniteSetTheorems, TLAPS

-----------------------------------------------------------------------------
(* A set of natural numbers has a least member.                            *)
LEMMA LeastNat ==
  ASSUME NEW S \in SUBSET Nat, S # {}
  PROVE  \E x \in S : \A y \in S : x <= y
<1>1. PICK x \in S : \A y \in S : ~ (<<y, x>> \in OpToRel(<, Nat))
  BY NatLessThanWellFounded, WFMin
<1>2. \A y \in S : ~ (y < x)
  BY <1>1 DEF OpToRel
<1> QED
  BY <1>2

(* Induction: a set closed under successor is everything.                  *)
LEMMA Induct ==
  ASSUME NEW S \in SUBSET Nat, 0 \in S, \A n \in S : n + 1 \in S
  PROVE  S = Nat
<1> SUFFICES ASSUME Nat \ S # {} PROVE FALSE
  OBVIOUS
<1>1. PICK x \in Nat \ S : \A y \in Nat \ S : x <= y
  BY LeastNat
<1>2. x - 1 \in Nat /\ x - 1 \notin Nat \ S
  BY <1>1
<1> QED
  BY <1>1, <1>2

(* The functions on 0 .. k that start at x and step by F.                  *)
Runs(x, F, S, k) ==
  {g \in [0 .. k -> S] : g[0] = x /\ \A i \in 0 .. k - 1 : g[i + 1] = F[<<i, g[i]>>]}

LEMMA RunExists ==
  ASSUME NEW S, NEW x \in S, NEW F \in [Nat \X S -> S], NEW k \in Nat
  PROVE  Runs(x, F, S, k) # {}
<1> DEFINE D == {n \in Nat : Runs(x, F, S, n) # {}}
<1>1. 0 \in D
  <2>1. [i \in 0 .. 0 |-> x] \in Runs(x, F, S, 0)
    BY DEF Runs
  <2> QED
    BY <2>1
<1>2. ASSUME NEW n \in D PROVE n + 1 \in D
  <2>1. PICK g \in [0 .. n -> S] : g[0] = x /\ \A i \in 0 .. n - 1 : g[i + 1] = F[<<i, g[i]>>]
    BY DEF Runs
  <2> DEFINE h == [i \in 0 .. n + 1 |-> IF i = n + 1 THEN F[<<n, g[n]>>] ELSE g[i]]
  <2>2. h \in [0 .. n + 1 -> S]
    BY <2>1
  <2>3. h[0] = x
    BY <2>1
  <2>4. \A i \in 0 .. (n + 1) - 1 : h[i + 1] = F[<<i, h[i]>>]
    <3> TAKE i \in 0 .. (n + 1) - 1
    <3>1. CASE i = n
      <4>1. i + 1 = n + 1 /\ n + 1 \in 0 .. n + 1 /\ n \in 0 .. n + 1 /\ n # n + 1
        BY <3>1
      <4>2. h[n + 1] = F[<<n, g[n]>>] /\ h[n] = g[n]
        BY <4>1
      <4> QED
        BY <3>1, <4>2
    <3>2. CASE i # n
      <4>1. i \in 0 .. n - 1 /\ i + 1 \in 0 .. n + 1 /\ i + 1 # n + 1 /\ i # n + 1 /\ i \in 0 .. n + 1
        BY <3>2
      <4> QED
        BY <2>1, <4>1
    <3> QED
      BY <3>1, <3>2
  <2>5. n + 1 \in Nat
    OBVIOUS
  <2>6. h \in Runs(x, F, S, n + 1)
    BY <2>2, <2>3, <2>4 DEF Runs
  <2> QED
    BY <2>5, <2>6
<1>3. D = Nat
  <2> HIDE DEF D
  <2>1. D \in SUBSET Nat
    BY DEF D
  <2> QED
    BY <1>1, <1>2, <2>1, Induct
<1> QED
  BY <1>3

(* Those on Nat.                                                           *)
Orbits(x, F, S) ==
  {f \in [Nat -> S] : f[0] = x /\ \A n \in Nat : f[n + 1] = F[<<n, f[n]>>]}

LEMMA RunsAgree ==
  ASSUME NEW S, NEW x \in S, NEW F \in [Nat \X S -> S], NEW k \in Nat, NEW l \in Nat,
         NEW g \in Runs(x, F, S, k), NEW h \in Runs(x, F, S, l), NEW n \in Nat, n <= k, n <= l
  PROVE  g[n] = h[n]
<1> DEFINE D == {i \in Nat : i <= k /\ i <= l => g[i] = h[i]}
<1>1. 0 \in D
  BY DEF Runs
<1>2. ASSUME NEW i \in D PROVE i + 1 \in D
  <2>1. i + 1 \in Nat
    OBVIOUS
  <2>2. ASSUME i + 1 <= k, i + 1 <= l PROVE g[i + 1] = h[i + 1]
    <3>1. i \in 0 .. k - 1 /\ i \in 0 .. l - 1 /\ g[i] = h[i]
      BY <2>2
    <3> QED
      BY <3>1 DEF Runs
  <2> QED
    BY <2>1, <2>2
<1>3. D = Nat
  <2> HIDE DEF D
  <2>1. D \in SUBSET Nat
    BY DEF D
  <2> QED
    BY <1>1, <1>2, <2>1, Induct
<1> QED
  BY <1>3

(* A first value and a step function define a function on Nat: with this   *)
(* the recursive functions of the specifications are shown to exist.       *)
LEMMA Recursion ==
  ASSUME NEW S, NEW x \in S, NEW F \in [Nat \X S -> S]
  PROVE  Orbits(x, F, S) # {}
<1> DEFINE R(k) == CHOOSE g \in Runs(x, F, S, k) : TRUE
           f == [n \in Nat |-> R(n)[n]]
<1>1. \A k \in Nat : R(k) \in Runs(x, F, S, k)
  BY RunExists
<1> HIDE DEF R
<1>2. f \in [Nat -> S]
  BY <1>1 DEF Runs
<1>3. f[0] = x
  BY <1>1 DEF Runs
<1>4. ASSUME NEW n \in Nat PROVE f[n + 1] = F[<<n, f[n]>>]
  <2>1. n + 1 \in Nat /\ n <= n + 1 /\ n <= n /\ n \in 0 .. (n + 1) - 1
    OBVIOUS
  <2>2. R(n)[n] = R(n + 1)[n]
    BY <1>1, <2>1, RunsAgree
  <2>3. R(n + 1)[n + 1] = F[<<n, R(n + 1)[n]>>]
    BY <1>1, <2>1 DEF Runs
  <2> QED
    BY <2>1, <2>2, <2>3
<1>5. f \in Orbits(x, F, S)
  BY <1>2, <1>3, <1>4 DEF Orbits
<1> QED
  BY <1>5

-----------------------------------------------------------------------------

(* The launch never has more splits than positions, nor fewer than one.    *)
LaunchOK == seqLen \in Nat \ {0} /\ splits \in 1 .. seqLen

(* Rounding up, the chunks of all splits together cover the sequence.      *)
LEMMA ChunksCover ==
  ASSUME LaunchOK
  PROVE  Chunk \in Nat \ {0} /\ Chunk * splits >= seqLen
BY DEF LaunchOK, Chunk

(* Position p lies in block p \div Chunk and in no other.                  *)
LEMMA BlockOfPosition ==
  ASSUME NEW c \in Nat \ {0}, NEW p \in Nat, NEW s \in Nat
  PROVE  (s * c <= p /\ p < s * c + c) <=> s = p \div c
<1> DEFINE q == p \div c
<1>1. q \in Nat /\ q * c <= p /\ p < q * c + c
  OBVIOUS
<1> HIDE DEF q
<1>2. ASSUME s * c <= p, p < s * c + c PROVE s = q
  <2>1. ASSUME s < q PROVE FALSE
    <3>1. (s + 1) * c <= q * c
      BY <1>1, <2>1
    <3> QED
      BY <1>1, <1>2, <3>1
  <2>2. ASSUME q < s PROVE FALSE
    <3>1. (q + 1) * c <= s * c
      BY <1>1, <2>2
    <3> QED
      BY <1>1, <1>2, <3>1
  <2> QED
    BY <1>1, <2>1, <2>2
<1> QED
  BY <1>1, <1>2 DEF q

(* A position below the length lies in one of the launched blocks.         *)
LEMMA BlockLaunched ==
  ASSUME NEW c \in Nat \ {0}, NEW k \in Nat, NEW p \in Nat, p < c * k
  PROVE  p \div c \in 0 .. k - 1
<1> DEFINE q == p \div c
<1>1. q \in Nat /\ q * c <= p
  OBVIOUS
<1> HIDE DEF q
<1>2. q * c < k * c
  BY <1>1
<1>3. q < k
  BY <1>1, <1>2
<1> QED
  BY <1>1, <1>3 DEF q

LEMMA InStripe ==
  ASSUME LaunchOK, NEW p \in Position, NEW s \in Split, NEW w \in Warp
  PROVE  p \in Stripe(s, w) <=> s = p \div Chunk /\ w = (p - s * Chunk) % Warps
<1> DEFINE c == Chunk
<1>1. c \in Nat \ {0} /\ p \in Nat /\ s \in Nat /\ p < seqLen /\ seqLen \in Nat
  BY ChunksCover DEF LaunchOK, Position, Split
<1>2. Begin(s) = s * c /\ s * c \in Nat
  BY <1>1 DEF Begin
<1> HIDE DEF c
<1>3. p \in Begin(s) .. End(s) - 1 <=> s * c <= p /\ p < s * c + c
  BY <1>1, <1>2 DEF End, c
<1>4. p \in Stripe(s, w) <=> p \in Begin(s) .. End(s) - 1 /\ (p - s * c) % Warps = w
  BY <1>2 DEF Stripe
<1> QED
  BY <1>1, <1>3, <1>4, BlockOfPosition DEF c

LEMMA EachFoldedOnce == ASSUME LaunchOK PROVE EveryPositionOnce
<1> SUFFICES ASSUME NEW p \in Position
             PROVE  \E split \in Split, warp \in Warp :
                      \A s \in Split, w \in Warp :
                        p \in Stripe(s, w) <=> s = split /\ w = warp
  BY DEF EveryPositionOnce
<1> DEFINE split == p \div Chunk
           warp  == (p - split * Chunk) % Warps
<1>1. /\ Chunk \in Nat \ {0} /\ splits \in Nat /\ p \in Nat /\ p < seqLen
      /\ Chunk * splits >= seqLen /\ seqLen \in Nat /\ Chunk * splits \in Nat
  BY ChunksCover DEF LaunchOK, Position
<1>2. split \in Split
  <2>1. p < Chunk * splits
    BY <1>1
  <2> QED
    BY <1>1, <2>1, BlockLaunched DEF Split
<1>3. split \in Nat /\ split * Chunk \in Nat /\ split * Chunk <= p
  BY <1>1, <1>2, BlockOfPosition DEF Split
<1>4. warp \in Warp
  BY <1>1, <1>3, AttentionAssumption DEF Warp
<1>5. ASSUME NEW s \in Split, NEW w \in Warp
      PROVE  p \in Stripe(s, w) <=> s = split /\ w = warp
  BY <1>5, InStripe
<1> QED
  BY <1>2, <1>4, <1>5

(* Whatever the launch, every position is folded by exactly one warp of    *)
(* one block: the softmax neither misses a key nor counts one twice.       *)
THEOREM PositionsFoldedOnce == Spec => []EveryPositionOnce
<1>1. Init => LaunchOK
  <2> SUFFICES ASSUME Init PROVE LaunchOK
    OBVIOUS
  <2>1. PICK wanted \in Wanted : splits = SplitsOf(seqLen, wanted)
    BY DEF Init
  <2> QED
    BY <2>1, AttentionAssumption DEF Init, LaunchOK, SplitsOf, Wanted
<1>2. LaunchOK /\ [Next]_vars => LaunchOK'
  BY DEF LaunchOK, Next, vars, params, WarpFinishes, BlockFinishes, MergeSplits
<1>3. LaunchOK => EveryPositionOnce
  BY EachFoldedOnce
<1> QED
  BY <1>1, <1>2, <1>3, PTL DEF Spec
-----------------------------------------------------------------------------
LEMMA Pow2Defined ==
  /\ Pow2[0] = 1
  /\ \A n \in Nat : Pow2[n] \in Nat \ {0} /\ Pow2[n + 1] = 2 * Pow2[n]
<1> DEFINE S == Nat \ {0}
           F == [z \in Nat \X S |-> 2 * z[2]]
           body(f) == [n \in Nat |-> IF n = 0 THEN 1 ELSE 2 * f[n - 1]]
<1>1. PICK f \in [Nat -> S] : f[0] = 1 /\ \A n \in Nat : f[n + 1] = F[<<n, f[n]>>]
  <2>1. F \in [Nat \X S -> S] /\ 1 \in S
    OBVIOUS
  <2> HIDE DEF F, S
  <2>2. Orbits(1, F, S) # {}
    BY <2>1, Recursion
  <2> QED
    BY <2>2 DEF Orbits
<1>2. \A n \in Nat : f[n + 1] = 2 * f[n]
  BY <1>1
<1>3. f = body(f)
  <2>1. \A n \in Nat : n # 0 => n - 1 \in Nat /\ (n - 1) + 1 = n
    OBVIOUS
  <2>2. \A n \in Nat : f[n] = IF n = 0 THEN 1 ELSE 2 * f[n - 1]
    <3> TAKE n \in Nat
    <3>1. CASE n = 0
      BY <1>1, <3>1
    <3>2. CASE n # 0
      BY <1>2, <2>1, <3>2
    <3> QED
      BY <3>1, <3>2
  <2> QED
    BY <2>2
<1>4. Pow2 = body(Pow2)
  BY <1>3 DEF Pow2
<1> HIDE DEF body
<1>5. \A n \in Nat : Pow2[n] = IF n = 0 THEN 1 ELSE 2 * Pow2[n - 1]
  BY <1>4 DEF body
<1>6. Pow2[0] = 1
  BY <1>5
<1>7. \A n \in Nat : Pow2[n + 1] = 2 * Pow2[n]
  <2> TAKE n \in Nat
  <2>1. n + 1 \in Nat /\ n + 1 # 0 /\ (n + 1) - 1 = n
    OBVIOUS
  <2> QED
    BY <1>5, <2>1
<1>8. \A n \in Nat : Pow2[n] \in Nat \ {0}
  <2> DEFINE D == {n \in Nat : Pow2[n] \in Nat \ {0}}
  <2>1. 0 \in D /\ \A n \in D : n + 1 \in D
    BY <1>6, <1>7
  <2>2. D \in SUBSET Nat
    OBVIOUS
  <2> HIDE DEF D
  <2>3. D = Nat
    BY <2>1, <2>2, Induct
  <2> QED
    BY <2>3 DEF D
<1> QED
  BY <1>6, <1>7, <1>8

LEMMA Pow2Sum ==
  ASSUME NEW a \in Nat, NEW b \in Nat
  PROVE  Pow2[a + b] = Pow2[a] * Pow2[b]
<1> DEFINE D == {n \in Nat : Pow2[a + n] = Pow2[a] * Pow2[n]}
<1>1. 0 \in D
  <2>1. a + 0 = a
    OBVIOUS
  <2> QED
    BY <2>1, Pow2Defined
<1>2. ASSUME NEW n \in D PROVE n + 1 \in D
  <2>1. n + 1 \in Nat /\ a + n \in Nat /\ a + (n + 1) = (a + n) + 1
    OBVIOUS
  <2>2. Pow2[(a + n) + 1] = 2 * Pow2[a + n] /\ Pow2[n + 1] = 2 * Pow2[n]
    BY <2>1, Pow2Defined
  <2>3. Pow2[a] \in Nat /\ Pow2[n] \in Nat /\ Pow2[a + n] = Pow2[a] * Pow2[n]
    BY Pow2Defined
  <2>4. 2 * (Pow2[a] * Pow2[n]) = Pow2[a] * (2 * Pow2[n])
    BY <2>3
  <2> QED
    BY <2>1, <2>2, <2>3, <2>4
<1>3. D = Nat
  <2> HIDE DEF D
  <2>1. D \in SUBSET Nat
    BY DEF D
  <2> QED
    BY <1>1, <1>2, <2>1, Induct
<1> QED
  BY <1>3

(* What was multiplied in divides out again. *)
LEMMA DivideOut ==
  ASSUME NEW d \in Nat \ {0}, NEW v \in Nat
  PROVE  (d * v) \div d = v
<1> DEFINE q == (d * v) \div d
<1>1. d * v \in Nat
  OBVIOUS
<1>2. v * d <= d * v /\ d * v < v * d + d
  OBVIOUS
<1> QED
  BY <1>1, <1>2, BlockOfPosition

(* The running sums of the weights of the positions.                       *)
AreSums(u, w) ==
  /\ u \in [0 .. seqLen -> Nat] /\ u[0] = 0
  /\ \A n \in Position : u[n + 1] = u[n] + w[n]

Weights == [Position -> Nat]

LEMMA SumsDefined ==
  ASSUME seqLen \in Nat, NEW w \in Weights
  PROVE  \E u : AreSums(u, w) /\ Total(w) = u[seqLen]
<1> DEFINE F == [z \in Nat \X Nat |-> z[2] + IF z[1] \in Position THEN w[z[1]] ELSE 0]
           body(f) == [n \in 0 .. seqLen |-> IF n = 0 THEN 0 ELSE f[n - 1] + w[n - 1]]
           sums == CHOOSE f : f = body(f)
<1>1. PICK f \in [Nat -> Nat] : f[0] = 0 /\ \A n \in Nat : f[n + 1] = F[<<n, f[n]>>]
  <2>1. F \in [Nat \X Nat -> Nat] /\ 0 \in Nat
    BY DEF Weights
  <2> HIDE DEF F
  <2>2. Orbits(0, F, Nat) # {}
    BY <2>1, Recursion
  <2> QED
    BY <2>2 DEF Orbits
<1>2. \A n \in Position : f[n + 1] = f[n] + w[n]
  <2> TAKE n \in Position
  <2>1. n \in Nat /\ f[n] \in Nat
    BY DEF Position
  <2>2. F[<<n, f[n]>>] = f[n] + w[n]
    BY <2>1
  <2> QED
    BY <1>1, <2>1, <2>2
<1> DEFINE g == [n \in 0 .. seqLen |-> f[n]]
<1>3. g = body(g)
  <2>1. \A n \in 0 .. seqLen : g[n] = IF n = 0 THEN 0 ELSE g[n - 1] + w[n - 1]
    <3> TAKE n \in 0 .. seqLen
    <3>1. CASE n = 0
      BY <1>1, <3>1
    <3>2. CASE n # 0
      <4>1. n - 1 \in Position /\ n - 1 \in 0 .. seqLen /\ (n - 1) + 1 = n
        BY <3>2 DEF Position
      <4>2. f[(n - 1) + 1] = f[n - 1] + w[n - 1]
        BY <1>2, <4>1
      <4> QED
        BY <3>2, <4>1, <4>2
    <3> QED
      BY <3>1, <3>2
  <2> QED
    BY <2>1
<1>4. sums = body(sums)
  BY <1>3
<1>5. Total(w) = sums[seqLen]
  BY DEF Total
<1> HIDE DEF sums, g, F
<1>6. \A n \in 0 .. seqLen : sums[n] = IF n = 0 THEN 0 ELSE sums[n - 1] + w[n - 1]
  BY <1>4
<1>7. sums[0] = 0
  BY <1>6
<1>8. \A n \in Position : sums[n + 1] = sums[n] + w[n]
  <2> TAKE n \in Position
  <2>1. n + 1 \in 0 .. seqLen /\ n + 1 # 0 /\ (n + 1) - 1 = n
    BY DEF Position
  <2> QED
    BY <1>6, <2>1
<1>9. \A n \in 0 .. seqLen : sums[n] \in Nat
  <2> DEFINE D == {n \in Nat : n <= seqLen => sums[n] \in Nat}
  <2>1. 0 \in D
    BY <1>7
  <2>2. ASSUME NEW n \in D PROVE n + 1 \in D
    <3>1. n + 1 \in Nat
      OBVIOUS
    <3>2. ASSUME n + 1 <= seqLen PROVE sums[n + 1] \in Nat
      <4>1. n \in Position /\ sums[n] \in Nat
        BY <3>2 DEF Position
      <4> QED
        BY <1>8, <4>1 DEF Weights
    <3> QED
      BY <3>1, <3>2
  <2>3. D \in SUBSET Nat
    OBVIOUS
  <2> HIDE DEF D
  <2>4. D = Nat
    BY <2>1, <2>2, <2>3, Induct
  <2> QED
    BY <2>4 DEF D
<1>10. sums = [n \in 0 .. seqLen |-> sums[n]]
  BY <1>4
<1>11. AreSums(sums, w)
  BY <1>7, <1>8, <1>9, <1>10 DEF AreSums
<1> QED
  BY <1>5, <1>11

LEMMA TotalScaled ==
  ASSUME seqLen \in Nat, NEW f \in Weights, NEW g \in Weights, NEW d \in Nat,
         \A p \in Position : f[p] = d * g[p]
  PROVE  Total(f) = d * Total(g)
<1>1. PICK u : AreSums(u, f) /\ Total(f) = u[seqLen]
  BY SumsDefined
<1>2. PICK v : AreSums(v, g) /\ Total(g) = v[seqLen]
  BY SumsDefined
<1> DEFINE D == {n \in Nat : n <= seqLen => u[n] = d * v[n]}
<1>3. 0 \in D
  BY <1>1, <1>2 DEF AreSums
<1>4. ASSUME NEW n \in D PROVE n + 1 \in D
  <2>1. n + 1 \in Nat
    OBVIOUS
  <2>2. ASSUME n + 1 <= seqLen PROVE u[n + 1] = d * v[n + 1]
    <3>1. n \in Position /\ n \in 0 .. seqLen /\ u[n] = d * v[n]
      BY <2>2 DEF Position
    <3>2. u[n + 1] = u[n] + f[n] /\ v[n + 1] = v[n] + g[n] /\ f[n] = d * g[n]
      BY <1>1, <1>2, <3>1 DEF AreSums
    <3>3. v[n] \in Nat /\ g[n] \in Nat
      BY <1>2, <3>1 DEF AreSums, Weights
    <3>4. d * (v[n] + g[n]) = d * v[n] + d * g[n]
      BY <3>3
    <3> QED
      BY <3>1, <3>2, <3>4
  <2> QED
    BY <2>1, <2>2
<1>5. D = Nat
  <2> HIDE DEF D
  <2>1. D \in SUBSET Nat
    BY DEF D
  <2> QED
    BY <1>3, <1>4, <2>1, Induct
<1> QED
  BY <1>1, <1>2, <1>5

LEMMA TotalAdds ==
  ASSUME seqLen \in Nat, NEW f \in Weights, NEW g \in Weights, NEW h \in Weights,
         \A p \in Position : h[p] = f[p] + g[p]
  PROVE  Total(h) = Total(f) + Total(g)
<1>1. PICK u : AreSums(u, f) /\ Total(f) = u[seqLen]
  BY SumsDefined
<1>2. PICK v : AreSums(v, g) /\ Total(g) = v[seqLen]
  BY SumsDefined
<1>3. PICK t : AreSums(t, h) /\ Total(h) = t[seqLen]
  BY SumsDefined
<1> DEFINE D == {n \in Nat : n <= seqLen => t[n] = u[n] + v[n]}
<1>4. 0 \in D
  BY <1>1, <1>2, <1>3 DEF AreSums
<1>5. ASSUME NEW n \in D PROVE n + 1 \in D
  <2>1. n + 1 \in Nat
    OBVIOUS
  <2>2. ASSUME n + 1 <= seqLen PROVE t[n + 1] = u[n + 1] + v[n + 1]
    <3>1. n \in Position /\ n \in 0 .. seqLen /\ t[n] = u[n] + v[n]
      BY <2>2 DEF Position
    <3>2. /\ u[n + 1] = u[n] + f[n] /\ v[n + 1] = v[n] + g[n]
          /\ t[n + 1] = t[n] + h[n] /\ h[n] = f[n] + g[n]
      BY <1>1, <1>2, <1>3, <3>1 DEF AreSums
    <3>3. u[n] \in Nat /\ v[n] \in Nat /\ f[n] \in Nat /\ g[n] \in Nat
      BY <1>1, <1>2, <3>1 DEF AreSums, Weights
    <3> QED
      BY <3>1, <3>2, <3>3
  <2> QED
    BY <2>1, <2>2
<1>6. D = Nat
  <2> HIDE DEF D
  <2>1. D \in SUBSET Nat
    BY DEF D
  <2> QED
    BY <1>4, <1>5, <2>1, Induct
<1> QED
  BY <1>1, <1>2, <1>3, <1>6

LEMMA TotalOfOne ==
  ASSUME seqLen \in Nat, NEW f \in Weights, NEW q \in Position,
         \A p \in Position : p # q => f[p] = 0
  PROVE  Total(f) = f[q]
<1>1. PICK u : AreSums(u, f) /\ Total(f) = u[seqLen]
  BY SumsDefined
<1> DEFINE D == {n \in Nat : n <= seqLen => u[n] = IF q < n THEN f[q] ELSE 0}
<1>2. q \in Nat /\ q < seqLen /\ f[q] \in Nat
  BY DEF Position, Weights
<1>3. 0 \in D
  BY <1>1, <1>2 DEF AreSums
<1>4. ASSUME NEW n \in D PROVE n + 1 \in D
  <2>1. n + 1 \in Nat
    OBVIOUS
  <2>2. ASSUME n + 1 <= seqLen PROVE u[n + 1] = IF q < n + 1 THEN f[q] ELSE 0
    <3>1. n \in Position /\ u[n] = IF q < n THEN f[q] ELSE 0
      BY <2>2 DEF Position
    <3>2. u[n + 1] = u[n] + f[n] /\ (n # q => f[n] = 0)
      BY <1>1, <3>1 DEF AreSums
    <3>3. CASE n = q
      BY <1>2, <3>1, <3>2, <3>3
    <3>4. CASE n # q
      BY <1>2, <3>1, <3>2, <3>4
    <3> QED
      BY <3>3, <3>4
  <2> QED
    BY <2>1, <2>2
<1>5. D = Nat
  <2> HIDE DEF D
  <2>1. D \in SUBSET Nat
    BY DEF D
  <2> QED
    BY <1>3, <1>4, <2>1, Induct
<1>6. seqLen \in D
  BY <1>5
<1> QED
  BY <1>1, <1>2, <1>6

-----------------------------------------------------------------------------
(* A partial softmax over a set of positions: its maximum is the largest   *)
(* score there, and a position weighs Pow2[MaxScore] at that score, half   *)
(* of it one below.                                                        *)
LaunchTypeOK == LaunchOK /\ score \in [Position -> 0 .. MaxScore]

AtLeast(m, P) == m \in {NegInf} \cup (0 .. MaxScore) /\ \A p \in P : score[p] <= m
IsMax(m, P)   == AtLeast(m, P) /\ (m # NegInf => \E p \in P : score[p] = m)

WeightsOf(P, m) ==
  [q \in Position |-> IF q \in P THEN Pow2[MaxScore + (score[q] - m)] ELSE 0]

Exact(part, P) ==
  /\ IsMax(part.max, P)
  /\ part.acc = WeightsOf(P, part.max)
  /\ part.sum = Total(WeightsOf(P, part.max))

LEMMA ScoreBelow ==
  ASSUME LaunchTypeOK, NEW P \in SUBSET Position, NEW m, AtLeast(m, P), NEW p \in P
  PROVE  m \in 0 .. MaxScore /\ score[p] \in 0 .. MaxScore /\ score[p] <= m
BY DEF LaunchTypeOK, AtLeast, NegInf

LEMMA WeightsTyped ==
  ASSUME LaunchTypeOK, NEW P \in SUBSET Position, NEW m, AtLeast(m, P)
  PROVE  WeightsOf(P, m) \in Weights
<1>1. ASSUME NEW q \in P PROVE Pow2[MaxScore + (score[q] - m)] \in Nat
  <2>1. MaxScore + (score[q] - m) \in Nat
    BY ScoreBelow, AttentionAssumption
  <2> QED
    BY <2>1, Pow2Defined
<1> QED
  BY <1>1 DEF WeightsOf, Weights

LEMMA RescaleDivides ==
  ASSUME LaunchTypeOK, NEW P \in SUBSET Position, NEW from, NEW to,
         IsMax(from, P), AtLeast(to, P), from <= to, from # to, from # NegInf
  PROVE  /\ to - from \in Nat
         /\ \A q \in Position :
              WeightsOf(P, from)[q] = Pow2[to - from] * WeightsOf(P, to)[q]
<1>1. from \in 0 .. MaxScore /\ to \in 0 .. MaxScore /\ to - from \in Nat
  BY DEF IsMax, AtLeast, NegInf
<1>2. ASSUME NEW q \in Position
      PROVE WeightsOf(P, from)[q] = Pow2[to - from] * WeightsOf(P, to)[q]
  <2>1. CASE q \in P
    <3>1. score[q] \in 0 .. MaxScore /\ score[q] <= from
      BY <2>1, ScoreBelow DEF IsMax
    <3> DEFINE a == to - from
               b == MaxScore + (score[q] - to)
    <3>2. a \in Nat /\ b \in Nat /\ a + b = MaxScore + (score[q] - from)
      BY <1>1, <3>1, AttentionAssumption
    <3>3. Pow2[a + b] = Pow2[a] * Pow2[b]
      BY <3>2, Pow2Sum
    <3>4. WeightsOf(P, from)[q] = Pow2[MaxScore + (score[q] - from)] /\ WeightsOf(P, to)[q] = Pow2[b]
      BY <2>1 DEF WeightsOf
    <3> HIDE DEF a, b
    <3>5. WeightsOf(P, from)[q] = Pow2[a] * WeightsOf(P, to)[q]
      BY <3>2, <3>3, <3>4
    <3> QED
      BY <3>5 DEF a
  <2>2. CASE q \notin P
    <3>1. WeightsOf(P, from)[q] = 0 /\ WeightsOf(P, to)[q] = 0
      BY <2>2 DEF WeightsOf
    <3>2. Pow2[to - from] \in Nat
      BY <1>1, Pow2Defined
    <3> QED
      BY <3>1, <3>2
  <2> QED
    BY <2>1, <2>2
<1> QED
  BY <1>1, <1>2

LEMMA NoWeight ==
  ASSUME LaunchTypeOK, NEW m
  PROVE  /\ \A q \in Position : WeightsOf({}, m)[q] = 0
         /\ Total(WeightsOf({}, m)) = 0
<1>1. \A q \in Position : WeightsOf({}, m)[q] = 0
  BY DEF WeightsOf
<1>2. WeightsOf({}, m) \in Weights
  BY DEF WeightsOf, Weights
<1>3. 0 \in Position
  BY DEF LaunchTypeOK, LaunchOK, Position
<1>4. Total(WeightsOf({}, m)) = WeightsOf({}, m)[0]
  BY <1>1, <1>2, <1>3, TotalOfOne DEF LaunchTypeOK, LaunchOK
<1> QED
  BY <1>1, <1>3, <1>4

(* Rescaling a partial softmax onto a larger maximum is exact.             *)
LEMMA RescaleExact ==
  ASSUME LaunchTypeOK, NEW P \in SUBSET Position, NEW from, NEW to,
         IsMax(from, P), AtLeast(to, P), from <= to
  PROVE  /\ \A q \in Position :
              Rescale(WeightsOf(P, from)[q], from, to) = WeightsOf(P, to)[q]
         /\ Rescale(Total(WeightsOf(P, from)), from, to) = Total(WeightsOf(P, to))
<1>1. CASE from = to
  BY <1>1 DEF Rescale
<1>2. CASE from # to /\ from = NegInf
  <2>1. P = {}
    BY <1>2 DEF IsMax, AtLeast, NegInf, LaunchTypeOK
  <2> QED
    BY <1>2, <2>1, NoWeight DEF Rescale
<1>3. CASE from # to /\ from # NegInf
  <2> DEFINE d == Pow2[to - from]
             f == WeightsOf(P, from)
             g == WeightsOf(P, to)
  <2>1. d \in Nat \ {0} /\ \A q \in Position : f[q] = d * g[q]
    BY <1>3, RescaleDivides, Pow2Defined
  <2>2. f \in Weights /\ g \in Weights
    BY WeightsTyped DEF IsMax
  <2>3. \A v : Rescale(v, from, to) = v \div d
    BY <1>3 DEF Rescale
  <2>4. seqLen \in Nat
    BY DEF LaunchTypeOK, LaunchOK
  <2> HIDE DEF d, f, g
  <2>5. Total(f) = d * Total(g) /\ Total(g) \in Nat
    <3>1. Total(f) = d * Total(g)
      BY <2>1, <2>2, <2>4, TotalScaled
    <3>2. PICK u : AreSums(u, g) /\ Total(g) = u[seqLen]
      BY <2>2, <2>4, SumsDefined
    <3> QED
      BY <2>4, <3>1, <3>2 DEF AreSums
  <2>6. Total(f) \div d = Total(g)
    BY <2>1, <2>5, DivideOut
  <2>7. \A q \in Position : f[q] \div d = g[q]
    BY <2>1, <2>2, DivideOut DEF Weights
  <2> QED
    BY <2>3, <2>6, <2>7 DEF f, g
<1> QED
  BY <1>1, <1>2, <1>3

LEMMA JoinedMax ==
  ASSUME LaunchTypeOK, NEW P \in SUBSET Position, NEW Q \in SUBSET Position, NEW a, NEW b,
         IsMax(a, P), IsMax(b, Q)
  PROVE  /\ IsMax(Maximum(a, b), P \cup Q)
         /\ AtLeast(Maximum(a, b), P) /\ AtLeast(Maximum(a, b), Q)
         /\ a <= Maximum(a, b) /\ b <= Maximum(a, b)
<1>1. a \in Int /\ b \in Int /\ \A p \in P \cup Q : score[p] \in Int
  BY DEF IsMax, AtLeast, NegInf, LaunchTypeOK
<1> QED
  BY <1>1 DEF IsMax, AtLeast, Maximum, NegInf

LEMMA JoinedWeights ==
  ASSUME LaunchTypeOK, NEW P \in SUBSET Position, NEW Q \in SUBSET Position, NEW m,
         AtLeast(m, P \cup Q), P \cap Q = {}
  PROVE  /\ \A q \in Position : WeightsOf(P \cup Q, m)[q] = WeightsOf(P, m)[q] + WeightsOf(Q, m)[q]
         /\ Total(WeightsOf(P \cup Q, m)) = Total(WeightsOf(P, m)) + Total(WeightsOf(Q, m))
<1>1. AtLeast(m, P) /\ AtLeast(m, Q)
  BY DEF AtLeast
<1>2. /\ WeightsOf(P, m) \in Weights /\ WeightsOf(Q, m) \in Weights
      /\ WeightsOf(P \cup Q, m) \in Weights
  BY <1>1, WeightsTyped
<1>3. ASSUME NEW q \in Position
      PROVE  WeightsOf(P \cup Q, m)[q] = WeightsOf(P, m)[q] + WeightsOf(Q, m)[q]
  <2>1. WeightsOf(P, m)[q] \in Nat /\ WeightsOf(Q, m)[q] \in Nat
    BY <1>2 DEF Weights
  <2> QED
    BY <2>1 DEF WeightsOf
<1>4. seqLen \in Nat
  BY DEF LaunchTypeOK, LaunchOK
<1> QED
  BY <1>2, <1>3, <1>4, TotalAdds

LEMMA EmptyExact == ASSUME LaunchTypeOK PROVE Exact(Empty, {})
<1>1. WeightsOf({}, NegInf) = [q \in Position |-> 0]
  BY DEF WeightsOf
<1> QED
  BY <1>1, NoWeight DEF Exact, Empty, IsMax, AtLeast

(* A single position is a partial softmax of maximum weight.               *)
LEMMA SingleExact ==
  ASSUME LaunchTypeOK, NEW p \in Position
  PROVE  /\ IsMax(score[p], {p})
         /\ WeightsOf({p}, score[p])[p] = One
         /\ Total(WeightsOf({p}, score[p])) = One
<1>1. score[p] \in 0 .. MaxScore /\ MaxScore \in Nat
  BY AttentionAssumption DEF LaunchTypeOK
<1>2. IsMax(score[p], {p})
  BY <1>1 DEF IsMax, AtLeast
<1>3. WeightsOf({p}, score[p])[p] = One
  <2>1. MaxScore + (score[p] - score[p]) = MaxScore
    BY <1>1
  <2> QED
    BY <2>1 DEF WeightsOf, One
<1>4. WeightsOf({p}, score[p]) \in Weights
  BY <1>2, WeightsTyped DEF IsMax
<1>5. \A q \in Position : q # p => WeightsOf({p}, score[p])[q] = 0
  BY DEF WeightsOf
<1>6. Total(WeightsOf({p}, score[p])) = WeightsOf({p}, score[p])[p]
  BY <1>4, <1>5, TotalOfOne DEF LaunchTypeOK, LaunchOK
<1> QED
  BY <1>2, <1>3, <1>6

(* Folding one more position into a partial softmax.                       *)
LEMMA AbsorbExact ==
  ASSUME LaunchTypeOK, NEW P \in SUBSET Position, NEW part, Exact(part, P),
         NEW p \in Position \ P
  PROVE  Exact(Absorb(part, p), P \cup {p})
<1> DEFINE m == Maximum(part.max, score[p])
           Q == {p}
<1>1. IsMax(part.max, P) /\ IsMax(score[p], Q) /\ Q \in SUBSET Position /\ P \cap Q = {}
  BY SingleExact DEF Exact
<1>2. /\ IsMax(m, P \cup Q) /\ AtLeast(m, P) /\ AtLeast(m, Q)
      /\ part.max <= m /\ score[p] <= m
  BY <1>1, JoinedMax
<1> HIDE DEF m, Q
<1>3. AtLeast(m, P \cup Q)
  BY <1>2 DEF IsMax
<1>4. /\ \A q \in Position : Rescale(part.acc[q], part.max, m) = WeightsOf(P, m)[q]
      /\ Rescale(part.sum, part.max, m) = Total(WeightsOf(P, m))
  <2>1. part.acc = WeightsOf(P, part.max) /\ part.sum = Total(WeightsOf(P, part.max))
    BY DEF Exact
  <2>2. /\ \A q \in Position : Rescale(WeightsOf(P, part.max)[q], part.max, m) = WeightsOf(P, m)[q]
        /\ Rescale(Total(WeightsOf(P, part.max)), part.max, m) = Total(WeightsOf(P, m))
    BY <1>1, <1>2, RescaleExact
  <2> QED
    BY <2>1, <2>2
<1>5. /\ Rescale(One, score[p], m) = WeightsOf(Q, m)[p]
      /\ Rescale(One, score[p], m) = Total(WeightsOf(Q, m))
  <2>1. /\ \A q \in Position : Rescale(WeightsOf(Q, score[p])[q], score[p], m) = WeightsOf(Q, m)[q]
        /\ Rescale(Total(WeightsOf(Q, score[p])), score[p], m) = Total(WeightsOf(Q, m))
    BY <1>1, <1>2, RescaleExact
  <2> QED
    BY <2>1, SingleExact DEF Q
<1>6. /\ \A q \in Position : WeightsOf(P \cup Q, m)[q] = WeightsOf(P, m)[q] + WeightsOf(Q, m)[q]
      /\ Total(WeightsOf(P \cup Q, m)) = Total(WeightsOf(P, m)) + Total(WeightsOf(Q, m))
  BY <1>1, <1>3, JoinedWeights
<1>7. \A q \in Position : q # p => WeightsOf(Q, m)[q] = 0
  BY DEF WeightsOf, Q
<1> DEFINE a == Absorb(part, p)
<1>8. /\ a.max = m
      /\ a.sum = Rescale(part.sum, part.max, m) + Rescale(One, score[p], m)
      /\ a.acc = [q \in Position |-> Rescale(part.acc[q], part.max, m)
                                       + IF q = p THEN Rescale(One, score[p], m) ELSE 0]
  <2>1. a = [max |-> m,
             sum |-> Rescale(part.sum, part.max, m) + Rescale(One, score[p], m),
             acc |-> [q \in Position |-> Rescale(part.acc[q], part.max, m)
                                           + IF q = p THEN Rescale(One, score[p], m) ELSE 0]]
    BY DEF Absorb, m
  <2> HIDE DEF a
  <2> QED
    BY <2>1
<1> HIDE DEF a
<1>9. a.sum = Total(WeightsOf(P \cup Q, m))
  BY <1>4, <1>5, <1>6, <1>8
<1>10. \A q \in Position : a.acc[q] = WeightsOf(P \cup Q, m)[q]
  <2> TAKE q \in Position
  <2>1. a.acc[q] = WeightsOf(P, m)[q] + IF q = p THEN WeightsOf(Q, m)[p] ELSE 0
    BY <1>4, <1>5, <1>8
  <2> QED
    BY <1>6, <1>7, <2>1
<1>11. a.acc = WeightsOf(P \cup Q, m)
  <2>1. a.acc = [q \in Position |-> a.acc[q]]
    BY <1>8
  <2>2. WeightsOf(P \cup Q, m) = [q \in Position |-> WeightsOf(P \cup Q, m)[q]]
    BY DEF WeightsOf
  <2> QED
    BY <1>10, <2>1, <2>2
<1>12. Exact(a, P \cup Q)
  BY <1>2, <1>8, <1>9, <1>11 DEF Exact
<1> QED
  BY <1>12 DEF a, Q

PartTypeOK == [max : Int, sum : Int, acc : [Position -> Int]]

LEMMA RescaleTyped ==
  ASSUME NEW v \in Int, NEW from \in Int, NEW to \in Int, from <= to
  PROVE  Rescale(v, from, to) \in Int
<1>1. Pow2[to - from] \in Nat \ {0}
  BY Pow2Defined
<1>2. v \div Pow2[to - from] \in Int
  BY <1>1
<1> QED
  BY <1>2 DEF Rescale

LEMMA AbsorbTyped ==
  ASSUME LaunchTypeOK, NEW part \in PartTypeOK, NEW p \in Position
  PROVE  Absorb(part, p) \in PartTypeOK
<1> DEFINE m == Maximum(part.max, score[p])
<1>1. /\ part.max \in Int /\ part.sum \in Int /\ \A q \in Position : part.acc[q] \in Int
      /\ score[p] \in Int
  BY DEF PartTypeOK, LaunchTypeOK
<1>2. m \in Int /\ part.max <= m /\ score[p] <= m
  BY <1>1 DEF Maximum
<1> HIDE DEF m
<1>3. One \in Int
  BY Pow2Defined, AttentionAssumption DEF One
<1>4. /\ Rescale(part.sum, part.max, m) \in Int /\ Rescale(One, score[p], m) \in Int
      /\ \A q \in Position : Rescale(part.acc[q], part.max, m) \in Int
  BY <1>1, <1>2, <1>3, RescaleTyped
<1>5. Absorb(part, p) =
        [max |-> m,
         sum |-> Rescale(part.sum, part.max, m) + Rescale(One, score[p], m),
         acc |-> [q \in Position |-> Rescale(part.acc[q], part.max, m)
                                       + IF q = p THEN Rescale(One, score[p], m) ELSE 0]]
  BY DEF Absorb, m
<1>6. /\ Rescale(part.sum, part.max, m) + Rescale(One, score[p], m) \in Int
      /\ \A q \in Position : Rescale(part.acc[q], part.max, m)
                               + (IF q = p THEN Rescale(One, score[p], m) ELSE 0) \in Int
  BY <1>4
<1> QED
  BY <1>2, <1>5, <1>6 DEF PartTypeOK

Below(positions, n) == {p \in positions : p < n}

LEMMA BelowFacts ==
  ASSUME seqLen \in Nat, NEW positions \in SUBSET Position
  PROVE  /\ Below(positions, 0) = {}
         /\ Below(positions, seqLen) = positions
         /\ \A n \in Nat : /\ Below(positions, n) \in SUBSET Position
                           /\ n \notin Below(positions, n)
                           /\ n \in positions => Below(positions, n + 1) = Below(positions, n) \cup {n}
                           /\ n \notin positions => Below(positions, n + 1) = Below(positions, n)
<1>1. \A p \in positions : p \in Nat /\ p < seqLen
  BY DEF Position
<1>2. Below(positions, 0) = {} /\ Below(positions, seqLen) = positions
  BY <1>1 DEF Below
<1>3. ASSUME NEW n \in Nat
      PROVE  /\ Below(positions, n) \in SUBSET Position /\ n \notin Below(positions, n)
             /\ n \in positions => Below(positions, n + 1) = Below(positions, n) \cup {n}
             /\ n \notin positions => Below(positions, n + 1) = Below(positions, n)
  <2>1. \A p \in positions : p < n + 1 <=> p < n \/ p = n
    BY <1>1
  <2>2. Below(positions, n) \in SUBSET Position /\ n \notin Below(positions, n)
    BY <1>1 DEF Below
  <2> QED
    BY <2>1, <2>2 DEF Below
<1> QED
  BY <1>2, <1>3

(* Folding a set of positions, in any number and wherever they lie, is the *)
(* partial softmax over them.                                              *)
LEMMA FoldExact ==
  ASSUME LaunchTypeOK, NEW positions \in SUBSET Position
  PROVE  Exact(Fold(positions), positions)
<1> DEFINE S == PartTypeOK
           F == [z \in Nat \X S |-> IF z[1] \in positions THEN Absorb(z[2], z[1]) ELSE z[2]]
           step(u, n) == IF n = 0 THEN Empty
                         ELSE IF n - 1 \in positions THEN Absorb(u[n - 1], n - 1) ELSE u[n - 1]
           body(u) == [n \in 0 .. seqLen |-> step(u, n)]
           upTo == CHOOSE u : u = body(u)
<1>1. seqLen \in Nat /\ Position = 0 .. seqLen - 1
  BY DEF LaunchTypeOK, LaunchOK, Position
<1>2. PICK g \in Runs(Empty, F, S, seqLen) : TRUE
  <2>1. Empty \in S
    BY DEF Empty, PartTypeOK, NegInf
  <2>2. F \in [Nat \X S -> S]
    <3>1. \A z \in Nat \X S : z[1] \in positions => Absorb(z[2], z[1]) \in S
      BY AbsorbTyped
    <3> HIDE DEF S
    <3> QED
      BY <3>1
  <2> HIDE DEF F, S
  <2>3. Runs(Empty, F, S, seqLen) # {}
    BY <1>1, <2>1, <2>2, RunExists
  <2> QED
    BY <2>3
<1>3. /\ g \in [0 .. seqLen -> S] /\ g[0] = Empty
      /\ \A n \in Position :
           g[n + 1] = IF n \in positions THEN Absorb(g[n], n) ELSE g[n]
  <2>1. /\ g \in [0 .. seqLen -> S] /\ g[0] = Empty
        /\ \A n \in Position : g[n + 1] = F[<<n, g[n]>>]
    BY <1>1, <1>2 DEF Runs
  <2>2. \A n \in Position : n \in Nat /\ g[n] \in S
    BY <1>1, <2>1
  <2>3. \A n \in Position : F[<<n, g[n]>>] = IF n \in positions THEN Absorb(g[n], n) ELSE g[n]
    <3> HIDE DEF S
    <3> QED
      BY <2>2
  <2> QED
    BY <2>1, <2>3
<1> HIDE DEF S, F
<1>4. g = body(g)
  <2>1. \A n \in 0 .. seqLen : g[n] = step(g, n)
    <3> TAKE n \in 0 .. seqLen
    <3>1. CASE n = 0
      BY <1>3, <3>1
    <3>2. CASE n # 0
      <4>1. n - 1 \in Position /\ (n - 1) + 1 = n
        BY <1>1, <3>2
      <4> QED
        BY <1>3, <3>2, <4>1
    <3> QED
      BY <3>1, <3>2
  <2> HIDE DEF step
  <2> QED
    BY <1>3, <2>1
<1>5. upTo = body(upTo)
  BY <1>4
<1>6. Fold(positions) = upTo[seqLen]
  BY DEF Fold
<1> HIDE DEF upTo
<1>7. \A n \in 0 .. seqLen : upTo[n] = step(upTo, n)
  <2> HIDE DEF step
  <2> QED
    BY <1>5
<1> DEFINE D == {n \in Nat : n <= seqLen => Exact(upTo[n], Below(positions, n))}
<1> HIDE DEF step
<1>8. 0 \in D
  <2>1. upTo[0] = Empty
    BY <1>1, <1>7 DEF step
  <2>2. Exact(upTo[0], Below(positions, 0))
    BY <1>1, <2>1, EmptyExact, BelowFacts
  <2> QED
    BY <2>2
<1>9. ASSUME NEW n \in D PROVE n + 1 \in D
  <2>1. n \in Nat /\ n + 1 \in Nat
    OBVIOUS
  <2>2. ASSUME n + 1 <= seqLen PROVE Exact(upTo[n + 1], Below(positions, n + 1))
    <3>1. /\ n \in Position /\ n + 1 \in 0 .. seqLen /\ n + 1 # 0 /\ (n + 1) - 1 = n
          /\ Exact(upTo[n], Below(positions, n))
      BY <1>1, <2>1, <2>2
    <3>2. upTo[n + 1] = IF n \in positions THEN Absorb(upTo[n], n) ELSE upTo[n]
      BY <1>7, <3>1 DEF step
    <3>3. Below(positions, n) \in SUBSET Position /\ n \notin Below(positions, n)
      BY <1>1, <2>1, BelowFacts
    <3>4. CASE n \in positions
      <4>1. Below(positions, n + 1) = Below(positions, n) \cup {n}
        BY <1>1, <2>1, <3>4, BelowFacts
      <4>2. Exact(Absorb(upTo[n], n), Below(positions, n) \cup {n})
        BY <3>1, <3>3, AbsorbExact
      <4> QED
        BY <3>2, <3>4, <4>1, <4>2
    <3>5. CASE n \notin positions
      <4>1. Below(positions, n + 1) = Below(positions, n)
        BY <1>1, <2>1, <3>5, BelowFacts
      <4> QED
        BY <3>1, <3>2, <3>5, <4>1
    <3> QED
      BY <3>4, <3>5
  <2> QED
    BY <2>1, <2>2
<1>10. D = Nat
  <2>1. D \in SUBSET Nat
    OBVIOUS
  <2> HIDE DEF D
  <2> QED
    BY <1>8, <1>9, <2>1, Induct
<1>11. Below(positions, seqLen) = positions
  BY <1>1, BelowFacts
<1>12. Exact(upTo[seqLen], Below(positions, seqLen))
  <2>1. seqLen \in D
    BY <1>1, <1>10
  <2> QED
    BY <1>1, <2>1
<1> QED
  BY <1>6, <1>11, <1>12

LEMMA TotalTyped ==
  ASSUME seqLen \in Nat, NEW w \in Weights
  PROVE  Total(w) \in Nat
<1>1. PICK u : AreSums(u, w) /\ Total(w) = u[seqLen]
  BY SumsDefined
<1> QED
  BY <1>1 DEF AreSums

(* Partial softmaxes of disjoint sets of positions, P[i] behind parts[i].  *)
Dealt(parts, k, P) ==
  /\ P \in [0 .. k - 1 -> SUBSET Position]
  /\ \A i \in 0 .. k - 1 : Exact(parts[i], P[i])
  /\ \A i, j \in 0 .. k - 1 : i # j => P[i] \cap P[j] = {}

DealtTo(P, n) == {q \in Position : \E i \in 0 .. n - 1 : q \in P[i]}

LEMMA DealtFacts ==
  ASSUME LaunchTypeOK, NEW k \in Nat, NEW parts, NEW P, Dealt(parts, k, P)
  PROVE  /\ DealtTo(P, 0) = {}
         /\ \A n \in 0 .. k : DealtTo(P, n) \in SUBSET Position
         /\ \A n \in 0 .. k - 1 :
              /\ P[n] \in SUBSET Position /\ Exact(parts[n], P[n])
              /\ DealtTo(P, n + 1) = DealtTo(P, n) \cup P[n]
              /\ DealtTo(P, n) \cap P[n] = {}
              /\ P[n] \in SUBSET DealtTo(P, k) /\ DealtTo(P, n) \in SUBSET DealtTo(P, k)
              /\ parts[n].max \in Int /\ parts[n].sum \in Int
              /\ \A q \in Position : parts[n].acc[q] \in Int
<1>1. DealtTo(P, 0) = {} /\ \A n \in 0 .. k : DealtTo(P, n) \in SUBSET Position
  BY DEF DealtTo
<1>2. ASSUME NEW n \in 0 .. k - 1
      PROVE  /\ P[n] \in SUBSET Position /\ Exact(parts[n], P[n])
             /\ DealtTo(P, n + 1) = DealtTo(P, n) \cup P[n]
             /\ DealtTo(P, n) \cap P[n] = {}
             /\ P[n] \in SUBSET DealtTo(P, k) /\ DealtTo(P, n) \in SUBSET DealtTo(P, k)
  <2>1. P[n] \in SUBSET Position /\ Exact(parts[n], P[n])
    BY DEF Dealt
  <2>2. \A i : i \in 0 .. (n + 1) - 1 <=> i \in 0 .. n - 1 \/ i = n
    OBVIOUS
  <2>3. DealtTo(P, n + 1) = DealtTo(P, n) \cup P[n]
    BY <2>1, <2>2 DEF DealtTo
  <2>4. DealtTo(P, n) \cap P[n] = {}
    <3>1. \A i \in 0 .. n - 1 : i \in 0 .. k - 1 /\ i # n
      OBVIOUS
    <3> QED
      BY <3>1 DEF Dealt, DealtTo
  <2>5. P[n] \in SUBSET DealtTo(P, k) /\ DealtTo(P, n) \in SUBSET DealtTo(P, k)
    BY <2>1 DEF DealtTo
  <2> QED
    BY <2>1, <2>3, <2>4, <2>5
<1>3. ASSUME NEW n \in 0 .. k - 1
      PROVE  /\ parts[n].max \in Int /\ parts[n].sum \in Int
             /\ \A q \in Position : parts[n].acc[q] \in Int
  <2>1. IsMax(parts[n].max, P[n]) /\ P[n] \in SUBSET Position
    BY <1>2 DEF Exact
  <2>2. /\ parts[n].acc = WeightsOf(P[n], parts[n].max)
        /\ parts[n].sum = Total(WeightsOf(P[n], parts[n].max))
    BY <1>2 DEF Exact
  <2>3. WeightsOf(P[n], parts[n].max) \in Weights
    BY <2>1, WeightsTyped DEF IsMax
  <2>4. parts[n].max \in Int
    BY <2>1 DEF IsMax, AtLeast, NegInf
  <2>5. parts[n].sum \in Nat
    BY <2>2, <2>3, TotalTyped DEF LaunchTypeOK, LaunchOK
  <2>6. \A q \in Position : parts[n].acc[q] \in Nat
    BY <2>2, <2>3 DEF Weights
  <2> QED
    BY <2>4, <2>5, <2>6
<1> QED
  BY <1>1, <1>2, <1>3

(* Maximum and sum of two partial softmaxes of disjoint sets.              *)
LEMMA PairExact ==
  ASSUME LaunchTypeOK, NEW P \in SUBSET Position, NEW Q \in SUBSET Position, P \cap Q = {},
         NEW a, NEW b, IsMax(a, P), IsMax(b, Q), NEW m, m = Maximum(a, b)
  PROVE  /\ IsMax(m, P \cup Q) /\ a <= m /\ b <= m
         /\ Rescale(Total(WeightsOf(P, a)), a, m) = Total(WeightsOf(P, m))
         /\ Rescale(Total(WeightsOf(Q, b)), b, m) = Total(WeightsOf(Q, m))
         /\ Total(WeightsOf(P \cup Q, m)) = Total(WeightsOf(P, m)) + Total(WeightsOf(Q, m))
<1>1. IsMax(m, P \cup Q) /\ AtLeast(m, P) /\ AtLeast(m, Q) /\ a <= m /\ b <= m
  BY JoinedMax
<1>2. AtLeast(m, P \cup Q)
  BY <1>1 DEF IsMax
<1>3. Rescale(Total(WeightsOf(P, a)), a, m) = Total(WeightsOf(P, m))
  BY <1>1, RescaleExact
<1>4. Rescale(Total(WeightsOf(Q, b)), b, m) = Total(WeightsOf(Q, m))
  BY <1>1, RescaleExact
<1>5. Total(WeightsOf(P \cup Q, m)) = Total(WeightsOf(P, m)) + Total(WeightsOf(Q, m))
  BY <1>2, JoinedWeights
<1> QED
  BY <1>1, <1>3, <1>4, <1>5

CombinedExact(c, P) == IsMax(c.max, P) /\ c.sum = Total(WeightsOf(P, c.max))

(* One step of softmax_combine.                                            *)
CombineStep(c, part) ==
  LET m == Maximum(c.max, part.max)
  IN  [max |-> m, sum |-> Rescale(c.sum, c.max, m) + Rescale(part.sum, part.max, m)]

LEMMA CombineStepExact ==
  ASSUME LaunchTypeOK, NEW P \in SUBSET Position, NEW Q \in SUBSET Position, P \cap Q = {},
         NEW c, CombinedExact(c, P), NEW part, Exact(part, Q)
  PROVE  /\ CombinedExact(CombineStep(c, part), P \cup Q)
         /\ c.max <= CombineStep(c, part).max /\ part.max <= CombineStep(c, part).max
<1> DEFINE m == Maximum(c.max, part.max)
<1>1. /\ IsMax(c.max, P) /\ c.sum = Total(WeightsOf(P, c.max))
      /\ IsMax(part.max, Q) /\ part.sum = Total(WeightsOf(Q, part.max))
  BY DEF CombinedExact, Exact
<1>2. CombineStep(c, part) =
        [max |-> m, sum |-> Rescale(c.sum, c.max, m) + Rescale(part.sum, part.max, m)]
  BY DEF CombineStep
<1>3. m = Maximum(c.max, part.max)
  OBVIOUS
<1> DEFINE a == c.max
           b == part.max
<1> HIDE DEF m
<1>4. /\ IsMax(m, P \cup Q) /\ c.max <= m /\ part.max <= m
      /\ Rescale(Total(WeightsOf(P, c.max)), c.max, m)
           + Rescale(Total(WeightsOf(Q, part.max)), part.max, m) = Total(WeightsOf(P \cup Q, m))
  <2>1. IsMax(a, P) /\ IsMax(b, Q) /\ m = Maximum(a, b)
    BY <1>1, <1>3
  <2> HIDE DEF a, b
  <2>2. /\ IsMax(m, P \cup Q) /\ a <= m /\ b <= m
        /\ Rescale(Total(WeightsOf(P, a)), a, m) = Total(WeightsOf(P, m))
        /\ Rescale(Total(WeightsOf(Q, b)), b, m) = Total(WeightsOf(Q, m))
        /\ Total(WeightsOf(P \cup Q, m)) = Total(WeightsOf(P, m)) + Total(WeightsOf(Q, m))
    BY <2>1, PairExact
  <2> QED
    BY <2>2 DEF a, b
<1> DEFINE d == CombineStep(c, part)
<1>5. d.max = m /\ d.sum = Rescale(c.sum, c.max, m) + Rescale(part.sum, part.max, m)
  BY <1>2
<1> HIDE DEF d
<1>6. d.sum = Total(WeightsOf(P \cup Q, m))
  BY <1>1, <1>4, <1>5
<1>7. CombinedExact(d, P \cup Q) /\ c.max <= d.max /\ part.max <= d.max
  BY <1>4, <1>5, <1>6 DEF CombinedExact
<1> QED
  BY <1>7 DEF d

LEMMA CombineStepTyped ==
  ASSUME NEW c \in [max : Int, sum : Int], NEW part, part.max \in Int, part.sum \in Int
  PROVE  CombineStep(c, part) \in [max : Int, sum : Int]
<1> DEFINE m == Maximum(c.max, part.max)
<1>1. m \in Int /\ c.max <= m /\ part.max <= m /\ c.max \in Int /\ c.sum \in Int
  BY DEF Maximum
<1>2. CombineStep(c, part) =
        [max |-> m, sum |-> Rescale(c.sum, c.max, m) + Rescale(part.sum, part.max, m)]
  BY DEF CombineStep
<1> HIDE DEF m
<1>3. Rescale(c.sum, c.max, m) \in Int /\ Rescale(part.sum, part.max, m) \in Int
  BY <1>1, RescaleTyped
<1> QED
  BY <1>1, <1>2, <1>3

NothingCombined == [max |-> NegInf, sum |-> 0]

(* Combine as a run of CombineStep over the parts.                         *)
IsCombineRun(u, parts, k) ==
  /\ u[0] = NothingCombined
  /\ \A n \in 0 .. k - 1 : u[n + 1] = CombineStep(u[n], parts[n])

LEMMA CombineDefined ==
  ASSUME NEW k \in Nat, NEW parts,
         \A n \in 0 .. k - 1 : parts[n].max \in Int /\ parts[n].sum \in Int
  PROVE  \E u : IsCombineRun(u, parts, k) /\ Combine(parts, k) = u[k]
<1> DEFINE S == [max : Int, sum : Int]
           F == [z \in Nat \X S |-> IF z[1] \in 0 .. k - 1 THEN CombineStep(z[2], parts[z[1]]) ELSE z[2]]
           step(u, n) ==
             IF n = 0 THEN [max |-> NegInf, sum |-> 0]
             ELSE LET m == Maximum(u[n - 1].max, parts[n - 1].max)
                  IN  [max |-> m,
                       sum |-> Rescale(u[n - 1].sum, u[n - 1].max, m)
                                 + Rescale(parts[n - 1].sum, parts[n - 1].max, m)]
           body(u) == [n \in 0 .. k |-> step(u, n)]
           upTo == CHOOSE u : u = body(u)
<1>1. \A u, n : step(u, n) = IF n = 0 THEN NothingCombined ELSE CombineStep(u[n - 1], parts[n - 1])
  BY DEF NothingCombined, CombineStep
<1>2. PICK g \in Runs(NothingCombined, F, S, k) : TRUE
  <2>1. NothingCombined \in S
    BY DEF NothingCombined, NegInf
  <2>2. F \in [Nat \X S -> S]
    <3>1. \A z \in Nat \X S : z[1] \in 0 .. k - 1 => CombineStep(z[2], parts[z[1]]) \in S
      BY CombineStepTyped
    <3> HIDE DEF S
    <3> QED
      BY <3>1
  <2> HIDE DEF F, S
  <2>3. Runs(NothingCombined, F, S, k) # {}
    BY <2>1, <2>2, RunExists
  <2> QED
    BY <2>3
<1>3. /\ g \in [0 .. k -> S] /\ g[0] = NothingCombined
      /\ \A n \in 0 .. k - 1 : g[n + 1] = CombineStep(g[n], parts[n])
  <2>1. /\ g \in [0 .. k -> S] /\ g[0] = NothingCombined
        /\ \A n \in 0 .. k - 1 : g[n + 1] = F[<<n, g[n]>>]
    BY <1>2 DEF Runs
  <2>2. \A n \in 0 .. k - 1 : n \in Nat /\ g[n] \in S
    BY <2>1
  <2>3. \A n \in 0 .. k - 1 : F[<<n, g[n]>>] = CombineStep(g[n], parts[n])
    <3> HIDE DEF S
    <3> QED
      BY <2>2
  <2> QED
    BY <2>1, <2>3
<1>4. Combine(parts, k) = upTo[k]
  BY DEF Combine
<1> HIDE DEF S, F, step
<1>5. g = body(g)
  <2>1. \A n \in 0 .. k : g[n] = step(g, n)
    <3> TAKE n \in 0 .. k
    <3>1. CASE n = 0
      BY <1>1, <1>3, <3>1
    <3>2. CASE n # 0
      <4>1. n - 1 \in 0 .. k - 1 /\ (n - 1) + 1 = n
        BY <3>2
      <4> QED
        BY <1>1, <1>3, <3>2, <4>1
    <3> QED
      BY <3>1, <3>2
  <2> QED
    BY <1>3, <2>1
<1>6. upTo = body(upTo)
  BY <1>5
<1> HIDE DEF upTo
<1>7. \A n \in 0 .. k : upTo[n] = step(upTo, n)
  BY <1>6
<1>8. upTo[0] = NothingCombined
  BY <1>1, <1>7
<1>9. \A n \in 0 .. k - 1 : upTo[n + 1] = CombineStep(upTo[n], parts[n])
  <2> TAKE n \in 0 .. k - 1
  <2>1. n + 1 \in 0 .. k /\ n + 1 # 0 /\ (n + 1) - 1 = n
    OBVIOUS
  <2>2. upTo[n + 1] = step(upTo, n + 1)
    BY <1>7, <2>1
  <2> QED
    BY <1>1, <2>1, <2>2
<1>10. IsCombineRun(upTo, parts, k)
  BY <1>8, <1>9 DEF IsCombineRun
<1> QED
  BY <1>4, <1>10

(* softmax_combine over parts of disjoint sets of positions.               *)
LEMMA CombineExact ==
  ASSUME LaunchTypeOK, NEW k \in Nat, NEW parts, NEW P, Dealt(parts, k, P)
  PROVE  /\ CombinedExact(Combine(parts, k), DealtTo(P, k))
         /\ \A i \in 0 .. k - 1 : parts[i].max <= Combine(parts, k).max
<1>1. \A n \in 0 .. k - 1 : parts[n].max \in Int /\ parts[n].sum \in Int
  BY DealtFacts
<1>2. PICK u : IsCombineRun(u, parts, k) /\ Combine(parts, k) = u[k]
  BY <1>1, CombineDefined
<1> DEFINE Good(n) == /\ CombinedExact(u[n], DealtTo(P, n))
                      /\ \A i \in 0 .. n - 1 : parts[i].max <= u[n].max
           D == {n \in Nat : n <= k => Good(n)}
<1>3. 0 \in D
  <2>1. DealtTo(P, 0) = {} /\ u[0] = NothingCombined
    BY <1>2, DealtFacts DEF IsCombineRun
  <2>2. CombinedExact(NothingCombined, {})
    BY NoWeight DEF CombinedExact, NothingCombined, IsMax, AtLeast
  <2> QED
    BY <2>1, <2>2
<1>4. ASSUME NEW n \in D PROVE n + 1 \in D
  <2>1. n \in Nat /\ n + 1 \in Nat
    OBVIOUS
  <2>2. ASSUME n + 1 <= k PROVE Good(n + 1)
    <3>1. n \in 0 .. k - 1 /\ n \in 0 .. k /\ Good(n)
      BY <2>1, <2>2
    <3>2. /\ P[n] \in SUBSET Position /\ Exact(parts[n], P[n])
          /\ DealtTo(P, n + 1) = DealtTo(P, n) \cup P[n]
          /\ DealtTo(P, n) \cap P[n] = {} /\ DealtTo(P, n) \in SUBSET Position
      BY <3>1, DealtFacts
    <3>3. u[n + 1] = CombineStep(u[n], parts[n])
      BY <1>2, <3>1 DEF IsCombineRun
    <3>4. /\ CombinedExact(u[n + 1], DealtTo(P, n + 1))
          /\ u[n].max <= u[n + 1].max /\ parts[n].max <= u[n + 1].max
      <4>1. CombinedExact(u[n], DealtTo(P, n))
        BY <3>1
      <4> DEFINE c == u[n]
                 part == parts[n]
                 Before == DealtTo(P, n)
      <4>2. /\ CombinedExact(c, Before) /\ Exact(part, P[n]) /\ Before \cap P[n] = {}
            /\ Before \in SUBSET Position /\ P[n] \in SUBSET Position
        BY <3>2, <4>1
      <4> HIDE DEF c, part, Before
      <4>3. /\ CombinedExact(CombineStep(c, part), Before \cup P[n])
            /\ c.max <= CombineStep(c, part).max /\ part.max <= CombineStep(c, part).max
        BY <4>2, CombineStepExact
      <4> QED
        BY <3>2, <3>3, <4>3 DEF c, part, Before
    <3>5. u[n].max \in Int /\ u[n + 1].max \in Int
      BY <3>1, <3>4 DEF CombinedExact, IsMax, AtLeast, NegInf
    <3>6. ASSUME NEW i \in 0 .. (n + 1) - 1 PROVE parts[i].max <= u[n + 1].max
      <4>1. i \in 0 .. n - 1 \/ i = n
        BY <2>1
      <4>2. CASE i \in 0 .. n - 1
        <5>1. parts[i].max \in Int /\ parts[i].max <= u[n].max
          BY <1>1, <3>1, <4>2
        <5> QED
          BY <3>4, <3>5, <5>1
      <4> QED
        BY <3>4, <4>1, <4>2
    <3> QED
      BY <3>4, <3>6
  <2> QED
    BY <2>1, <2>2
<1>5. D = Nat
  <2>1. D \in SUBSET Nat
    OBVIOUS
  <2> HIDE DEF D
  <2> QED
    BY <1>3, <1>4, <2>1, Induct
<1>6. Good(k)
  <2>1. k \in D
    BY <1>5
  <2> HIDE DEF Good
  <2> QED
    BY <2>1
<1> QED
  BY <1>2, <1>6

(* The values of one part, rescaled and added.                             *)
AddStep(acc, part, m) ==
  [q \in Position |-> acc[q] + Rescale(part.acc[q], part.max, m)]

IsMergeRun(u, parts, k, m) ==
  /\ u[0] = [q \in Position |-> 0]
  /\ \A n \in 0 .. k - 1 : u[n + 1] = AddStep(u[n], parts[n], m)

LEMMA MergeValuesDefined ==
  ASSUME NEW k \in Nat, NEW parts, NEW m \in Int, m = Combine(parts, k).max,
         \A n \in 0 .. k - 1 : /\ parts[n].max \in Int /\ parts[n].max <= m
                               /\ \A q \in Position : parts[n].acc[q] \in Int
  PROVE  \E u : IsMergeRun(u, parts, k, m) /\ MergeValues(parts, k) = u[k]
<1> DEFINE S == [Position -> Int]
           x == [q \in Position |-> 0]
           F == [z \in Nat \X S |-> IF z[1] \in 0 .. k - 1 THEN AddStep(z[2], parts[z[1]], m) ELSE z[2]]
           M == Combine(parts, k).max
           step(u, n) ==
             IF n = 0 THEN Empty.acc
             ELSE [q \in Position |-> u[n - 1][q] + Rescale(parts[n - 1].acc[q], parts[n - 1].max, M)]
           body(u) == [n \in 0 .. k |-> step(u, n)]
           upTo == CHOOSE u : u = body(u)
<1>1. \A u, n : step(u, n) = IF n = 0 THEN x ELSE AddStep(u[n - 1], parts[n - 1], m)
  <2>1. Empty.acc = x
    BY DEF Empty
  <2> HIDE DEF x
  <2> QED
    BY <2>1 DEF AddStep
<1>2. MergeValues(parts, k) = upTo[k]
  BY DEF MergeValues
<1>3. PICK g \in Runs(x, F, S, k) : TRUE
  <2>1. x \in S
    OBVIOUS
  <2>2. F \in [Nat \X S -> S]
    <3>1. ASSUME NEW acc \in S, NEW n \in 0 .. k - 1 PROVE AddStep(acc, parts[n], m) \in S
      <4>1. \A q \in Position : acc[q] \in Int /\ Rescale(parts[n].acc[q], parts[n].max, m) \in Int
        BY RescaleTyped
      <4> QED
        BY <4>1 DEF AddStep
    <3> HIDE DEF S
    <3> QED
      BY <3>1
  <2> HIDE DEF F, S, x
  <2>3. Runs(x, F, S, k) # {}
    BY <2>1, <2>2, RunExists
  <2> QED
    BY <2>3
<1>4. /\ g \in [0 .. k -> S] /\ g[0] = x
      /\ \A n \in 0 .. k - 1 : g[n + 1] = AddStep(g[n], parts[n], m)
  <2> HIDE DEF x, S
  <2>1. /\ g \in [0 .. k -> S] /\ g[0] = x
        /\ \A n \in 0 .. k - 1 : g[n + 1] = F[<<n, g[n]>>]
    BY <1>3 DEF Runs
  <2>2. \A n \in 0 .. k - 1 : n \in Nat /\ g[n] \in S
    BY <2>1
  <2>3. \A n \in 0 .. k - 1 : F[<<n, g[n]>>] = AddStep(g[n], parts[n], m)
    BY <2>2
  <2> QED
    BY <2>1, <2>3
<1> HIDE DEF S, F, step, x
<1>5. g = body(g)
  <2>1. \A n \in 0 .. k : g[n] = step(g, n)
    <3> TAKE n \in 0 .. k
    <3>1. CASE n = 0
      BY <1>1, <1>4, <3>1
    <3>2. CASE n # 0
      <4>1. n - 1 \in 0 .. k - 1 /\ (n - 1) + 1 = n
        BY <3>2
      <4> QED
        BY <1>1, <1>4, <3>2, <4>1
    <3> QED
      BY <3>1, <3>2
  <2> QED
    BY <1>4, <2>1
<1>6. upTo = body(upTo)
  BY <1>5
<1> HIDE DEF upTo
<1>7. \A n \in 0 .. k : upTo[n] = step(upTo, n)
  BY <1>6
<1>8. upTo[0] = x
  BY <1>1, <1>7
<1>9. \A n \in 0 .. k - 1 : upTo[n + 1] = AddStep(upTo[n], parts[n], m)
  <2> TAKE n \in 0 .. k - 1
  <2>1. n + 1 \in 0 .. k /\ n + 1 # 0 /\ (n + 1) - 1 = n
    OBVIOUS
  <2>2. upTo[n + 1] = step(upTo, n + 1)
    BY <1>7, <2>1
  <2> QED
    BY <1>1, <2>1, <2>2
<1>10. IsMergeRun(upTo, parts, k, m)
  BY <1>8, <1>9 DEF IsMergeRun, x
<1> QED
  BY <1>2, <1>10

LEMMA AddStepExact ==
  ASSUME LaunchTypeOK, NEW P \in SUBSET Position, NEW Q \in SUBSET Position, P \cap Q = {},
         NEW m, AtLeast(m, P \cup Q), NEW part, Exact(part, Q), part.max <= m
  PROVE  AddStep(WeightsOf(P, m), part, m) = WeightsOf(P \cup Q, m)
<1>1. IsMax(part.max, Q) /\ part.acc = WeightsOf(Q, part.max) /\ AtLeast(m, Q)
  BY DEF Exact, AtLeast
<1>2. \A q \in Position : Rescale(WeightsOf(Q, part.max)[q], part.max, m) = WeightsOf(Q, m)[q]
  <2> DEFINE from == part.max
  <2>1. IsMax(from, Q) /\ from <= m
    BY <1>1
  <2> HIDE DEF from
  <2>2. \A q \in Position : Rescale(WeightsOf(Q, from)[q], from, m) = WeightsOf(Q, m)[q]
    BY <1>1, <2>1, RescaleExact
  <2> QED
    BY <2>2 DEF from
<1>3. /\ \A q \in Position : WeightsOf(P \cup Q, m)[q] = WeightsOf(P, m)[q] + WeightsOf(Q, m)[q]
      /\ Total(WeightsOf(P \cup Q, m)) = Total(WeightsOf(P, m)) + Total(WeightsOf(Q, m))
  BY JoinedWeights
<1>4. AddStep(WeightsOf(P, m), part, m) = [q \in Position |-> WeightsOf(P \cup Q, m)[q]]
  <2>1. \A q \in Position :
          WeightsOf(P, m)[q] + Rescale(part.acc[q], part.max, m) = WeightsOf(P \cup Q, m)[q]
    BY <1>1, <1>2, <1>3
  <2> QED
    BY <2>1 DEF AddStep
<1>5. WeightsOf(P \cup Q, m) = [q \in Position |-> WeightsOf(P \cup Q, m)[q]]
  BY DEF WeightsOf
<1> QED
  BY <1>4, <1>5

(* The combined parts are the partial softmax over all their positions:    *)
(* stated once, used for the warps of a block and for the splits.          *)
LEMMA MergeExact ==
  ASSUME LaunchTypeOK, NEW k \in Nat, NEW parts, NEW P, Dealt(parts, k, P)
  PROVE  Exact(Merge(parts, k), DealtTo(P, k))
<1> DEFINE m == Combine(parts, k).max
           All == DealtTo(P, k)
<1>1. /\ IsMax(m, All) /\ Combine(parts, k).sum = Total(WeightsOf(All, m))
      /\ \A i \in 0 .. k - 1 : parts[i].max <= m
  BY CombineExact DEF CombinedExact
<1>2. \A n \in 0 .. k - 1 : /\ parts[n].max \in Int
                            /\ \A q \in Position : parts[n].acc[q] \in Int
  BY DealtFacts
<1>3. m \in Int /\ AtLeast(m, All)
  BY <1>1 DEF IsMax, AtLeast, NegInf
<1>4. PICK u : IsMergeRun(u, parts, k, m) /\ MergeValues(parts, k) = u[k]
  BY <1>1, <1>2, <1>3, MergeValuesDefined
<1>5. /\ (Merge(parts, k)).max = m /\ (Merge(parts, k)).sum = Combine(parts, k).sum
      /\ (Merge(parts, k)).acc = u[k]
  BY <1>4 DEF Merge
<1> HIDE DEF m
<1> DEFINE D == {n \in Nat : n <= k => u[n] = WeightsOf(DealtTo(P, n), m)}
<1>6. 0 \in D
  <2>1. DealtTo(P, 0) = {}
    BY DealtFacts
  <2>2. WeightsOf({}, m) = [q \in Position |-> 0]
    BY DEF WeightsOf
  <2> QED
    BY <1>4, <2>1, <2>2 DEF IsMergeRun
<1>7. ASSUME NEW n \in D PROVE n + 1 \in D
  <2>1. n \in Nat /\ n + 1 \in Nat
    OBVIOUS
  <2>2. ASSUME n + 1 <= k PROVE u[n + 1] = WeightsOf(DealtTo(P, n + 1), m)
    <3>1. n \in 0 .. k - 1 /\ n \in 0 .. k /\ n + 1 \in 0 .. k /\ u[n] = WeightsOf(DealtTo(P, n), m)
      BY <2>1, <2>2
    <3>2. u[n + 1] = AddStep(u[n], parts[n], m)
      BY <1>4, <3>1 DEF IsMergeRun
    <3> DEFINE Before == DealtTo(P, n)
               part == parts[n]
    <3>3. /\ P[n] \in SUBSET Position /\ Exact(part, P[n])
          /\ DealtTo(P, n + 1) = Before \cup P[n]
          /\ Before \cap P[n] = {} /\ Before \in SUBSET Position
          /\ Before \cup P[n] \in SUBSET All
      BY <3>1, DealtFacts
    <3>4. part.max <= m
      BY <1>1, <3>1
    <3> HIDE DEF Before, part, All
    <3>5. AtLeast(m, Before \cup P[n])
      BY <1>3, <3>3 DEF AtLeast
    <3>6. AddStep(WeightsOf(Before, m), part, m) = WeightsOf(Before \cup P[n], m)
      BY <3>3, <3>4, <3>5, AddStepExact
    <3> QED
      BY <3>1, <3>2, <3>3, <3>6 DEF Before, part
  <2> QED
    BY <2>1, <2>2
<1>8. D = Nat
  <2>1. D \in SUBSET Nat
    OBVIOUS
  <2> HIDE DEF D
  <2> QED
    BY <1>6, <1>7, <2>1, Induct
<1>9. u[k] = WeightsOf(All, m)
  <2>1. k \in D
    BY <1>8
  <2> HIDE DEF All
  <2> QED
    BY <2>1 DEF All
<1> QED
  BY <1>1, <1>5, <1>9 DEF Exact

-----------------------------------------------------------------------------
(* The positions of a block.                                               *)
BlockPositions(split) == {p \in Position : p \div Chunk = split}

(* The output as a partial softmax, whatever the maximum was.              *)
Weighed(o, P) ==
  \E m \in {NegInf} \cup (0 .. MaxScore) : Exact([max |-> m, sum |-> o.sum, acc |-> o.acc], P)

(* What the warps that have passed and the blocks that have finished left  *)
(* in memory.  The values are quantified over so that what is said of them *)
(* carries over a step that leaves the launch alone.                       *)
WarpsExact ==
  \A z \in warpDone : \A part, P :
    part = shared[z] /\ P = Stripe(z[1], z[2]) => Exact(part, P)
BlocksExact ==
  splits > 1 => \A s \in blockDone : \A part, P :
                  part = partials[s] /\ P = BlockPositions(s) => Exact(part, P)
OutputExact ==
  out # NoOutput => \A o, P : o = out /\ P = Position => Weighed(o, P)

DecodeInv ==
  /\ LaunchTypeOK
  /\ DOMAIN shared = Split \X Warp /\ warpDone \in SUBSET (Split \X Warp)
  /\ DOMAIN partials = Split /\ blockDone \in SUBSET Split
  /\ WarpsExact /\ BlocksExact /\ OutputExact

LEMMA ExactUnchanged ==
  ASSUME UNCHANGED params, NEW part, NEW P, Exact(part, P)
  PROVE  Exact(part, P)'
BY DEF params, Exact, IsMax, AtLeast, WeightsOf, Total, Position

LEMMA StripesDealt ==
  ASSUME LaunchTypeOK, NEW s \in Split
  PROVE  /\ \A w \in Warp : Stripe(s, w) \in SUBSET Position
         /\ \A v, w \in Warp : v # w => Stripe(s, v) \cap Stripe(s, w) = {}
         /\ DealtTo([w \in 0 .. Warps - 1 |-> Stripe(s, w)], Warps) = BlockPositions(s)
<1> USE AttentionAssumption
<1>1. LaunchOK /\ seqLen \in Nat
  BY DEF LaunchTypeOK, LaunchOK
<1>2. Chunk \in Nat \ {0}
  BY <1>1, ChunksCover
<1>3. s \in Nat /\ Begin(s) = s * Chunk /\ s * Chunk \in Nat
  BY <1>2 DEF Begin, Split
<1>4. \A w \in Warp : Stripe(s, w) \in SUBSET Position
  <2> TAKE w \in Warp
  <2> DEFINE b == Begin(s)
             e == End(s)
  <2>1. b \in Nat /\ e \in Int /\ e <= seqLen
    BY <1>1, <1>2, <1>3 DEF End
  <2> HIDE DEF b, e
  <2>2. b .. e - 1 \subseteq 0 .. seqLen - 1
    BY <1>1, <2>1
  <2>3. Stripe(s, w) \subseteq b .. e - 1
    BY DEF Stripe, b, e
  <2> QED
    BY <2>2, <2>3 DEF Position
<1>5. \A v, w \in Warp : v # w => Stripe(s, v) \cap Stripe(s, w) = {}
  BY DEF Stripe
<1>6. ASSUME NEW p \in Position
      PROVE  (\E w \in Warp : p \in Stripe(s, w)) <=> p \div Chunk = s
  <2> DEFINE w == (p - s * Chunk) % Warps
  <2>1. p \in Int /\ p - s * Chunk \in Int
    BY <1>3 DEF Position
  <2>2. w \in Warp
    BY <2>1 DEF Warp
  <2> HIDE DEF w
  <2>3. \A v \in Warp : p \in Stripe(s, v) <=> s = p \div Chunk /\ v = w
    BY <1>1, InStripe DEF w
  <2> QED
    BY <2>2, <2>3
<1> DEFINE P == [w \in 0 .. Warps - 1 |-> Stripe(s, w)]
<1>7. \A q \in Position : (\E i \in 0 .. Warps - 1 : q \in P[i]) <=> q \div Chunk = s
  BY <1>6 DEF Warp
<1> HIDE DEF P
<1>8. DealtTo(P, Warps) = BlockPositions(s)
  BY <1>7 DEF DealtTo, BlockPositions
<1> QED
  BY <1>4, <1>5, <1>8 DEF P

LEMMA BlocksDealt ==
  ASSUME LaunchTypeOK
  PROVE  /\ \A s \in Split : BlockPositions(s) \in SUBSET Position
         /\ \A s, t \in Split : s # t => BlockPositions(s) \cap BlockPositions(t) = {}
         /\ DealtTo([s \in 0 .. splits - 1 |-> BlockPositions(s)], splits) = Position
         /\ splits = 1 => \A s \in Split : BlockPositions(s) = Position
<1>1. LaunchOK /\ seqLen \in Nat /\ splits \in Nat \ {0} /\ splits - 1 \in Int
  BY DEF LaunchTypeOK, LaunchOK
<1>2. Chunk \in Nat \ {0} /\ Chunk * splits >= seqLen /\ Chunk * splits \in Nat
  BY <1>1, ChunksCover
<1>3. \A p \in Position : p \div Chunk \in Split
  <2> TAKE p \in Position
  <2>1. p \in Nat /\ p < Chunk * splits
    BY <1>1, <1>2 DEF Position
  <2> QED
    BY <1>1, <1>2, <2>1, BlockLaunched DEF Split
<1> DEFINE P == [s \in 0 .. splits - 1 |-> BlockPositions(s)]
<1>4. \A q \in Position : \E s \in 0 .. splits - 1 : q \in P[s]
  BY <1>3 DEF Split, BlockPositions
<1> HIDE DEF P
<1>5. DealtTo(P, splits) = Position
  BY <1>4 DEF DealtTo
<1>6. ASSUME splits = 1, NEW s \in Split PROVE BlockPositions(s) = Position
  <2>1. \A t \in Split : t = s
    BY <1>6 DEF Split
  <2> QED
    BY <1>3, <2>1 DEF BlockPositions
<1> QED
  BY <1>5, <1>6 DEF P, BlockPositions

(* Warp 0 of a block merges what its warps left in shared memory.          *)
LEMMA WarpsMerge ==
  ASSUME LaunchTypeOK, WarpsExact, NEW s \in Split, PastBarrier(s)
  PROVE  Exact(Merge([w \in Warp |-> shared[<<s, w>>]], Warps), BlockPositions(s))
<1> DEFINE parts == [w \in Warp |-> shared[<<s, w>>]]
           P == [w \in 0 .. Warps - 1 |-> Stripe(s, w)]
<1>1. \A w \in Warp : Exact(shared[<<s, w>>], Stripe(s, w))
  BY DEF WarpsExact, PastBarrier
<1>2. Dealt(parts, Warps, P)
  BY <1>1, StripesDealt DEF Dealt, Warp
<1>3. DealtTo(P, Warps) = BlockPositions(s)
  BY StripesDealt
<1> HIDE DEF parts, P
<1>4. Exact(Merge(parts, Warps), DealtTo(P, Warps))
  BY <1>2, MergeExact, AttentionAssumption
<1> QED
  BY <1>3, <1>4 DEF parts

LEMMA SplitsMerge ==
  ASSUME LaunchTypeOK, BlocksExact, splits > 1, blockDone = Split
  PROVE  Exact(Merge(partials, splits), Position)
<1> DEFINE P == [s \in 0 .. splits - 1 |-> BlockPositions(s)]
<1>1. \A s \in Split : Exact(partials[s], BlockPositions(s))
  BY DEF BlocksExact
<1>2. Dealt(partials, splits, P)
  BY <1>1, BlocksDealt DEF Dealt, Split
<1>3. DealtTo(P, splits) = Position
  BY BlocksDealt
<1> HIDE DEF P
<1>4. splits \in Nat
  BY DEF LaunchTypeOK, LaunchOK
<1>5. Exact(Merge(partials, splits), DealtTo(P, splits))
  BY <1>2, <1>4, MergeExact
<1> QED
  BY <1>3, <1>5

LEMMA InitDecodeInv == Init => DecodeInv
<1> SUFFICES ASSUME Init PROVE DecodeInv
  OBVIOUS
<1>1. LaunchTypeOK
  <2>1. PICK wanted \in Wanted : splits = SplitsOf(seqLen, wanted)
    BY DEF Init
  <2>2. LaunchOK
    BY <2>1, AttentionAssumption DEF Init, LaunchOK, SplitsOf, Wanted
  <2> QED
    BY <2>2 DEF Init, LaunchTypeOK
<1> QED
  BY <1>1 DEF Init, DecodeInv, WarpsExact, BlocksExact, OutputExact

(* What is exact after a step that leaves the launch alone is so primed.   *)
LEMMA WarpsCarry ==
  ASSUME UNCHANGED params, \A z \in warpDone' : Exact(shared'[z], Stripe(z[1], z[2]))
  PROVE  WarpsExact'
<1> SUFFICES ASSUME NEW z \in warpDone', NEW part, NEW P, part = shared'[z],
                    P = Stripe(z[1], z[2])'
             PROVE  Exact(part, P)'
  BY DEF WarpsExact
<1>1. P = Stripe(z[1], z[2])
  BY DEF params, Stripe, Begin, End, Chunk
<1> QED
  BY <1>1, ExactUnchanged

LEMMA BlocksCarry ==
  ASSUME UNCHANGED params,
         splits > 1 => \A s \in blockDone' : Exact(partials'[s], BlockPositions(s))
  PROVE  BlocksExact'
<1> SUFFICES ASSUME splits' > 1, NEW s \in blockDone', NEW part, NEW P, part = partials'[s],
                    P = BlockPositions(s)'
             PROVE  Exact(part, P)'
  BY DEF BlocksExact
<1>1. P = BlockPositions(s) /\ splits > 1
  BY DEF params, BlockPositions, Position, Chunk
<1> QED
  BY <1>1, ExactUnchanged

LEMMA OutputCarry ==
  ASSUME UNCHANGED params, out' # NoOutput => Weighed(out', Position)
  PROVE  OutputExact'
<1> SUFFICES ASSUME out' # NoOutput, NEW o, NEW P, o = out', P = Position'
             PROVE  \E m \in {NegInf} \cup (0 .. MaxScore) :
                      Exact([max |-> m, sum |-> o.sum, acc |-> o.acc], P)'
  BY DEF OutputExact, NoOutput, Weighed
<1>1. P = Position
  BY DEF params, Position
<1>2. PICK m \in {NegInf} \cup (0 .. MaxScore) :
        Exact([max |-> m, sum |-> o.sum, acc |-> o.acc], P)
  BY <1>1 DEF Weighed
<1> DEFINE part == [max |-> m, sum |-> o.sum, acc |-> o.acc]
<1>3. Exact(part, P)
  BY <1>2
<1> HIDE DEF part
<1>4. Exact(part, P)'
  BY <1>3, ExactUnchanged
<1> QED
  BY <1>4 DEF part

LEMMA NormalisedWeighed ==
  ASSUME NEW part, NEW P, Exact(part, P)
  PROVE  Weighed(Normalised(part), P)
<1>1. part.max \in {NegInf} \cup (0 .. MaxScore)
  BY DEF Exact, IsMax, AtLeast
<1> DEFINE o == Normalised(part)
           again == [max |-> part.max, sum |-> o.sum, acc |-> o.acc]
<1>2. again.max = part.max /\ again.sum = part.sum /\ again.acc = part.acc
  BY DEF Normalised
<1>3. Exact(again, P)
  BY <1>2 DEF Exact
<1> QED
  BY <1>1, <1>3 DEF Weighed

LEMMA DecodeParts ==
  ASSUME DecodeInv
  PROVE  /\ LaunchTypeOK
         /\ \A z \in warpDone : Exact(shared[z], Stripe(z[1], z[2]))
         /\ splits > 1 => \A s \in blockDone : Exact(partials[s], BlockPositions(s))
         /\ out # NoOutput => Weighed(out, Position)
BY DEF DecodeInv, WarpsExact, BlocksExact, OutputExact

LEMMA LaunchCarry ==
  ASSUME DecodeInv, UNCHANGED params
  PROVE  /\ LaunchTypeOK' /\ Split' = Split
BY DEF DecodeInv, params, LaunchTypeOK, LaunchOK, Position, Split

LEMMA WarpStep ==
  ASSUME DecodeInv, NEW split \in Split, NEW warp \in Warp, WarpFinishes(split, warp)
  PROVE  DecodeInv'
<1> DEFINE z0 == <<split, warp>>
<1>1. /\ UNCHANGED params /\ partials' = partials /\ blockDone' = blockDone /\ out' = out
      /\ shared' = [shared EXCEPT ![z0] = Fold(Stripe(split, warp))]
      /\ warpDone' = warpDone \cup {z0}
  BY DEF WarpFinishes
<1>2. LaunchTypeOK /\ DOMAIN shared = Split \X Warp /\ z0 \in Split \X Warp
  BY DEF DecodeInv
<1>3. /\ DOMAIN shared' = Split \X Warp /\ warpDone' \in SUBSET (Split \X Warp)
      /\ DOMAIN partials' = Split /\ blockDone' \in SUBSET Split
  BY <1>1, <1>2 DEF DecodeInv
<1>4. \A z \in warpDone' : Exact(shared'[z], Stripe(z[1], z[2]))
  <2> TAKE z \in warpDone'
  <2>1. CASE z = z0
    <3>1. Stripe(split, warp) \in SUBSET Position
      BY <1>2, StripesDealt
    <3>2. Exact(Fold(Stripe(split, warp)), Stripe(split, warp))
      BY <1>2, <3>1, FoldExact
    <3>3. shared'[z] = Fold(Stripe(split, warp)) /\ z[1] = split /\ z[2] = warp
      BY <1>1, <1>2, <2>1
    <3> QED
      BY <3>2, <3>3
  <2>2. CASE z # z0
    <3>1. z \in warpDone /\ z \in DOMAIN shared
      BY <1>1, <2>2 DEF DecodeInv
    <3>2. shared'[z] = shared[z]
      BY <1>1, <2>2, <3>1
    <3> QED
      BY <3>1, <3>2, DecodeParts
  <2> QED
    BY <2>1, <2>2
<1>5. WarpsExact'
  BY <1>1, <1>4, WarpsCarry
<1>6. BlocksExact'
  BY <1>1, DecodeParts, BlocksCarry
<1>7. OutputExact'
  BY <1>1, DecodeParts, OutputCarry
<1> QED
  BY <1>1, <1>3, <1>5, <1>6, <1>7, LaunchCarry DEF DecodeInv, Warp

LEMMA BlockStep ==
  ASSUME DecodeInv, NEW split \in Split, BlockFinishes(split)
  PROVE  DecodeInv'
<1> DEFINE blockTotal == Merge([w \in Warp |-> shared[<<split, w>>]], Warps)
<1>1. /\ UNCHANGED params /\ shared' = shared /\ warpDone' = warpDone
      /\ blockDone' = blockDone \cup {split} /\ PastBarrier(split)
      /\ IF splits > 1
           THEN partials' = [partials EXCEPT ![split] = blockTotal] /\ out' = out
           ELSE out' = Normalised(blockTotal) /\ partials' = partials
  BY DEF BlockFinishes
<1>2. Exact(blockTotal, BlockPositions(split))
  BY <1>1, WarpsMerge DEF DecodeInv
<1> HIDE DEF blockTotal
<1>3. /\ DOMAIN shared' = Split \X Warp /\ warpDone' \in SUBSET (Split \X Warp)
      /\ DOMAIN partials' = Split /\ blockDone' \in SUBSET Split
  BY <1>1 DEF DecodeInv
<1>4. ASSUME splits > 1, NEW s \in blockDone' PROVE Exact(partials'[s], BlockPositions(s))
  <2>1. CASE s = split
    BY <1>1, <1>2, <1>4, <2>1 DEF DecodeInv
  <2>2. CASE s # split
    <3>1. s \in blockDone /\ partials'[s] = partials[s]
      BY <1>1, <1>4, <2>2 DEF DecodeInv
    <3> QED
      BY <1>4, <3>1, DecodeParts
  <2> QED
    BY <2>1, <2>2
<1>5. ASSUME out' # NoOutput PROVE Weighed(out', Position)
  <2>1. CASE splits > 1
    BY <1>1, <1>5, <2>1, DecodeParts
  <2>2. CASE ~ (splits > 1)
    <3>1. splits = 1
      BY <2>2 DEF DecodeInv, LaunchTypeOK, LaunchOK
    <3>2. BlockPositions(split) = Position
      BY <3>1, BlocksDealt DEF DecodeInv
    <3> QED
      BY <1>1, <1>2, <2>2, <3>2, NormalisedWeighed
  <2> QED
    BY <2>1, <2>2
<1>6. WarpsExact'
  BY <1>1, DecodeParts, WarpsCarry
<1>7. BlocksExact'
  BY <1>1, <1>4, BlocksCarry
<1>8. OutputExact'
  BY <1>1, <1>5, OutputCarry
<1> QED
  BY <1>1, <1>3, <1>6, <1>7, <1>8, LaunchCarry DEF DecodeInv, Warp

LEMMA MergeStep ==
  ASSUME DecodeInv, MergeSplits
  PROVE  DecodeInv'
<1>1. /\ UNCHANGED params /\ shared' = shared /\ warpDone' = warpDone
      /\ blockDone' = blockDone /\ partials' = partials
      /\ splits > 1 /\ blockDone = Split /\ out' = Normalised(Merge(partials, splits))
  BY DEF MergeSplits
<1>2. Exact(Merge(partials, splits), Position)
  BY <1>1, SplitsMerge DEF DecodeInv
<1>3. Weighed(out', Position)
  BY <1>1, <1>2, NormalisedWeighed
<1>4. WarpsExact' /\ BlocksExact' /\ OutputExact'
  BY <1>1, <1>3, DecodeParts, WarpsCarry, BlocksCarry, OutputCarry
<1> QED
  BY <1>1, <1>4, LaunchCarry DEF DecodeInv, Warp

LEMMA NextDecodeInv == DecodeInv /\ [Next]_vars => DecodeInv'
<1> SUFFICES ASSUME DecodeInv, [Next]_vars PROVE DecodeInv'
  OBVIOUS
<1>1. CASE UNCHANGED vars
  <2>1. /\ UNCHANGED params /\ shared' = shared /\ warpDone' = warpDone
        /\ blockDone' = blockDone /\ partials' = partials /\ out' = out
    BY <1>1 DEF vars
  <2>2. WarpsExact' /\ BlocksExact' /\ OutputExact'
    BY <2>1, DecodeParts, WarpsCarry, BlocksCarry, OutputCarry
  <2> QED
    BY <2>1, <2>2, LaunchCarry DEF DecodeInv, Warp
<1>2. CASE Next
  BY <1>2, WarpStep, BlockStep, MergeStep DEF Next
<1> QED
  BY <1>1, <1>2

LEMMA WeighedIsSoftmax ==
  ASSUME LaunchTypeOK, out # NoOutput, Weighed(out, Position)
  PROVE  AttentionExact
<1>1. PICK m \in {NegInf} \cup (0 .. MaxScore) :
        Exact([max |-> m, sum |-> out.sum, acc |-> out.acc], Position)
  BY DEF Weighed
<1>2. IsMax(m, Position) /\ out.acc = WeightsOf(Position, m) /\ out.sum = Total(out.acc)
  BY <1>1 DEF Exact
<1>3. ASSUME NEW p \in Position, NEW q \in Position
      PROVE  /\ out.acc[p] > 0
             /\ out.acc[p] * Pow2[score[q]] = out.acc[q] * Pow2[score[p]]
  <2> DEFINE a == MaxScore + (score[p] - m)
             b == MaxScore + (score[q] - m)
  <2>1. /\ a \in Nat /\ b \in Nat /\ score[p] \in Nat /\ score[q] \in Nat
        /\ a + score[q] = b + score[p]
    BY <1>2, ScoreBelow, AttentionAssumption DEF IsMax
  <2>2. out.acc[p] = Pow2[a] /\ out.acc[q] = Pow2[b]
    BY <1>2 DEF WeightsOf
  <2> HIDE DEF a, b
  <2>3. Pow2[a + score[q]] = Pow2[a] * Pow2[score[q]]
    BY <2>1, Pow2Sum
  <2>4. Pow2[b + score[p]] = Pow2[b] * Pow2[score[p]]
    BY <2>1, Pow2Sum
  <2>5. Pow2[a] > 0
    BY <2>1, Pow2Defined
  <2> QED
    BY <2>1, <2>2, <2>3, <2>4, <2>5
<1> QED
  BY <1>2, <1>3 DEF AttentionExact

(* Whatever the launch, the order of warps and blocks and the memory they  *)
(* found: the output of decode attention is the softmax of the scores over *)
(* the whole sequence, with the sum it was divided by.                     *)
THEOREM DecodeIsSoftmax == Spec => []AttentionExact
<1>1. DecodeInv => AttentionExact
  BY DecodeParts, WeighedIsSoftmax DEF AttentionExact
<1> QED
  BY <1>1, InitDecodeInv, NextDecodeInv, PTL DEF Spec

-----------------------------------------------------------------------------
(* The row of the prefill softmax that is followed.                        *)
PassTypeOK ==
  /\ LaunchTypeOK /\ seqLen <= MaxSeqLen
  /\ tokens \in 1 .. seqLen /\ token \in 0 .. tokens - 1
  /\ head \in 0 .. NumHeads - 1 /\ paged \in BOOLEAN

Own == {k \in Position : k < Limit}
Visible(w) == Lane(w) \cap (0 .. Limit - 1)

LEMMA PassFacts ==
  ASSUME PassTypeOK
  PROVE  /\ seqLen \in Nat \ {0} /\ tokens \in Nat \ {0} /\ token \in Nat /\ head \in Nat
         /\ token < tokens /\ tokens <= seqLen
         /\ Keys = seqLen /\ Start \in Nat /\ Limit = Start + token + 1 /\ Limit \in 1 .. seqLen
         /\ NumHeads \in Nat \ {0} /\ head < NumHeads
         /\ Position = 0 .. seqLen - 1
<1>1. /\ seqLen \in Nat \ {0} /\ tokens \in Nat \ {0} /\ token \in Nat /\ head \in Nat
      /\ token < tokens /\ tokens <= seqLen
  BY DEF PassTypeOK, LaunchTypeOK, LaunchOK
<1>2. NumHeads \in Nat \ {0} /\ NumHeads - 1 \in Int
  BY PrefillAssumption DEF NumHeads
<1>3. head < NumHeads
  BY <1>1, <1>2 DEF PassTypeOK
<1> QED
  BY <1>1, <1>2, <1>3 DEF Keys, Start, Limit, Position

LEMMA Division ==
  ASSUME NEW x \in Nat, NEW d \in Nat \ {0}
  PROVE  x \div d \in Nat /\ x % d \in 0 .. d - 1 /\ x = d * (x \div d) + (x % d)
OBVIOUS

(* A multiple and a remainder name one number each.                        *)
LEMMA DivMod ==
  ASSUME NEW q \in Nat, NEW d \in Nat \ {0}, NEW r \in 0 .. d - 1
  PROVE  (q * d + r) \div d = q /\ (q * d + r) % d = r
<1>1. q * d \in Nat /\ q * d + r \in Nat
  OBVIOUS
<1>2. q * d <= q * d + r /\ q * d + r < q * d + d
  BY <1>1
<1>3. (q * d + r) \div d = q
  BY <1>1, <1>2, BlockOfPosition
<1> DEFINE x == q * d + r
<1>4. x \in Nat /\ x \div d = q
  BY <1>1, <1>3
<1> HIDE DEF x
<1>5. x = d * q + (x % d) /\ x % d \in Nat
  <2>1. /\ x \div d \in Nat /\ x % d \in 0 .. d - 1
        /\ x = d * (x \div d) + (x % d)
    BY <1>4, Division
  <2> QED
    BY <1>4, <2>1
<1>6. d * q = q * d /\ d * q \in Nat
  OBVIOUS
<1>7. x = q * d + r
  BY DEF x
<1>8. x % d = r
  BY <1>5, <1>6, <1>7
<1> QED
  BY <1>4, <1>8 DEF x

LEMMA HeadSplit ==
  ASSUME PassTypeOK
  PROVE  /\ Group \in 0 .. KvHeads - 1 /\ head % HeadsPerKv \in 0 .. HeadsPerKv - 1
         /\ head = HeadsPerKv * Group + (head % HeadsPerKv)
<1>1. head \in Nat /\ HeadsPerKv \in Nat \ {0} /\ KvHeads \in Nat \ {0} /\ head < HeadsPerKv * KvHeads
  <2>1. KvHeads * HeadsPerKv = HeadsPerKv * KvHeads
    BY PrefillAssumption
  <2> QED
    BY <2>1, PassFacts, PrefillAssumption DEF NumHeads
<1>2. Group \in 0 .. KvHeads - 1
  BY <1>1, BlockLaunched DEF Group
<1>3. /\ head % HeadsPerKv \in 0 .. HeadsPerKv - 1
      /\ head = HeadsPerKv * (head \div HeadsPerKv) + (head % HeadsPerKv)
  BY <1>1, Division
<1> QED
  BY <1>2, <1>3 DEF Group

(* The matrix products and the softmax find the row in one place.          *)
LEMMA RowsMeet ==
  ASSUME PassTypeOK
  PROVE  /\ Group * RowsPerGroup + GroupRow = head * tokens + token
         /\ \A k \in Position : ProductRow(k) = SoftmaxRow(k)
         /\ ProductIndex = head * tokens + token
<1> DEFINE h == head % HeadsPerKv
<1>1. Group \in Nat /\ h \in Nat /\ head = HeadsPerKv * Group + h /\ tokens \in Nat /\ token \in Nat
      /\ HeadsPerKv \in Nat
  BY HeadSplit, PassFacts, PrefillAssumption
<1>2. RowsPerGroup = HeadsPerKv * tokens /\ GroupRow = h * tokens + token
  BY DEF RowsPerGroup, GroupRow
<1> HIDE DEF h
<1>3. Group * (HeadsPerKv * tokens) = (HeadsPerKv * Group) * tokens
  BY <1>1
<1>4. (HeadsPerKv * Group) * tokens + h * tokens = head * tokens
  BY <1>1
<1>5. Group * RowsPerGroup + GroupRow = head * tokens + token
  BY <1>1, <1>2, <1>3, <1>4
<1> QED
  BY <1>5 DEF ProductRow, SoftmaxRow, ProductIndex

LEMMA RowAddresses ==
  ASSUME PassTypeOK
  PROVE  /\ \A k \in Position : SoftmaxRow(k) \in Addresses
         /\ \A j, k \in Position : SoftmaxRow(j) = SoftmaxRow(k) => j = k
<1> DEFINE r == head * tokens + token
<1>1. /\ head \in Nat /\ tokens \in Nat \ {0} /\ token \in Nat /\ token < tokens
      /\ NumHeads \in Nat \ {0} /\ head < NumHeads /\ Keys = seqLen /\ seqLen \in Nat \ {0}
      /\ Position = 0 .. seqLen - 1
  BY PassFacts
<1>2. r \in Nat /\ r + 1 <= NumHeads * tokens /\ NumHeads * tokens \in Nat
  <2>1. (head + 1) * tokens <= NumHeads * tokens
    BY <1>1
  <2>2. (head + 1) * tokens = head * tokens + tokens /\ head * tokens \in Nat
    BY <1>1
  <2> QED
    BY <1>1, <2>1, <2>2
<1> DEFINE total2 == NumHeads * tokens
<1>3. \A k \in Position : SoftmaxRow(k) = r * seqLen + k
  BY <1>1 DEF SoftmaxRow
<1>4. Addresses = 0 .. total2 * seqLen - 1
  BY <1>1 DEF Addresses
<1>5. r \in Nat /\ total2 \in Nat /\ r + 1 <= total2
  BY <1>2
<1> HIDE DEF r, total2
<1>6. r * seqLen \in Nat /\ r * seqLen + seqLen <= total2 * seqLen /\ total2 * seqLen \in Nat
  <2>1. (r + 1) * seqLen <= total2 * seqLen
    BY <1>1, <1>5
  <2> QED
    BY <1>1, <1>5, <2>1
<1>7. \A k \in Position : SoftmaxRow(k) \in Addresses
  BY <1>1, <1>3, <1>4, <1>6
<1>8. \A j, k \in Position : SoftmaxRow(j) = SoftmaxRow(k) => j = k
  BY <1>1, <1>3, <1>6
<1> QED
  BY <1>7, <1>8

(* launch_merge_heads puts the row where the output projection reads it.   *)
LEMMA RowMerges ==
  ASSUME PassTypeOK
  PROVE  MergedTo = OutAddress /\ OutAddress \in 0 .. tokens * NumHeads - 1
<1>1. /\ head \in Nat /\ tokens \in Nat \ {0} /\ token \in 0 .. tokens - 1
      /\ NumHeads \in Nat \ {0} /\ head < NumHeads
  BY PassFacts
<1>2. ProductIndex = head * tokens + token
  BY RowsMeet
<1>3. ProductIndex % tokens = token /\ ProductIndex \div tokens = head
  BY <1>1, <1>2, DivMod
<1>4. MergedTo = OutAddress
  BY <1>3 DEF MergedTo, OutAddress
<1>5. OutAddress = token * NumHeads + head
  BY DEF OutAddress
<1>6. token * NumHeads + NumHeads <= tokens * NumHeads /\ token * NumHeads \in Nat
      /\ tokens * NumHeads \in Nat
  <2>1. (token + 1) * NumHeads <= tokens * NumHeads
    BY <1>1
  <2>2. (token + 1) * NumHeads = token * NumHeads + NumHeads
    BY <1>1
  <2> QED
    BY <1>1, <2>1, <2>2
<1>7. OutAddress \in 0 .. tokens * NumHeads - 1
  BY <1>1, <1>5, <1>6
<1> QED
  BY <1>4, <1>7

(* The rows below the query token's own position, lane by lane.            *)
LEMMA LanesDealt ==
  ASSUME PassTypeOK
  PROVE  /\ Own = 0 .. Start + token /\ Own \in SUBSET Position /\ 0 \in Own
         /\ \A w \in Warp : Visible(w) \in SUBSET Position
         /\ \A v, w \in Warp : v # w => Visible(v) \cap Visible(w) = {}
         /\ DealtTo([w \in 0 .. Warps - 1 |-> Visible(w)], Warps) = Own
         /\ \A k \in Position : k % Warps \in Warp /\ k \in Lane(k % Warps)
<1>1. /\ Limit = Start + token + 1 /\ Limit \in 1 .. seqLen /\ Position = 0 .. seqLen - 1
      /\ seqLen \in Nat \ {0} /\ Start \in Nat /\ token \in Nat
  BY PassFacts
<1>2. Own = 0 .. Start + token /\ Own \in SUBSET Position /\ 0 \in Own
  BY <1>1 DEF Own
<1>3. /\ \A w \in Warp : Visible(w) \in SUBSET Position
      /\ \A v, w \in Warp : v # w => Visible(v) \cap Visible(w) = {}
  BY DEF Visible, Lane
<1>4. \A k \in Position : k % Warps \in Warp /\ k \in Lane(k % Warps)
  BY <1>1, AttentionAssumption DEF Warp, Lane
<1>5. \A k \in Position : (\E w \in Warp : k \in Visible(w)) <=> k \in Own
  <2> TAKE k \in Position
  <2>1. k \in Own <=> k \in 0 .. Limit - 1
    BY <1>1 DEF Own
  <2> QED
    BY <1>4, <2>1 DEF Visible, Lane
<1> DEFINE P == [w \in 0 .. Warps - 1 |-> Visible(w)]
<1>6. \A k \in Position : (\E w \in 0 .. Warps - 1 : k \in P[w]) <=> k \in Own
  BY <1>5 DEF Warp
<1> HIDE DEF P
<1>7. DealtTo(P, Warps) = Own
  BY <1>2, <1>6 DEF DealtTo
<1> QED
  BY <1>2, <1>3, <1>4, <1>7 DEF P

Gathered == \A k \in Position : keyBuffer[Group * KeyStride + k] = <<Group, k>>
Scored   == \A k \in Position : Found(k)

LanesExact ==
  \A w \in DOMAIN reduced : \A part, P : part = reduced[w] /\ P = Visible(w) => Exact(part, P)
RowExact ==
  total # Foreign => \A c, P : c = total /\ P = Own => CombinedExact(c, P)

Row == [k \in Position |-> Probability(k)]
RowWritten ==
  /\ written \in SUBSET Warp
  /\ written # {} => total # Foreign
  /\ \A w \in written : \A k \in Lane(w) : probs[SoftmaxRow(k)] = Probability(k)

PrefillInv ==
  /\ PassTypeOK
  /\ stage \in {"decode", "gather", "scores", "softmax", "done"}
  /\ stage \in {"scores", "softmax", "done"} => Gathered
  /\ stage \in {"softmax", "done"} => Scored
  /\ stage \notin {"softmax", "done"} => written = {}
  /\ DOMAIN reduced \in SUBSET Warp /\ LanesExact
  /\ RowExact
  /\ RowWritten
  /\ stage = "done" => total # Foreign /\ attnOut[OutAddress] = Row

(* What a step that leaves the parameters of the pass alone leaves alone.  *)
LEMMA PassUnchanged ==
  ASSUME UNCHANGED <<params, prefillParams>>
  PROVE  /\ Position' = Position /\ Own' = Own /\ Group' = Group /\ KeyStride' = KeyStride
         /\ Addresses' = Addresses /\ OutAddress' = OutAddress
         /\ \A k : SoftmaxRow(k)' = SoftmaxRow(k)
         /\ \A w : Lane(w)' = Lane(w) /\ Visible(w)' = Visible(w)
         /\ PassTypeOK => PassTypeOK'
<1>1. /\ seqLen' = seqLen /\ splits' = splits /\ score' = score
      /\ tokens' = tokens /\ paged' = paged /\ head' = head /\ token' = token
  BY DEF params, prefillParams
<1>2. Position' = Position /\ Limit' = Limit /\ Keys' = Keys
  BY <1>1 DEF Position, Limit, Keys, Start
<1>3. Own' = Own /\ Group' = Group /\ KeyStride' = KeyStride /\ Addresses' = Addresses
  BY <1>1, <1>2 DEF Own, Group, KeyStride, Addresses
<1>4. OutAddress' = OutAddress /\ \A k : SoftmaxRow(k)' = SoftmaxRow(k)
  BY <1>1, <1>2 DEF OutAddress, SoftmaxRow
<1>5. \A w : Lane(w)' = Lane(w) /\ Visible(w)' = Visible(w)
  BY <1>1, <1>2 DEF Lane, Visible
<1>6. PassTypeOK => PassTypeOK'
  BY <1>1, <1>2 DEF PassTypeOK, LaunchTypeOK, LaunchOK
<1> QED
  BY <1>2, <1>3, <1>4, <1>5, <1>6

LEMMA LanesCarry ==
  ASSUME UNCHANGED <<params, prefillParams>>,
         \A w \in DOMAIN reduced' : Exact(reduced'[w], Visible(w))
  PROVE  LanesExact'
<1> SUFFICES ASSUME NEW w \in DOMAIN reduced', NEW part, NEW P, part = reduced'[w],
                    P = Visible(w)'
             PROVE  Exact(part, P)'
  BY DEF LanesExact
<1> QED
  BY PassUnchanged, ExactUnchanged

LEMMA CombinedUnchanged ==
  ASSUME UNCHANGED params, NEW c, NEW P, CombinedExact(c, P)
  PROVE  CombinedExact(c, P)'
BY DEF params, CombinedExact, IsMax, AtLeast, WeightsOf, Total, Position

LEMMA RowCarry ==
  ASSUME UNCHANGED <<params, prefillParams>>,
         total' # Foreign => CombinedExact(total', Own)
  PROVE  RowExact'
<1> SUFFICES ASSUME total' # Foreign, NEW c, NEW P, c = total', P = Own'
             PROVE  CombinedExact(c, P)'
  BY DEF RowExact
<1> QED
  BY PassUnchanged, CombinedUnchanged

LEMMA ProbabilityUnchanged ==
  ASSUME UNCHANGED <<params, prefillParams>>, scores' = scores, total' = total
  PROVE  \A k : Found(k)' = Found(k) /\ Probability(k)' = Probability(k)
<1>1. \A k : SoftmaxRow(k)' = SoftmaxRow(k) /\ score' = score /\ Limit' = Limit
  BY PassUnchanged DEF params, prefillParams, Limit, Keys, Start
<1> QED
  BY <1>1 DEF Found, Probability, Masked, Rescale, One

LEMMA InitPrefillInv == PassInit => PrefillInv
<1> SUFFICES ASSUME PassInit PROVE PrefillInv
  OBVIOUS
<1>1. LaunchTypeOK
  BY InitDecodeInv DEF PassInit, DecodeInv
<1>2. PassTypeOK
  BY <1>1 DEF PassInit, Init, PassTypeOK, LaunchTypeOK, LaunchOK
<1>3. DOMAIN reduced = {}
  BY DEF PassInit
<1> QED
  BY <1>2, <1>3 DEF PassInit, PrefillInv, LanesExact, RowExact, RowWritten

GatheredCarry == keyBuffer' = keyBuffer /\ Gathered => Gathered'
ScoredCarry   == scores' = scores /\ Scored => Scored'
WrittenCarry  ==
  scores' = scores /\ total' = total /\ probs' = probs /\ written' = written /\ RowWritten
    => RowWritten'
RowKept ==
  scores' = scores /\ total' = total /\ attnOut' = attnOut /\ attnOut[OutAddress] = Row
    => attnOut'[OutAddress'] = Row'

LEMMA StageFacts ==
  ASSUME UNCHANGED <<params, prefillParams>>
  PROVE  GatheredCarry /\ ScoredCarry /\ WrittenCarry /\ RowKept
<1>1. /\ Position' = Position /\ Group' = Group /\ KeyStride' = KeyStride /\ score' = score
      /\ OutAddress' = OutAddress
      /\ \A k : SoftmaxRow(k)' = SoftmaxRow(k)
      /\ \A w : Lane(w)' = Lane(w)
  BY PassUnchanged DEF params
<1>2. GatheredCarry
  BY <1>1 DEF GatheredCarry, Gathered
<1>3. ScoredCarry
  BY <1>1 DEF ScoredCarry, Scored, Found
<1>4. scores' = scores /\ total' = total => \A k : Probability(k)' = Probability(k)
  BY ProbabilityUnchanged
<1>5. WrittenCarry
  BY <1>1, <1>4 DEF WrittenCarry, RowWritten, Warp
<1>6. RowKept
  BY <1>1, <1>4 DEF RowKept, Row
<1> QED
  BY <1>2, <1>3, <1>5, <1>6

LEMMA PrefillParts ==
  ASSUME PrefillInv
  PROVE  /\ PassTypeOK
         /\ \A w \in DOMAIN reduced : Exact(reduced[w], Visible(w))
         /\ total # Foreign => CombinedExact(total, Own)
BY DEF PrefillInv, LanesExact, RowExact

(* Steps of the decode kernel do not touch the prefill path.               *)
LEMMA DecodeKeepsRow ==
  ASSUME PrefillInv, UNCHANGED <<params, prefillVars>>
  PROVE  PrefillInv'
<1>1. UNCHANGED <<params, prefillParams>>
  BY DEF prefillVars, prefillParams
<1>2. /\ stage' = stage /\ keyBuffer' = keyBuffer /\ scores' = scores /\ probs' = probs
      /\ reduced' = reduced /\ total' = total /\ written' = written /\ attnOut' = attnOut
  BY DEF prefillVars
<1>3. PassTypeOK' /\ LanesExact' /\ RowExact'
  BY <1>1, <1>2, PrefillParts, PassUnchanged, LanesCarry, RowCarry
<1>4. /\ Gathered => Gathered'
      /\ Scored => Scored'
      /\ RowWritten => RowWritten'
      /\ attnOut[OutAddress] = Row => attnOut'[OutAddress'] = Row'
  BY <1>1, <1>2, StageFacts DEF GatheredCarry, ScoredCarry, WrittenCarry, RowKept
<1>5. /\ stage \in {"decode", "gather", "scores", "softmax", "done"}
      /\ stage \in {"scores", "softmax", "done"} => Gathered
      /\ stage \in {"softmax", "done"} => Scored
      /\ stage \notin {"softmax", "done"} => written = {}
      /\ DOMAIN reduced \in SUBSET Warp /\ RowWritten
      /\ stage = "done" => total # Foreign /\ attnOut[OutAddress] = Row
  BY DEF PrefillInv
<1>6. /\ stage' \in {"decode", "gather", "scores", "softmax", "done"}
      /\ stage' \in {"scores", "softmax", "done"} => Gathered'
      /\ stage' \in {"softmax", "done"} => Scored'
      /\ stage' \notin {"softmax", "done"} => written' = {}
      /\ DOMAIN reduced' \in SUBSET Warp /\ RowWritten'
      /\ stage' = "done" => total' # Foreign /\ attnOut'[OutAddress'] = Row'
  BY <1>2, <1>4, <1>5
<1> QED
  BY <1>3, <1>6 DEF PrefillInv, Warp

LEMMA GatherStep == ASSUME PrefillInv, Gather PROVE PrefillInv'
<1>1. /\ UNCHANGED <<params, prefillParams>> /\ scores' = scores /\ probs' = probs
      /\ reduced' = reduced /\ total' = total /\ written' = written /\ attnOut' = attnOut
      /\ stage = "gather" /\ stage' = "scores"
  BY DEF Gather, vars, prefillParams
<1>2. PassTypeOK' /\ LanesExact' /\ RowExact' /\ RowWritten'
  BY <1>1, PrefillParts, PassUnchanged, LanesCarry, RowCarry, StageFacts DEF WrittenCarry, PrefillInv
<1>3. Gathered'
  <2>1. PassTypeOK
    BY PrefillParts
  <2>2. /\ Group \in 0 .. KvHeads - 1 /\ Position = 0 .. seqLen - 1 /\ seqLen \in Nat \ {0}
        /\ seqLen <= MaxSeqLen /\ Keys = seqLen /\ KvHeads \in Nat \ {0}
    BY <2>1, HeadSplit, PassFacts, PrefillAssumption DEF PassTypeOK
  <2>3. KeyStride \in Nat \ {0} /\ seqLen <= KeyStride
    BY <2>2, AttentionAssumption DEF KeyStride
  <2> DEFINE s == KeyStride
  <2>4. keyBuffer' = [a \in 0 .. KvHeads * s - 1 |-> <<a \div s, a % s>>]
    BY DEF Gather, KeyStride
  <2> HIDE DEF s
  <2>5. s \in Nat \ {0} /\ seqLen <= s
    BY <2>3 DEF s
  <2>6. ASSUME NEW k \in Position
        PROVE  keyBuffer'[Group * s + k] = <<Group, k>>
    <3>1. k \in 0 .. s - 1 /\ Group \in Nat
      BY <2>2, <2>5
    <3>2. (Group * s + k) \div s = Group /\ (Group * s + k) % s = k
      BY <2>5, <3>1, DivMod
    <3>3. Group * s + k \in 0 .. KvHeads * s - 1
      <4>1. (Group + 1) * s <= KvHeads * s
        BY <2>2, <2>5
      <4>2. (Group + 1) * s = Group * s + s /\ Group * s \in Nat /\ KvHeads * s \in Nat
        BY <2>2, <2>5, <3>1
      <4> QED
        BY <2>5, <3>1, <4>1, <4>2
    <3> DEFINE a == Group * s + k
    <3>4. a \in 0 .. KvHeads * s - 1 /\ a \div s = Group /\ a % s = k
      BY <3>2, <3>3
    <3> HIDE DEF a
    <3>5. keyBuffer'[a] = <<Group, k>>
      BY <2>4, <3>4
    <3> QED
      BY <3>5 DEF a
  <2>7. Position' = Position /\ Group' = Group /\ KeyStride' = KeyStride
    BY <1>1, PassUnchanged
  <2> QED
    BY <2>6, <2>7 DEF Gathered, s
<1> QED
  BY <1>1, <1>2, <1>3 DEF PrefillInv, Warp

LEMMA ScoresStep == ASSUME PrefillInv, MultiplyKeys PROVE PrefillInv'
<1>1. /\ UNCHANGED <<params, prefillParams>> /\ keyBuffer' = keyBuffer /\ probs' = probs
      /\ reduced' = reduced /\ total' = total /\ written' = written /\ attnOut' = attnOut
      /\ stage = "scores" /\ stage' = "softmax"
  BY DEF MultiplyKeys, vars, prefillParams
<1>2. PassTypeOK' /\ LanesExact' /\ RowExact'
  BY <1>1, PrefillParts, PassUnchanged, LanesCarry, RowCarry
<1>3. Gathered /\ Gathered' /\ written = {} /\ PassTypeOK
  BY <1>1, StageFacts DEF GatheredCarry, PrefillInv
<1>4. RowWritten'
  BY <1>1, <1>3 DEF RowWritten
<1>5. \A k \in Position : scores'[SoftmaxRow(k)] = score[k]
  <2> TAKE k \in Position
  <2> DEFINE a == SoftmaxRow(k)
             mine == {j \in Position : ProductRow(j) = a}
  <2>1. scores' = [b \in Addresses |->
                    LET own == {j \in Position : ProductRow(j) = b}
                    IN  IF own = {} THEN Foreign ELSE Product(CHOOSE j \in own : TRUE)]
    BY DEF MultiplyKeys
  <2>2. a \in Addresses /\ mine = {k}
    BY <1>3, RowAddresses, RowsMeet
  <2>3. scores'[a] = Product(CHOOSE j \in {k} : TRUE)
    BY <2>1, <2>2
  <2>4. (CHOOSE j \in {k} : TRUE) = k
    OBVIOUS
  <2>5. Product(k) = score[k]
    BY <1>3 DEF Product, Gathered
  <2> QED
    BY <2>3, <2>4, <2>5
<1>6. Scored'
  BY <1>1, <1>5, PassUnchanged DEF Scored, Found, params
<1> QED
  BY <1>1, <1>2, <1>3, <1>4, <1>6 DEF PrefillInv, Warp

LEMMA ReduceStep ==
  ASSUME PrefillInv, NEW w \in Warp, ReduceRow(w)
  PROVE  PrefillInv'
<1>1. /\ UNCHANGED <<params, prefillParams>> /\ stage' = stage /\ keyBuffer' = keyBuffer
      /\ scores' = scores /\ probs' = probs /\ total' = total /\ written' = written
      /\ attnOut' = attnOut /\ stage = "softmax" /\ w \notin DOMAIN reduced
  BY DEF ReduceRow, vars, prefillParams
<1>2. /\ PassTypeOK /\ Gathered /\ Scored /\ DOMAIN reduced \in SUBSET Warp /\ RowWritten
  BY <1>1 DEF PrefillInv
<1>3. /\ PassTypeOK' /\ RowExact' /\ Gathered' /\ Scored' /\ RowWritten'
  BY <1>1, <1>2, PrefillParts, PassUnchanged, RowCarry, StageFacts
     DEF GatheredCarry, ScoredCarry, WrittenCarry
<1>4. reduced' = [v \in DOMAIN reduced \cup {w} |->
                    IF v # w THEN reduced[v]
                    ELSE IF \A k \in Visible(w) : Found(k) THEN Fold(Visible(w)) ELSE Stale]
  BY DEF ReduceRow, Visible
<1>5. Visible(w) \in SUBSET Position /\ \A k \in Visible(w) : Found(k)
  BY <1>2, LanesDealt DEF Scored
<1>6. Exact(Fold(Visible(w)), Visible(w))
  BY <1>2, <1>5, FoldExact DEF PassTypeOK
<1>7. \A v \in DOMAIN reduced' : Exact(reduced'[v], Visible(v))
  <2> TAKE v \in DOMAIN reduced'
  <2>1. CASE v = w
    BY <1>4, <1>5, <1>6, <2>1
  <2>2. CASE v # w
    <3>1. v \in DOMAIN reduced /\ reduced'[v] = reduced[v]
      BY <1>4, <2>2
    <3> QED
      BY <3>1, PrefillParts
  <2> QED
    BY <2>1, <2>2
<1>8. LanesExact' /\ DOMAIN reduced' \in SUBSET Warp
  BY <1>1, <1>2, <1>4, <1>7, LanesCarry
<1> QED
  BY <1>1, <1>3, <1>8 DEF PrefillInv, Warp

LEMMA CombineRowStep ==
  ASSUME PrefillInv, CombineRow
  PROVE  PrefillInv'
<1>1. /\ UNCHANGED <<params, prefillParams>> /\ stage' = stage /\ keyBuffer' = keyBuffer
      /\ scores' = scores /\ probs' = probs /\ reduced' = reduced /\ written' = written
      /\ attnOut' = attnOut /\ stage = "softmax" /\ total = Foreign /\ DOMAIN reduced = Warp
      /\ total' = Combine(reduced, Warps)
  BY DEF CombineRow, vars, prefillParams, AllReduced
<1>2. /\ PassTypeOK /\ Gathered /\ Scored /\ RowWritten
  BY <1>1 DEF PrefillInv
<1>3. /\ PassTypeOK' /\ LanesExact' /\ Gathered' /\ Scored'
  BY <1>1, <1>2, PrefillParts, PassUnchanged, LanesCarry, StageFacts
     DEF GatheredCarry, ScoredCarry
<1> DEFINE P == [w \in 0 .. Warps - 1 |-> Visible(w)]
<1>4. Dealt(reduced, Warps, P)
  BY <1>1, <1>2, PrefillParts, LanesDealt DEF Dealt, Warp
<1>5. DealtTo(P, Warps) = Own
  BY <1>2, LanesDealt
<1> HIDE DEF P
<1>6. CombinedExact(total', Own)
  <2>1. Warps \in Nat /\ LaunchTypeOK
    BY <1>2, AttentionAssumption DEF PassTypeOK
  <2>2. /\ CombinedExact(Combine(reduced, Warps), DealtTo(P, Warps))
        /\ \A i \in 0 .. Warps - 1 : reduced[i].max <= Combine(reduced, Warps).max
    BY <1>4, <2>1, CombineExact
  <2> QED
    BY <1>1, <1>5, <2>2
<1>7. RowExact'
  BY <1>1, <1>6, RowCarry
<1>8. RowWritten' /\ written' = {}
  BY <1>1, <1>2 DEF RowWritten
<1> QED
  BY <1>1, <1>3, <1>7, <1>8 DEF PrefillInv, Warp

LEMMA WriteStep ==
  ASSUME PrefillInv, NEW w \in Warp, WriteRow(w)
  PROVE  PrefillInv'
<1>1. /\ UNCHANGED <<params, prefillParams>> /\ stage' = stage /\ keyBuffer' = keyBuffer
      /\ scores' = scores /\ reduced' = reduced /\ total' = total
      /\ attnOut' = attnOut /\ stage = "softmax" /\ total # Foreign
      /\ written' = written \cup {w} /\ w \notin written
  BY DEF WriteRow, vars, prefillParams
<1>2. /\ PassTypeOK /\ Gathered /\ Scored /\ RowWritten /\ DOMAIN reduced \in SUBSET Warp
  BY <1>1 DEF PrefillInv
<1>3. /\ PassTypeOK' /\ LanesExact' /\ RowExact' /\ Gathered' /\ Scored'
  BY <1>1, <1>2, PrefillParts, PassUnchanged, LanesCarry, RowCarry, StageFacts
     DEF GatheredCarry, ScoredCarry
<1>4. ASSUME NEW v \in written', NEW k \in Lane(v)
      PROVE  probs'[SoftmaxRow(k)] = Probability(k)
  <2> DEFINE mine == {j \in Lane(w) : SoftmaxRow(j) = SoftmaxRow(k)}
  <2>1. k \in Position /\ Lane(w) \in SUBSET Position
    BY DEF Lane
  <2>2. SoftmaxRow(k) \in Addresses /\ \A j \in Position : SoftmaxRow(j) = SoftmaxRow(k) => j = k
    BY <1>2, <2>1, RowAddresses
  <2>3. probs'[SoftmaxRow(k)] =
          IF mine = {} THEN probs[SoftmaxRow(k)] ELSE Probability(CHOOSE j \in mine : TRUE)
    BY <2>2 DEF WriteRow
  <2> HIDE DEF mine
  <2>4. CASE v = w
    <3>1. mine = {k}
      BY <2>1, <2>2, <2>4 DEF mine
    <3>2. (CHOOSE j \in {k} : TRUE) = k
      OBVIOUS
    <3> QED
      BY <2>3, <3>1, <3>2
  <2>5. CASE v # w
    <3>1. k \notin Lane(w)
      BY <2>5 DEF Lane
    <3>2. mine = {}
      BY <2>1, <2>2, <3>1 DEF mine
    <3>3. v \in written
      BY <1>1, <2>5
    <3> QED
      BY <1>2, <2>3, <3>2, <3>3 DEF RowWritten
  <2> QED
    BY <2>4, <2>5
<1>5. RowWritten'
  <2>1. /\ \A k : SoftmaxRow(k)' = SoftmaxRow(k) /\ Probability(k)' = Probability(k)
        /\ \A v : Lane(v)' = Lane(v)
    BY <1>1, PassUnchanged, ProbabilityUnchanged
  <2> QED
    BY <1>1, <1>2, <1>4, <2>1 DEF RowWritten, Warp
<1> QED
  BY <1>1, <1>2, <1>3, <1>5 DEF PrefillInv, Warp

LEMMA ValuesStep ==
  ASSUME PrefillInv, MultiplyValues
  PROVE  PrefillInv'
<1>1. /\ UNCHANGED <<params, prefillParams>> /\ keyBuffer' = keyBuffer
      /\ scores' = scores /\ probs' = probs /\ reduced' = reduced /\ total' = total
      /\ written' = written /\ stage = "softmax" /\ stage' = "done" /\ written = Warp
  BY DEF MultiplyValues, vars, prefillParams
<1>2. /\ PassTypeOK /\ Gathered /\ Scored /\ RowWritten /\ DOMAIN reduced \in SUBSET Warp
  BY <1>1 DEF PrefillInv
<1>3. /\ PassTypeOK' /\ LanesExact' /\ RowExact' /\ Gathered' /\ Scored' /\ RowWritten'
  BY <1>1, <1>2, PrefillParts, PassUnchanged, LanesCarry, RowCarry, StageFacts
     DEF GatheredCarry, ScoredCarry, WrittenCarry
<1>4. total # Foreign
  <2>1. 0 \in Warp
    BY AttentionAssumption DEF Warp
  <2> QED
    BY <1>1, <1>2, <2>1 DEF RowWritten
<1>5. \A k \in Position : probs[SoftmaxRow(k)] = Probability(k)
  BY <1>1, <1>2, LanesDealt DEF RowWritten
<1>6. attnOut' = [a \in 0 .. tokens * NumHeads - 1 |->
       IF a # MergedTo THEN Foreign
       ELSE [k \in Position |->
               IF keyBuffer[Group * KeyStride + k] = <<Group, k>>
                 THEN probs[ProductRow(k)] ELSE Foreign]]
  BY DEF MultiplyValues
<1>7. MergedTo = OutAddress /\ OutAddress \in 0 .. tokens * NumHeads - 1
  BY <1>2, RowMerges
<1>8. \A k \in Position : ProductRow(k) = SoftmaxRow(k)
  BY <1>2, RowsMeet
<1>9. attnOut'[OutAddress] = [k \in Position |->
               IF keyBuffer[Group * KeyStride + k] = <<Group, k>>
                 THEN probs[ProductRow(k)] ELSE Foreign]
  BY <1>6, <1>7
<1>10. attnOut'[OutAddress] = Row
  BY <1>2, <1>5, <1>8, <1>9 DEF Row, Gathered
<1>11. Row' = Row /\ OutAddress' = OutAddress
  <2>1. /\ \A k : Probability(k)' = Probability(k)
        /\ Position' = Position /\ OutAddress' = OutAddress
    BY <1>1, PassUnchanged, ProbabilityUnchanged
  <2> QED
    BY <2>1 DEF Row
<1> QED
  BY <1>1, <1>2, <1>3, <1>4, <1>10, <1>11 DEF PrefillInv, Warp

LEMMA NextPrefillInv == PrefillInv /\ [PassNext]_passVars => PrefillInv'
<1> SUFFICES ASSUME PrefillInv, [PassNext]_passVars PROVE PrefillInv'
  OBVIOUS
<1>1. CASE UNCHANGED passVars
  BY <1>1, DecodeKeepsRow DEF passVars, vars
<1>2. CASE Decode
  <2>1. UNCHANGED params
    BY <1>2 DEF Decode, Next, WarpFinishes, BlockFinishes, MergeSplits
  <2> QED
    BY <1>2, <2>1, DecodeKeepsRow DEF Decode
<1>3. CASE Gather
  BY <1>3, GatherStep
<1>4. CASE MultiplyKeys
  BY <1>4, ScoresStep
<1>5. CASE CombineRow
  BY <1>5, CombineRowStep
<1>6. CASE MultiplyValues
  BY <1>6, ValuesStep
<1>7. CASE \E w \in Warp : ReduceRow(w) \/ WriteRow(w)
  BY <1>7, ReduceStep, WriteStep
<1> QED
  BY <1>1, <1>2, <1>3, <1>4, <1>5, <1>6, <1>7 DEF PassNext

(* The row weighs its own positions by their softmax, and no other.        *)
RowWeights == WeightsOf(Own, total.max)

LEMMA RowIsWeights ==
  ASSUME PassTypeOK, Scored, CombinedExact(total, Own)
  PROVE  /\ \A k \in Position : Row[k] = [weight |-> RowWeights[k], sum |-> total.sum]
         /\ RowWeights \in Weights /\ total.sum = Total(RowWeights) /\ total.sum \in Nat
<1> DEFINE m == total.max
<1>1. IsMax(m, Own) /\ total.sum = Total(RowWeights) /\ Own \in SUBSET Position
  BY LanesDealt DEF CombinedExact, RowWeights
<1>2. LaunchTypeOK /\ seqLen \in Nat
  BY DEF PassTypeOK, LaunchTypeOK, LaunchOK
<1>3. RowWeights \in Weights
  BY <1>1, <1>2, WeightsTyped DEF RowWeights, IsMax
<1>4. total.sum \in Nat
  BY <1>1, <1>2, <1>3, TotalTyped
<1>5. ASSUME NEW k \in Position
      PROVE  Row[k] = [weight |-> RowWeights[k], sum |-> total.sum]
  <2>1. k < Limit <=> k \in Own
    BY DEF Own
  <2>2. k \in Int /\ Limit \in Int
    BY PassFacts
  <2>3. CASE k \in Own
    <3>1. IsMax(score[k], {k}) /\ WeightsOf({k}, score[k])[k] = One
      BY <1>2, SingleExact
    <3>2. AtLeast(m, {k}) /\ score[k] <= m
      BY <1>1, <2>3 DEF IsMax, AtLeast
    <3> DEFINE P == {k}
               s == score[k]
    <3>3. IsMax(s, P) /\ AtLeast(m, P) /\ s <= m /\ P \in SUBSET Position
      BY <3>1, <3>2
    <3> HIDE DEF P, s, m
    <3>4. /\ \A q \in Position : Rescale(WeightsOf(P, s)[q], s, m) = WeightsOf(P, m)[q]
          /\ Rescale(Total(WeightsOf(P, s)), s, m) = Total(WeightsOf(P, m))
      BY <1>2, <3>3, RescaleExact
    <3>5. WeightsOf(P, m)[k] = WeightsOf(Own, m)[k]
      BY <2>3 DEF WeightsOf, P
    <3>6. Rescale(One, score[k], m) = RowWeights[k]
      BY <3>1, <3>4, <3>5 DEF P, s, RowWeights, m
    <3>7. Probability(k) = [weight |-> Rescale(One, score[k], m), sum |-> total.sum]
      BY <2>1, <2>2, <2>3 DEF Probability, Scored, m
    <3> QED
      BY <3>6, <3>7 DEF Row
  <2>4. CASE k \notin Own
    <3>1. RowWeights[k] = 0
      BY <2>4 DEF RowWeights, WeightsOf
    <3>2. Probability(k) = [weight |-> 0, sum |-> total.sum]
      BY <2>1, <2>2, <2>4 DEF Probability, Masked
    <3> QED
      BY <3>1, <3>2 DEF Row
  <2> QED
    BY <2>3, <2>4
<1> QED
  BY <1>1, <1>3, <1>4, <1>5

LEMMA RowIsSoftmax == PrefillInv => PrefillExact
<1> SUFFICES ASSUME PrefillInv, stage = "done"
             PROVE  PrefillExact
  BY DEF PrefillExact
<1> DEFINE row == attnOut[OutAddress]
           w == RowWeights
<1>1. /\ PassTypeOK /\ Scored /\ CombinedExact(total, Own) /\ row = Row
  BY PrefillParts DEF PrefillInv
<1>2. /\ \A k \in Position : row[k] = [weight |-> w[k], sum |-> total.sum]
      /\ w \in Weights /\ total.sum = Total(w) /\ total.sum \in Nat
  BY <1>1, RowIsWeights
<1>3. /\ Own = 0 .. Start + token /\ Own \in SUBSET Position /\ LaunchTypeOK
      /\ Position = 0 .. seqLen - 1 /\ seqLen \in 1 .. MaxSeqLen
  BY <1>1, LanesDealt, PassFacts, AttentionAssumption DEF PassTypeOK
<1>4. \A k \in Position : /\ row[k] \in [weight : Nat, sum : Nat]
                          /\ row[k].weight = w[k] /\ w[k] \in Nat /\ row[k].sum = Total(w)
  <2> HIDE DEF row, w
  <2> TAKE k \in Position
  <2>1. w[k] \in Nat /\ row[k] = [weight |-> w[k], sum |-> total.sum] /\ total.sum \in Nat
    BY <1>2 DEF Weights
  <2> QED
    BY <1>2, <2>1
<1>5. row = [k \in Position |-> row[k]]
  BY <1>1 DEF Row
<1> HIDE DEF row
<1>6. row # Foreign
  <2>1. row \in [Position -> [weight : Nat, sum : Nat]]
    BY <1>4, <1>5
  <2> QED
    BY <1>3, <2>1, PrefillAssumption
<1>7. \A k \in Position : row[k] # Foreign /\ row[k].weight # Foreign
  BY <1>4, PrefillAssumption
<1>8. \A k \in Position : k \notin Own => row[k].weight = 0
  BY <1>4 DEF RowWeights, WeightsOf
<1>9. ASSUME NEW k \in Own, NEW j \in Own
      PROVE  /\ row[k].weight > 0
             /\ row[k].weight * Pow2[score[j]] = row[j].weight * Pow2[score[k]]
  <2> DEFINE a == MaxScore + (score[k] - total.max)
             b == MaxScore + (score[j] - total.max)
  <2>1. IsMax(total.max, Own)
    BY <1>1 DEF CombinedExact
  <2>2. /\ a \in Nat /\ b \in Nat /\ score[k] \in Nat /\ score[j] \in Nat
        /\ a + score[j] = b + score[k]
    <3> DEFINE m == total.max
    <3>1. AtLeast(m, Own)
      BY <2>1 DEF IsMax
    <3> HIDE DEF m
    <3>2. /\ m \in 0 .. MaxScore
          /\ score[k] \in 0 .. MaxScore /\ score[k] <= m
          /\ score[j] \in 0 .. MaxScore /\ score[j] <= m
      BY <1>3, <3>1, ScoreBelow
    <3> QED
      BY <3>2, AttentionAssumption DEF m
  <2>3. row[k].weight = Pow2[a] /\ row[j].weight = Pow2[b]
    BY <1>3, <1>4 DEF RowWeights, WeightsOf
  <2> HIDE DEF a, b
  <2>4. Pow2[a + score[j]] = Pow2[a] * Pow2[score[j]]
    BY <2>2, Pow2Sum
  <2>5. Pow2[b + score[k]] = Pow2[b] * Pow2[score[k]]
    BY <2>2, Pow2Sum
  <2>6. Pow2[a] > 0
    BY <2>2, Pow2Defined
  <2> QED
    BY <2>2, <2>3, <2>4, <2>5, <2>6
<1>10. \A k \in Own : row[k].sum = Total([j \in Position |-> row[j].weight])
  <2>1. [j \in Position |-> row[j].weight] = w
    BY <1>2, <1>4 DEF Weights
  <2> QED
    BY <1>3, <1>4, <2>1
<1> QED
  BY <1>3, <1>6, <1>7, <1>8, <1>9, <1>10 DEF PrefillExact, row

(* The row of every token and head that attention_prefill computes is the  *)
(* softmax over exactly the positions up to its own, and lands where the   *)
(* output projection reads it, over either cache layout.                   *)
THEOREM PrefillIsSoftmax == PassSpec => []PrefillExact
BY InitPrefillInv, NextPrefillInv, RowIsSoftmax, PTL DEF PassSpec

LEMMA PassSteps == PassInit => Init
BY DEF PassInit

LEMMA PassDecodes == [PassNext]_passVars => [Next]_vars
BY DEF PassNext, Decode, Gather, MultiplyKeys, ReduceRow, CombineRow, WriteRow,
       MultiplyValues, passVars

(* The decode kernel inside a pass is the decode kernel: both of its       *)
(* properties hold of the pass.                                            *)
THEOREM PassIsSoftmax == PassSpec => [](EveryPositionOnce /\ AttentionExact)
BY PassSteps, PassDecodes, PositionsFoldedOnce, DecodeIsSoftmax, PTL DEF PassSpec, Spec

=============================================================================
