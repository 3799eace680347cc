--------------------------- MODULE TextPathProofs ---------------------------
(***************************************************************************)
(* Proofs about the whole way of a text through encode, decode and the     *)
(* streamer: what the tokens stand for and what is written, for every file *)
(* the loader accepts and every sequence of bytes.                         *)
(***************************************************************************)
EXTENDS TextPath, FiniteSetTheorems, SequenceTheorems, TLAPS

-----------------------------------------------------------------------------
(* A set of natural numbers has a least member.                            *)
LEMMA LeastNat ==
  ASSUME NEW S \in SUBSET Nat, S # {}
  PROVE  \E x \in S : \A y \in S : x <= y
<1>1. PICK x \in S : \A y \in S : ~ (<<y, x>> \in OpToRel(<, Nat))
  BY NatLessThanWellFounded, WFMin
<1>2. \A y \in S : ~ (y < x)
  BY <1>1 DEF OpToRel
<1> QED
  BY <1>2

(* A bounded one has a greatest.                                           *)
LEMMA GreatestNat ==
  ASSUME NEW S \in SUBSET Nat, S # {}, NEW n \in Nat, \A y \in S : y <= n
  PROVE  \E x \in S : \A y \in S : y <= x
<1> DEFINE D == {n - y : y \in S}
<1>1. D \in SUBSET Nat
  OBVIOUS
<1>2. D # {}
  <2>1. PICK y \in S : TRUE
    OBVIOUS
  <2>2. n - y \in D
    OBVIOUS
  <2> QED
    BY <2>2
<1>3. PICK d \in D : \A e \in D : d <= e
  BY <1>1, <1>2, LeastNat
<1>4. PICK x \in S : d = n - x
  BY <1>3
<1>5. \A y \in S : n - x <= n - y
  BY <1>3, <1>4
<1> QED
  BY <1>5

(* Induction: a set closed under successor is everything.                  *)
LEMMA Induct ==
  ASSUME NEW S \in SUBSET Nat, 0 \in S, \A n \in S : n + 1 \in S
  PROVE  S = Nat
<1> SUFFICES ASSUME Nat \ S # {} PROVE FALSE
  OBVIOUS
<1>1. PICK x \in Nat \ S : \A y \in Nat \ S : x <= y
  BY LeastNat
<1>2. x - 1 \in Nat /\ x - 1 \notin Nat \ S
  BY <1>1
<1> QED
  BY <1>1, <1>2

(* The functions on 0 .. k that start at x and step by F.                  *)
Runs(x, F, S, k) ==
  {g \in [0 .. k -> S] : g[0] = x /\ \A i \in 0 .. k - 1 : g[i + 1] = F[<<i, g[i]>>]}

LEMMA RunExists ==
  ASSUME NEW S, NEW x \in S, NEW F \in [Nat \X S -> S], NEW k \in Nat
  PROVE  Runs(x, F, S, k) # {}
<1> DEFINE D == {n \in Nat : Runs(x, F, S, n) # {}}
<1>1. 0 \in D
  <2>1. [i \in 0 .. 0 |-> x] \in Runs(x, F, S, 0)
    BY DEF Runs
  <2> QED
    BY <2>1
<1>2. ASSUME NEW n \in D PROVE n + 1 \in D
  <2>1. PICK g \in [0 .. n -> S] : g[0] = x /\ \A i \in 0 .. n - 1 : g[i + 1] = F[<<i, g[i]>>]
    BY DEF Runs
  <2> DEFINE h == [i \in 0 .. n + 1 |-> IF i = n + 1 THEN F[<<n, g[n]>>] ELSE g[i]]
  <2>2. h \in [0 .. n + 1 -> S]
    BY <2>1
  <2>3. h[0] = x
    BY <2>1
  <2>4. \A i \in 0 .. (n + 1) - 1 : h[i + 1] = F[<<i, h[i]>>]
    <3> TAKE i \in 0 .. (n + 1) - 1
    <3>1. CASE i = n
      <4>1. i + 1 = n + 1 /\ n + 1 \in 0 .. n + 1 /\ n \in 0 .. n + 1 /\ n # n + 1
        BY <3>1
      <4>2. h[n + 1] = F[<<n, g[n]>>] /\ h[n] = g[n]
        BY <4>1
      <4> QED
        BY <3>1, <4>2
    <3>2. CASE i # n
      <4>1. i \in 0 .. n - 1 /\ i + 1 \in 0 .. n + 1 /\ i + 1 # n + 1 /\ i # n + 1 /\ i \in 0 .. n + 1
        BY <3>2
      <4> QED
        BY <2>1, <4>1
    <3> QED
      BY <3>1, <3>2
  <2>5. n + 1 \in Nat
    OBVIOUS
  <2>6. h \in Runs(x, F, S, n + 1)
    BY <2>2, <2>3, <2>4 DEF Runs
  <2> QED
    BY <2>5, <2>6
<1>3. D = Nat
  <2> HIDE DEF D
  <2>1. D \in SUBSET Nat
    BY DEF D
  <2> QED
    BY <1>1, <1>2, <2>1, Induct
<1> QED
  BY <1>3

-----------------------------------------------------------------------------
(* A recursion that moves up an interval defines a function.               *)
Upward(S, lo, hi, Stop, base, next, F) ==
  {f \in [lo .. hi -> S] : \A i \in lo .. hi :
     f[i] = IF i \in Stop THEN base[i] ELSE F[<<i, f[next[i]]>>]}

LEMMA BackwardRecursion ==
  ASSUME NEW S, NEW lo \in Nat, NEW hi \in Nat, lo <= hi,
         NEW Stop, NEW base, NEW next, NEW F,
         \A i \in lo .. hi : i \in Stop => base[i] \in S,
         \A i \in lo .. hi : i \notin Stop => next[i] \in i + 1 .. hi,
         \A i \in lo .. hi : i \notin Stop => \A v \in S : F[<<i, v>>] \in S
  PROVE  Upward(S, lo, hi, Stop, base, next, F) # {}
<1> DEFINE Solves(f, a) == \A i \in a .. hi :
             f[i] = IF i \in Stop THEN base[i] ELSE F[<<i, f[next[i]]>>]
           D == {d \in Nat : d <= hi - lo => \E f \in [hi - d .. hi -> S] : Solves(f, hi - d)}
<1>1. 0 \in D
  <2>1. hi \in Stop
    BY DEF Solves
  <2>2. base[hi] \in S
    BY <2>1
  <2>3. [i \in hi .. hi |-> base[i]] \in [hi .. hi -> S]
    BY <2>2
  <2>4. Solves([i \in hi .. hi |-> base[i]], hi)
    BY <2>1
  <2>5. hi - 0 = hi
    OBVIOUS
  <2> HIDE DEF Solves
  <2> QED
    BY <2>3, <2>4, <2>5
<1>2. ASSUME NEW d \in D PROVE d + 1 \in D
  <2> SUFFICES ASSUME d + 1 <= hi - lo
               PROVE  \E f \in [hi - (d + 1) .. hi -> S] : Solves(f, hi - (d + 1))
    OBVIOUS
  <2>1. PICK g \in [hi - d .. hi -> S] : Solves(g, hi - d)
    OBVIOUS
  <2>2. PICK a \in Nat : a = hi - (d + 1) /\ a + 1 = hi - d /\ lo <= a /\ a < hi
    OBVIOUS
  <2> DEFINE v == IF a \in Stop THEN base[a] ELSE F[<<a, g[next[a]]>>]
             f == [i \in a .. hi |-> IF i = a THEN v ELSE g[i]]
  <2>3. a \notin Stop => next[a] \in hi - d .. hi
    BY <2>2
  <2>4. v \in S
    <3>1. a \in lo .. hi
      BY <2>2
    <3>2. CASE a \in Stop
      BY <3>1, <3>2
    <3>3. CASE a \notin Stop
      <4>1. g[next[a]] \in S
        BY <2>1, <2>3, <3>3
      <4> QED
        BY <3>1, <3>3, <4>1
    <3> QED
      BY <3>2, <3>3
  <2> HIDE DEF v
  <2>5. f \in [a .. hi -> S]
    BY <2>1, <2>2, <2>4
  <2>6. \A i \in hi - d .. hi : f[i] = g[i]
    BY <2>2
  <2>7. ASSUME NEW i \in a .. hi
        PROVE  f[i] = IF i \in Stop THEN base[i] ELSE F[<<i, f[next[i]]>>]
    <3>1. CASE i = a
      <4>1. f[i] = v
        BY <3>1
      <4>2. a \notin Stop => f[next[a]] = g[next[a]]
        BY <2>3, <2>6
      <4> HIDE DEF f
      <4> QED
        BY <3>1, <4>1, <4>2 DEF v
    <3>2. CASE i # a
      <4>1. i \in hi - d .. hi
        BY <2>2, <3>2
      <4>2. i \notin Stop => next[i] \in hi - d .. hi
        BY <2>2, <4>1
      <4>3. g[i] = IF i \in Stop THEN base[i] ELSE F[<<i, g[next[i]]>>]
        BY <2>1, <4>1
      <4> HIDE DEF f
      <4> QED
        BY <2>6, <4>1, <4>2, <4>3
    <3> QED
      BY <3>1, <3>2
  <2> HIDE DEF f
  <2>8. Solves(f, a)
    BY <2>7
  <2>9. a = hi - (d + 1)
    BY <2>2
  <2>10. f \in [hi - (d + 1) .. hi -> S] /\ Solves(f, hi - (d + 1))
    BY <2>5, <2>8, <2>9
  <2> HIDE DEF Solves
  <2> QED
    BY <2>10
<1> HIDE DEF D
<1>3. D \in SUBSET Nat
  BY DEF D
<1>4. D = Nat
  BY <1>1, <1>2, <1>3, Induct
<1>5. hi - lo \in D /\ hi - lo \in Nat /\ hi - lo <= hi - lo
  BY <1>4
<1> HIDE DEF Solves
<1>6. \E f \in [hi - (hi - lo) .. hi -> S] : Solves(f, hi - (hi - lo))
  BY <1>5 DEF D
<1>7. hi - (hi - lo) = lo
  OBVIOUS
<1> QED
  BY <1>6, <1>7 DEF Solves, Upward

-----------------------------------------------------------------------------
(* Bytes and codepoints.                                                   *)
LEMMA WidthFacts ==
  ASSUME NEW b \in Nat
  PROVE  Width(b) \in 1 .. 4 /\ Payload(b) \in Nat
<1>1. Width(b) \in 1 .. 4
  BY DEF Width
<1>2. b % 32 \in Nat /\ b % 16 \in Nat /\ b % 8 \in Nat
  OBVIOUS
<1> QED
  BY <1>1, <1>2 DEF Payload

LEMMA CodepointValue ==
  ASSUME NEW t \in Seq(Nat), NEW i \in 1 .. Len(t), CompleteAt(t, i)
  PROVE  \E g : /\ g[0] = Payload(t[i])
                /\ \A k \in 1 .. Width(t[i]) - 1 : g[k] = g[k - 1] * 64 + (t[i + k] % 64)
                /\ \A k \in 0 .. Width(t[i]) - 1 : g[k] \in Nat
                /\ CodepointAt(t, i) = [value |-> g[Width(t[i]) - 1],
                                             after |-> i + Width(t[i])]
<1> DEFINE w == Width(t[i])
           Step(f, extra) == [k \in 0 .. extra |-> IF k = 0 THEN Payload(t[i])
                                           ELSE f[k - 1] * 64 + (t[i + k] % 64)]
<1>1. t[i] \in Nat /\ w \in 1 .. 4 /\ Payload(t[i]) \in Nat
  BY WidthFacts, ElementOfSeq
<1>2. PICK extra \in 0 .. 3 : extra = w - 1
  BY <1>1
<1> DEFINE F == [p \in Nat \X Nat |->
                   IF p[1] < extra THEN p[2] * 64 + (t[i + (p[1] + 1)] % 64) ELSE 0]
           e == Width(t[i]) - 1
           u == CHOOSE cp : cp = Step(cp, e)
<1>3. \A k \in 1 .. extra : t[i + k] % 64 \in Nat
  <2>1. i + extra <= Len(t)
    BY <1>1, <1>2 DEF CompleteAt
  <2>2. ASSUME NEW k \in 1 .. extra PROVE t[i + k] % 64 \in Nat
    <3>1. t[i + k] \in Nat
      BY <2>1, ElementOfSeq, LenProperties
    <3> QED
      BY <3>1
  <2> QED
    BY <2>2
<1>4. F \in [Nat \X Nat -> Nat]
  <2>1. ASSUME NEW x \in Nat, NEW y \in Nat, x < extra
        PROVE  y * 64 + (t[i + (x + 1)] % 64) \in Nat
    <3>1. x + 1 \in 1 .. extra
      BY <2>1
    <3>2. t[i + (x + 1)] % 64 \in Nat
      BY <1>3, <3>1
    <3> QED
      BY <3>2
  <2> QED
    BY <2>1
<1> HIDE DEF F
<1>17. Runs(Payload(t[i]), F, Nat, extra) # {}
  <2>1. PICK x \in Nat : x = Payload(t[i])
    BY <1>1
  <2>2. extra \in Nat
    OBVIOUS
  <2>3. Runs(x, F, Nat, extra) # {}
    BY <1>4, <2>2, RunExists
  <2> QED
    BY <2>1, <2>3
<1>5. PICK g \in Runs(Payload(t[i]), F, Nat, extra) : TRUE
  BY <1>17
<1>6. /\ g \in [0 .. extra -> Nat] /\ g[0] = Payload(t[i])
      /\ \A k \in 0 .. extra - 1 : g[k + 1] = F[<<k, g[k]>>]
  BY <1>5 DEF Runs
<1>7. ASSUME NEW m \in 0 .. extra - 1
      PROVE  g[m + 1] = g[m] * 64 + (t[i + (m + 1)] % 64)
  <2>1. m \in 0 .. extra /\ m < extra /\ m \in Nat
    BY <1>2
  <2>2. g[m] \in Nat
    BY <1>6, <2>1
  <2>3. F[<<m, g[m]>>] = g[m] * 64 + (t[i + (m + 1)] % 64)
    BY <2>1, <2>2 DEF F
  <2> QED
    BY <1>6, <2>3
<1>8. ASSUME NEW k \in 1 .. extra PROVE g[k] = g[k - 1] * 64 + (t[i + k] % 64)
  <2>1. k - 1 \in 0 .. extra - 1 /\ (k - 1) + 1 = k
    BY <1>2
  <2> QED
    BY <1>7, <2>1
<1>9. g = Step(g, extra)
  BY <1>2, <1>6, <1>8
<1>10. u = Step(u, e)
  BY <1>2, <1>9
<1>18. CodepointAt(t, i) = [value |-> u[e], after |-> i + e + 1]
  BY DEF CodepointAt
<1>11. CodepointAt(t, i) = [value |-> u[extra], after |-> i + w] /\ u = Step(u, extra)
  <2> HIDE DEF u, Step
  <2>1. i + e + 1 = i + w /\ e = extra
    BY <1>1, <1>2
  <2> QED
    BY <1>10, <1>18, <2>1
<1> HIDE DEF u
<1>12. u[0] = Payload(t[i]) /\ \A k \in 1 .. extra : u[k] = u[k - 1] * 64 + (t[i + k] % 64)
  <2>1. \A k \in 0 .. extra : u[k] = IF k = 0 THEN Payload(t[i])
                                     ELSE u[k - 1] * 64 + (t[i + k] % 64)
    BY <1>11
  <2>2. 0 \in 0 .. extra /\ \A k \in 1 .. extra : k \in 0 .. extra /\ k # 0
    BY <1>2
  <2> QED
    BY <2>1, <2>2
<1> DEFINE D == {k \in Nat : k <= extra => u[k] \in Nat}
<1>13. 0 \in D
  BY <1>1, <1>12
<1>14. ASSUME NEW k \in D PROVE k + 1 \in D
  <2> SUFFICES ASSUME k + 1 <= extra PROVE u[k + 1] \in Nat
    OBVIOUS
  <2>1. PICK m \in 1 .. extra : m = k + 1 /\ m - 1 = k
    OBVIOUS
  <2>2. u[m] = u[m - 1] * 64 + (t[i + m] % 64)
    BY <1>12
  <2>3. u[m - 1] \in Nat
    BY <2>1
  <2>4. t[i + m] % 64 \in Nat
    BY <1>3
  <2>6. ASSUME NEW x \in Nat, NEW y \in Nat PROVE x * 64 + y \in Nat
    OBVIOUS
  <2> HIDE DEF D
  <2>5. u[m] \in Nat
    BY <2>2, <2>3, <2>4, <2>6
  <2> QED
    BY <2>1, <2>5
<1> HIDE DEF D
<1>15. D = Nat
  <2>1. D \in SUBSET Nat
    BY DEF D
  <2> QED
    BY <1>13, <1>14, <2>1, Induct
<1>16. \A k \in 0 .. extra : u[k] \in Nat
  BY <1>2, <1>15 DEF D
<1> QED
  BY <1>2, <1>11, <1>12, <1>16

LEMMA CodepointFacts ==
  ASSUME NEW t \in Seq(Nat), NEW i \in 1 .. Len(t)
  PROVE  /\ CodepointAt(t, i).value \in Nat
         /\ CodepointAt(t, i).after \in i + 1 .. Len(t) + 1
         /\ CompleteAt(t, i) => CodepointAt(t, i).after = i + Width(t[i])
<1>4. t[i] \in Nat /\ Len(t) \in Nat
  BY ElementOfSeq, LenProperties
<1>1. t[i] \in Nat /\ Width(t[i]) \in 1 .. 4 /\ Len(t) \in Nat
  BY <1>4, WidthFacts
<1>2. CASE CompleteAt(t, i)
  <2>1. PICK g : /\ \A k \in 0 .. Width(t[i]) - 1 : g[k] \in Nat
                 /\ CodepointAt(t, i) = [value |-> g[Width(t[i]) - 1],
                                              after |-> i + Width(t[i])]
    BY <1>2, CodepointValue
  <2>2. i + Width(t[i]) - 1 <= Len(t)
    BY <1>2 DEF CompleteAt
  <2>3. Width(t[i]) - 1 \in 0 .. Width(t[i]) - 1
    BY <1>1
  <2>4. i + Width(t[i]) \in i + 1 .. Len(t) + 1
    BY <1>1, <2>2
  <2> QED
    BY <2>1, <2>3, <2>4
<1>3. CASE ~CompleteAt(t, i)
  <2>1. CodepointAt(t, i) = [value |-> t[i], after |-> i + 1]
    BY <1>3 DEF CodepointAt
  <2> QED
    BY <1>1, <1>3, <2>1
<1> QED
  BY <1>2, <1>3

(* The codepoints of a text from one place on: each begins where the one   *)
(* before it ends, and the last ends where the text does.                  *)
Chain(t, i, cps) ==
  /\ cps \in Seq([value : Nat, offset : i .. Len(t)])
  /\ Len(cps) = 0 <=> i = Len(t) + 1
  /\ Len(cps) > 0 => cps[1].offset = i
  /\ \A k \in 1 .. Len(cps) :
       /\ cps[k].value = CodepointAt(t, cps[k].offset).value
       /\ CodepointAt(t, cps[k].offset).after =
            IF k = Len(cps) THEN Len(t) + 1 ELSE cps[k + 1].offset

LEMMA ChainGrows ==
  ASSUME NEW t \in Seq(Nat), NEW i \in 1 .. Len(t), NEW after \in i + 1 .. Len(t) + 1, NEW tail,
         after = CodepointAt(t, i).after, Chain(t, after, tail)
  PROVE  Chain(t, i, <<[value |-> CodepointAt(t, i).value, offset |-> i]>> \o tail)
<1> DEFINE c == [value |-> CodepointAt(t, i).value, offset |-> i]
           S == [value : Nat, offset : i .. Len(t)]
           cps == <<c>> \o tail
<1>1. Len(t) \in Nat /\ c \in S
  BY CodepointFacts
<1>2. tail \in Seq(S)
  <2>1. [value : Nat, offset : after .. Len(t)] \subseteq S
    OBVIOUS
  <2> HIDE DEF S
  <2> QED
    BY <2>1, SeqMonotonic DEF Chain
<1>7. PICK n \in Nat : n = Len(tail)
  BY <1>2, LenProperties
<1>3. /\ cps \in Seq(S) /\ Len(cps) = n + 1 /\ cps[1] = c
      /\ \A k \in 1 .. n : cps[k + 1] = tail[k]
  <2> HIDE DEF c, S
  <2>1. <<c>> \in Seq(S) /\ Len(<<c>>) = 1 /\ <<c>>[1] = c
    BY <1>1
  <2> QED
    BY <1>2, <1>7, <2>1, ConcatProperties
<1> HIDE DEF cps
<1>4. ASSUME NEW k \in 1 .. Len(cps)
      PROVE  /\ cps[k].value = CodepointAt(t, cps[k].offset).value
             /\ CodepointAt(t, cps[k].offset).after =
                  IF k = Len(cps) THEN Len(t) + 1 ELSE cps[k + 1].offset
  <2>1. CASE k = 1
    <3>1. cps[k].value = CodepointAt(t, i).value /\ cps[k].offset = i
      BY <1>3, <2>1
    <3>2. n = 0 <=> after = Len(t) + 1
      BY <1>7 DEF Chain
    <3>3. n # 0 => cps[k + 1] = tail[1] /\ tail[1].offset = after
      <4>1. n # 0 => 1 \in 1 .. n /\ n > 0
        OBVIOUS
      <4>2. n # 0 => cps[1 + 1] = tail[1]
        BY <1>3, <4>1
      <4>3. n # 0 => tail[1].offset = after
        BY <1>7, <4>1 DEF Chain
      <4> QED
        BY <2>1, <4>2, <4>3
    <3>4. k = Len(cps) <=> n = 0
      BY <1>3, <2>1
    <3> QED
      BY <3>1, <3>2, <3>3, <3>4
  <2>2. CASE k # 1
    <3>1. PICK m \in 1 .. n : m + 1 = k
      <4>1. k \in 1 .. n + 1
        BY <1>3
      <4>2. k - 1 \in 1 .. n /\ (k - 1) + 1 = k
        BY <2>2, <4>1
      <4> QED
        BY <4>2
    <3>3. k = Len(cps) <=> m = n
      <4>1. Len(cps) = n + 1
        BY <1>3
      <4> HIDE DEF cps, S
      <4> QED
        BY ONLY n \in Nat, m \in 1 .. n, <3>1, <4>1
    <3>2. cps[k] = tail[m] /\ (m # n => cps[k + 1] = tail[m + 1])
      <4>1. m # n => m + 1 \in 1 .. n
        OBVIOUS
      <4> QED
        BY <1>3, <3>1, <4>1
    <3>4. /\ tail[m].value = CodepointAt(t, tail[m].offset).value
          /\ CodepointAt(t, tail[m].offset).after =
               IF m = n THEN Len(t) + 1 ELSE tail[m + 1].offset
      BY <1>7 DEF Chain
    <3> QED
      BY <3>2, <3>3, <3>4
  <2> QED
    BY <2>1, <2>2
<1>5. cps[1].offset = i /\ Len(cps) > 0 /\ i # Len(t) + 1
  BY <1>1, <1>3
<1>6. Chain(t, i, cps)
  BY <1>3, <1>4, <1>5 DEF Chain
<1> QED
  BY <1>6 DEF cps

LEMMA DecodeChain ==
  ASSUME NEW t \in Seq(Nat)
  PROVE  Chain(t, 1, DecodeUtf8(t))
<1> DEFINE C(i) == [value |-> CodepointAt(t, i).value, offset |-> i]
           Step(f) == [i \in 1 .. Len(t) + 1 |->
             IF i > Len(t) THEN << >>
             ELSE LET cp == CodepointAt(t, i)
                  IN  <<[value |-> cp.value, offset |-> i]>> \o f[cp.after]]
           S == Seq([value : Nat, offset : Nat])
           next == [i \in 1 .. Len(t) |-> CodepointAt(t, i).after]
           base == [i \in {Len(t) + 1} |-> << >>]
           F == [p \in (1 .. Len(t)) \X S |-> <<C(p[1])>> \o p[2]]
           u == CHOOSE from : from = Step(from)
<1>1. PICK n \in Nat : n = Len(t)
  BY LenProperties
<1>2. \A i \in 1 .. n : next[i] = CodepointAt(t, i).after /\ next[i] \in i + 1 .. n + 1
  <2> TAKE i \in 1 .. n
  <2>1. CodepointAt(t, i).after \in i + 1 .. Len(t) + 1
    BY <1>1, CodepointFacts
  <2> QED
    BY <1>1, <2>1
<1>3. \A i \in 1 .. n : C(i) \in [value : Nat, offset : Nat]
  BY <1>1, CodepointFacts
<1>4. \A i \in 1 .. n : \A v \in S : F[<<i, v>>] = <<C(i)>> \o v /\ F[<<i, v>>] \in S
  <2> TAKE i \in 1 .. n
  <2> TAKE v \in S
  <2>1. F[<<i, v>>] = <<C(i)>> \o v
    BY <1>1
  <2>2. <<C(i)>> \in S
    BY <1>3
  <2>3. <<C(i)>> \o v \in S
    BY <2>2, ConcatProperties
  <2> QED
    BY <2>1, <2>3
<1>5. \E f \in [1 .. n + 1 -> S] : \A i \in 1 .. n + 1 :
        f[i] = IF i \in {n + 1} THEN base[i] ELSE F[<<i, f[next[i]]>>]
  <2>1. base[n + 1] = << >> /\ << >> \in S
    BY <1>1
  <2>2. PICK lo \in Nat, hi \in Nat : lo = 1 /\ hi = n + 1 /\ lo <= hi
    OBVIOUS
  <2>3. PICK stop : stop = {hi}
    OBVIOUS
  <2> HIDE DEF base, next, F, S
  <2>4. \A i \in lo .. hi : i \in stop => base[i] \in S
    BY <2>1, <2>2, <2>3
  <2>5. \A i \in lo .. hi : i \notin stop => next[i] \in i + 1 .. hi
    BY <1>2, <2>2, <2>3
  <2>6. ASSUME NEW i \in lo .. hi, i \notin stop PROVE \A v \in S : F[<<i, v>>] \in S
    <3>1. i \in 1 .. n
      BY <2>2, <2>3, <2>6
    <3> QED
      BY <1>4, <3>1
  <2>7. \A i \in lo .. hi : i \notin stop => \A v \in S : F[<<i, v>>] \in S
    BY <2>6
  <2>8. Upward(S, lo, hi, stop, base, next, F) # {}
    BY <2>2, <2>4, <2>5, <2>7, BackwardRecursion
  <2> QED
    BY <2>2, <2>3, <2>8 DEF Upward
<1>6. PICK h \in [1 .. n + 1 -> S] : \A i \in 1 .. n + 1 :
        h[i] = IF i \in {n + 1} THEN base[i] ELSE F[<<i, h[next[i]]>>]
  BY <1>5
<1>7. h = Step(h)
  <2>1. \A i \in 1 .. n + 1 : h[i] =
          IF i > n THEN << >>
          ELSE <<[value |-> CodepointAt(t, i).value, offset |-> i]>> \o h[CodepointAt(t, i).after]
    <3> TAKE i \in 1 .. n + 1
    <3>1. CASE i = n + 1
      <4>1. base[n + 1] = << >> /\ i > n /\ i \in {n + 1}
        BY <1>1, <3>1
      <4> HIDE DEF base
      <4> QED
        BY <1>6, <3>1, <4>1
    <3>2. CASE i # n + 1
      <4>1. i \in 1 .. n
        BY <3>2
      <4> HIDE DEF F, next, S, base
      <4>2. h[next[i]] \in S /\ ~(i > n)
        <5>1. next[i] \in 1 .. n + 1
          BY <1>2, <4>1
        <5> QED
          BY <4>1, <5>1
      <4>3. F[<<i, h[next[i]]>>] = <<C(i)>> \o h[next[i]]
        BY <1>4, <4>1, <4>2
      <4>4. h[i] = F[<<i, h[next[i]]>>]
        BY <1>6, <3>2
      <4> QED
        BY <1>2, <4>1, <4>2, <4>3, <4>4
    <3> QED
      BY <3>1, <3>2
  <2> QED
    BY <1>1, <2>1
<1>8. u = Step(u)
  BY <1>7
<1>9. DecodeUtf8(t) = u[1]
  BY DEF DecodeUtf8
<1> HIDE DEF u
<1>10. u[n + 1] = << >> /\ \A i \in 1 .. n : u[i] = <<C(i)>> \o u[next[i]]
  <2>1. \A i \in 1 .. n + 1 : u[i] =
          IF i > n THEN << >>
          ELSE <<[value |-> CodepointAt(t, i).value, offset |-> i]>> \o u[CodepointAt(t, i).after]
    BY <1>1, <1>8
  <2>2. ASSUME NEW i \in 1 .. n PROVE u[i] = <<C(i)>> \o u[next[i]]
    <3>1. i \in 1 .. n + 1 /\ ~(i > n)
      OBVIOUS
    <3> QED
      BY <1>2, <2>1, <3>1
  <2>3. n + 1 \in 1 .. n + 1 /\ n + 1 > n
    OBVIOUS
  <2> QED
    BY <2>1, <2>2, <2>3
<1> HIDE DEF Step, next, base, F, S
<1> DEFINE D == {d \in Nat : \A i \in 1 .. n + 1 : n + 1 - i <= d => Chain(t, i, u[i])}
<1>11. 0 \in D
  <2> SUFFICES Chain(t, n + 1, u[n + 1])
    OBVIOUS
  <2> QED
    BY <1>1, <1>10 DEF Chain
<1>12. ASSUME NEW d \in D PROVE d + 1 \in D
  <2> SUFFICES ASSUME NEW i \in 1 .. n + 1, n + 1 - i <= d + 1 PROVE Chain(t, i, u[i])
    OBVIOUS
  <2>1. CASE i = n + 1
    BY <1>11, <2>1
  <2>2. CASE i # n + 1
    <3>1. i \in 1 .. n /\ next[i] \in i + 1 .. n + 1 /\ next[i] = CodepointAt(t, i).after
      BY <1>2, <2>2
    <3>2. next[i] \in 1 .. n + 1 /\ n + 1 - next[i] <= d
      BY <3>1
    <3>3. Chain(t, next[i], u[next[i]])
      BY <3>2
    <3>4. Chain(t, i, <<[value |-> CodepointAt(t, i).value, offset |-> i]>> \o u[next[i]])
      BY <1>1, <3>1, <3>3, ChainGrows
    <3> QED
      BY <1>10, <3>1, <3>4
  <2> QED
    BY <2>1, <2>2
<1> HIDE DEF D
<1>13. D = Nat
  <2>1. D \in SUBSET Nat
    BY DEF D
  <2> QED
    BY <1>11, <1>12, <2>1, Induct
<1>14. n \in D /\ 1 \in 1 .. n + 1 /\ n + 1 - 1 <= n
  BY <1>13
<1>15. Chain(t, 1, u[1])
  BY <1>14 DEF D
<1> QED
  BY <1>9, <1>15

-----------------------------------------------------------------------------
(* A sequence of texts joined to one.                                      *)
Joins(seqs, g) ==
  g[0] = << >> /\ \A k \in 1 .. Len(seqs) : g[k] = g[k - 1] \o seqs[k]

LEMMA JoinExists ==
  ASSUME NEW S, NEW seqs \in Seq(Seq(S))
  PROVE  \E g \in [0 .. Len(seqs) -> Seq(S)] : Joins(seqs, g)
<1> DEFINE T == Seq(S)
           F == [p \in Nat \X T |-> IF p[1] < Len(seqs) THEN p[2] \o seqs[p[1] + 1] ELSE << >>]
<1>1. PICK n \in Nat : n = Len(seqs)
  BY LenProperties
<1>2. << >> \in T
  OBVIOUS
<1>3. \A k \in 1 .. n : seqs[k] \in T
  BY <1>1, ElementOfSeq
<1>4. \A x \in Nat : \A y \in T :
        /\ F[<<x, y>>] \in T
        /\ x < n => F[<<x, y>>] = y \o seqs[x + 1]
  <2> TAKE x \in Nat
  <2> TAKE y \in T
  <2>1. F[<<x, y>>] = IF x < n THEN y \o seqs[x + 1] ELSE << >>
    BY <1>1
  <2>2. x < n => y \o seqs[x + 1] \in T
    <3> HAVE x < n
    <3>1. seqs[x + 1] \in T
      BY <1>3
    <3> QED
      BY <3>1, ConcatProperties
  <2> QED
    BY <1>2, <2>1, <2>2
<1>5. F \in [Nat \X T -> T]
  <2>1. \A p \in Nat \X T : F[p] \in T
    <3> TAKE p \in Nat \X T
    <3>1. p = <<p[1], p[2]>> /\ p[1] \in Nat /\ p[2] \in T
      OBVIOUS
    <3> HIDE DEF F
    <3> QED
      BY <1>4, <3>1
  <2> QED
    BY <2>1
<1> HIDE DEF F, T
<1>6. Runs(<< >>, F, T, n) # {}
  BY <1>2, <1>5, RunExists
<1>7. PICK g \in [0 .. n -> T] : g[0] = << >> /\ \A k \in 0 .. n - 1 : g[k + 1] = F[<<k, g[k]>>]
  BY <1>6 DEF Runs
<1>8. ASSUME NEW k \in 1 .. n PROVE g[k] = g[k - 1] \o seqs[k]
  <2>1. PICK m \in 0 .. n - 1 : m + 1 = k /\ m = k - 1 /\ m \in 0 .. n /\ m < n
    <3>1. k - 1 \in 0 .. n - 1 /\ (k - 1) + 1 = k /\ k - 1 \in 0 .. n /\ k - 1 < n
      OBVIOUS
    <3> QED
      BY <3>1
  <2>2. g[m] \in T
    BY <1>7, <2>1
  <2>4. m \in Nat /\ m < n
    BY <2>1
  <2>3. F[<<m, g[m]>>] = g[m] \o seqs[m + 1]
    BY <1>4, <2>2, <2>4
  <2> QED
    BY <1>7, <2>1, <2>3
<1> QED
  BY <1>1, <1>7, <1>8 DEF Joins, T

LEMMA Flattened ==
  ASSUME NEW S, NEW seqs \in Seq(Seq(S))
  PROVE  \E g \in [0 .. Len(seqs) -> Seq(S)] :
           Joins(seqs, g) /\ FlattenSeq(seqs) = g[Len(seqs)]
<1>1. PICK n \in Nat : n = Len(seqs)
  BY LenProperties
<1>2. CASE n = 0
  <2>1. seqs = << >>
    BY <1>1, <1>2, EmptySeq
  <2>2. FlattenSeq(seqs) = << >>
    BY <1>1, <1>2, <2>1 DEF FlattenSeq
  <2>3. PICK g \in [0 .. Len(seqs) -> Seq(S)] : Joins(seqs, g)
    BY JoinExists
  <2> QED
    BY <1>1, <1>2, <2>2, <2>3 DEF Joins
<1>3. CASE n # 0
  <2> DEFINE Step(f) == [i \in 1 .. Len(seqs) |->
                           IF i = 1 THEN seqs[i] ELSE f[i - 1] \o seqs[i]]
             u == CHOOSE flatten : flatten = Step(flatten)
  <2>1. PICK g \in [0 .. n -> Seq(S)] : Joins(seqs, g)
    BY <1>1, JoinExists
  <2> DEFINE h == [i \in 1 .. n |-> g[i]]
  <2>2. \A i \in 1 .. n : seqs[i] \in Seq(S)
    BY <1>1, ElementOfSeq
  <2>3. h = Step(h)
    <3>1. ASSUME NEW i \in 1 .. n PROVE h[i] = IF i = 1 THEN seqs[i] ELSE h[i - 1] \o seqs[i]
      <4>1. g[i] = g[i - 1] \o seqs[i]
        BY <1>1, <2>1 DEF Joins
      <4>2. CASE i = 1
        <5>1. g[i - 1] = << >>
          BY <2>1, <4>2 DEF Joins
        <5>2. << >> \o seqs[i] = seqs[i]
          BY <2>2, ConcatEmptySeq
        <5> QED
          BY <4>1, <4>2, <5>1, <5>2
      <4>3. CASE i # 1
        <5>1. i - 1 \in 1 .. n
          BY <4>3
        <5> QED
          BY <4>1, <4>3, <5>1
      <4> QED
        BY <4>2, <4>3
    <3> QED
      BY <1>1, <3>1
  <2>4. u = Step(u)
    BY <2>3
  <2>5. FlattenSeq(seqs) = u[n]
    BY <1>1, <1>3 DEF FlattenSeq
  <2> HIDE DEF u, h
  <2>6. \A i \in 1 .. n : u[i] = IF i = 1 THEN seqs[i] ELSE u[i - 1] \o seqs[i]
    BY <1>1, <2>4
  <2> HIDE DEF Step
  <2> DEFINE D == {k \in Nat : k + 1 <= n => u[k + 1] = g[k + 1]}
  <2>7. 0 \in D
    <3>1. 1 \in 1 .. n
      BY <1>3
    <3>2. u[1] = seqs[1] /\ seqs[1] \in Seq(S)
      BY <2>2, <2>6, <3>1
    <3>5. g[1] = g[1 - 1] \o seqs[1] /\ g[0] = << >>
      BY <1>1, <2>1, <3>1 DEF Joins
    <3>6. 1 - 1 = 0
      OBVIOUS
    <3>3. g[1] = g[0] \o seqs[1] /\ g[0] = << >>
      BY <3>5, <3>6
    <3>4. g[1] = seqs[1]
      BY <3>2, <3>3, ConcatEmptySeq
    <3> QED
      BY <3>2, <3>4
  <2>8. ASSUME NEW k \in D PROVE k + 1 \in D
    <3> SUFFICES ASSUME (k + 1) + 1 <= n PROVE u[(k + 1) + 1] = g[(k + 1) + 1]
      OBVIOUS
    <3>1. PICK m \in 1 .. n : m = (k + 1) + 1 /\ m # 1 /\ m - 1 = k + 1
      OBVIOUS
    <3>2. u[m] = u[m - 1] \o seqs[m]
      BY <2>6, <3>1
    <3>3. g[m] = g[m - 1] \o seqs[m]
      BY <1>1, <2>1 DEF Joins
    <3>4. u[m - 1] = g[m - 1]
      BY <3>1
    <3> QED
      BY <3>1, <3>2, <3>3, <3>4
  <2> HIDE DEF D
  <2>9. D = Nat
    <3>1. D \in SUBSET Nat
      BY DEF D
    <3> QED
      BY <2>7, <2>8, <3>1, Induct
  <2>10. u[n] = g[n]
    <3>1. PICK k \in D : k + 1 = n
      <4>1. n - 1 \in D /\ (n - 1) + 1 = n
        BY <1>3, <2>9
      <4> QED
        BY <4>1
    <3> QED
      BY <3>1 DEF D
  <2> QED
    BY <1>1, <2>1, <2>5, <2>10
<1> QED
  BY <1>2, <1>3

LEMMA FlattenFacts ==
  ASSUME NEW S, NEW seqs \in Seq(Seq(S)), NEW x \in Seq(S)
  PROVE  /\ FlattenSeq(seqs) \in Seq(S)
         /\ FlattenSeq(Append(seqs, x)) = FlattenSeq(seqs) \o x
<1> DEFINE longer == Append(seqs, x)
<1>1. PICK n \in Nat : n = Len(seqs)
  BY LenProperties
<1>2. longer \in Seq(Seq(S)) /\ Len(longer) = n + 1 /\ longer[n + 1] = x
      /\ \A k \in 1 .. n : longer[k] = seqs[k]
  BY <1>1
<1> HIDE DEF longer
<1>3. PICK g \in [0 .. n -> Seq(S)] : Joins(seqs, g) /\ FlattenSeq(seqs) = g[n]
  BY <1>1, Flattened
<1>4. PICK h \in [0 .. Len(longer) -> Seq(S)] :
        Joins(longer, h) /\ FlattenSeq(longer) = h[Len(longer)]
  BY <1>2, Flattened
<1>5. /\ \A k \in 1 .. n : g[k] = g[k - 1] \o seqs[k]
      /\ \A k \in 1 .. n + 1 : h[k] = h[k - 1] \o longer[k]
      /\ g[0] = << >> /\ h[0] = << >>
  BY <1>1, <1>2, <1>3, <1>4 DEF Joins
<1> DEFINE D == {k \in Nat : k <= n => h[k] = g[k]}
<1>6. 0 \in D
  BY <1>5
<1>7. ASSUME NEW k \in D PROVE k + 1 \in D
  <2> SUFFICES ASSUME k + 1 <= n PROVE h[k + 1] = g[k + 1]
    OBVIOUS
  <2>1. PICK m \in 1 .. n : m = k + 1 /\ m - 1 = k /\ m \in 1 .. n + 1
    OBVIOUS
  <2>2. g[m] = g[m - 1] \o seqs[m]
    BY <1>5
  <2>3. h[m] = h[m - 1] \o longer[m]
    BY <1>5, <2>1
  <2>4. h[m - 1] = g[m - 1]
    BY <2>1
  <2> QED
    BY <1>2, <2>1, <2>2, <2>3, <2>4
<1> HIDE DEF D
<1>8. D = Nat
  <2>1. D \in SUBSET Nat
    BY DEF D
  <2> QED
    BY <1>6, <1>7, <2>1, Induct
<1>9. h[n] = g[n]
  <2>1. n \in D
    BY <1>8
  <2> QED
    BY <2>1 DEF D
<1>10. h[n + 1] = h[n] \o x
  <2>1. PICK m \in 1 .. n + 1 : m = n + 1 /\ m - 1 = n
    OBVIOUS
  <2>2. h[m] = h[m - 1] \o longer[m]
    BY <1>5
  <2> QED
    BY <1>2, <2>1, <2>2
<1>11. g[n] \in Seq(S)
  BY <1>3
<1> QED
  BY <1>2, <1>3, <1>4, <1>9, <1>10, <1>11 DEF longer

LEMMA FlattenNone == FlattenSeq(<< >>) = << >>
BY DEF FlattenSeq

(* Where the bytes of a part are in the whole.                             *)
LEMMA JoinedPlaces ==
  ASSUME NEW S, NEW seqs \in Seq(Seq(S)), NEW g \in [0 .. Len(seqs) -> Seq(S)], Joins(seqs, g),
         NEW k \in 1 .. Len(seqs)
  PROVE  /\ Len(g[k - 1]) \in Nat /\ Len(g[k]) = Len(g[k - 1]) + Len(seqs[k])
         /\ \A j \in 1 .. Len(seqs[k]) : g[Len(seqs)][Len(g[k - 1]) + j] = seqs[k][j]
         /\ Len(g[k]) <= Len(g[Len(seqs)])
<1>1. PICK n \in Nat : n = Len(seqs)
  BY LenProperties
<1>2. \A m \in 1 .. n : /\ g[m] = g[m - 1] \o seqs[m]
                        /\ seqs[m] \in Seq(S) /\ g[m - 1] \in Seq(S) /\ g[m] \in Seq(S)
  <2> TAKE m \in 1 .. n
  <2>1. m - 1 \in 0 .. n /\ m \in 0 .. n
    OBVIOUS
  <2> QED
    BY <1>1, <2>1, ElementOfSeq DEF Joins
<1>3. \A m \in 1 .. n :
        /\ Len(g[m - 1]) \in Nat /\ Len(seqs[m]) \in Nat
        /\ Len(g[m]) = Len(g[m - 1]) + Len(seqs[m])
        /\ \A j \in 1 .. Len(g[m - 1]) : g[m][j] = g[m - 1][j]
        /\ \A j \in 1 .. Len(seqs[m]) : g[m][Len(g[m - 1]) + j] = seqs[m][j]
  <2> TAKE m \in 1 .. n
  <2>1. PICK s \in Seq(S), r \in Seq(S) : s = g[m - 1] /\ r = seqs[m] /\ g[m] = s \o r
    BY <1>2
  <2>2. PICK a \in Nat, b \in Nat : a = Len(s) /\ b = Len(r)
    BY LenProperties
  <2>3. /\ Len(s \o r) = a + b
        /\ \A j \in 1 .. a + b : (s \o r)[j] = IF j <= a THEN s[j] ELSE r[j - a]
    BY <2>2, ConcatProperties
  <2>4. \A j \in 1 .. a : (s \o r)[j] = s[j]
    BY <2>3
  <2>5. \A j \in 1 .. b : (s \o r)[a + j] = r[j]
    <3> TAKE j \in 1 .. b
    <3>1. a + j \in 1 .. a + b /\ ~(a + j <= a) /\ (a + j) - a = j
      OBVIOUS
    <3> QED
      BY <2>3, <3>1
  <2> QED
    BY <2>1, <2>2, <2>3, <2>4, <2>5
<1> DEFINE D == {m \in Nat : k + m <= n =>
                   /\ Len(g[k]) <= Len(g[k + m])
                   /\ \A j \in 1 .. Len(g[k]) : g[k + m][j] = g[k][j]}
<1>4. k \in 1 .. n /\ Len(g[k]) \in Nat
  BY <1>1, <1>2, LenProperties
<1>5. 0 \in D
  <2>1. k + 0 = k
    BY <1>4
  <2> QED
    BY <1>4, <2>1
<1>6. ASSUME NEW m \in D PROVE m + 1 \in D
  <2> SUFFICES ASSUME k + (m + 1) <= n
               PROVE  /\ Len(g[k]) <= Len(g[k + (m + 1)])
                      /\ \A j \in 1 .. Len(g[k]) : g[k + (m + 1)][j] = g[k][j]
    OBVIOUS
  <2>1. PICK p \in 1 .. n : p = k + (m + 1) /\ p - 1 = k + m /\ k + m <= n
    <3>1. k + (m + 1) \in 1 .. n /\ k + (m + 1) - 1 = k + m /\ k + m <= n
      BY <1>4
    <3>2. (k + (m + 1)) - 1 = k + m
      BY <1>4
    <3> QED
      BY <3>1, <3>2
  <2>2. /\ Len(g[k]) <= Len(g[p - 1])
        /\ \A j \in 1 .. Len(g[k]) : g[p - 1][j] = g[k][j]
    BY <2>1
  <2>3. /\ Len(g[p - 1]) \in Nat /\ Len(seqs[p]) \in Nat
        /\ Len(g[p]) = Len(g[p - 1]) + Len(seqs[p])
        /\ \A j \in 1 .. Len(g[p - 1]) : g[p][j] = g[p - 1][j]
    BY <1>3
  <2>4. Len(g[k]) <= Len(g[p])
    <3>1. PICK a \in Nat, b \in Nat, c \in Nat : a = Len(g[k]) /\ b = Len(g[p - 1]) /\ c = Len(seqs[p])
      BY <1>4, <2>3
    <3>2. a <= b /\ Len(g[p]) = b + c
      BY <2>2, <2>3, <3>1
    <3>3. a <= b + c
      BY <3>2
    <3> QED
      BY <3>1, <3>2, <3>3
  <2>5. ASSUME NEW j \in 1 .. Len(g[k]) PROVE g[p][j] = g[k][j]
    <3>1. j \in 1 .. Len(g[p - 1])
      BY <1>4, <2>2, <2>3
    <3> QED
      BY <2>2, <2>3, <3>1
  <2> QED
    BY <2>1, <2>4, <2>5
<1> HIDE DEF D
<1>7. D = Nat
  <2>1. D \in SUBSET Nat
    BY DEF D
  <2> QED
    BY <1>5, <1>6, <2>1, Induct
<1>8. n - k \in D /\ k + (n - k) = n
  BY <1>4, <1>7
<1>9. Len(g[k]) <= Len(g[n]) /\ \A j \in 1 .. Len(g[k]) : g[n][j] = g[k][j]
  BY <1>8 DEF D
<1>10. \A j \in 1 .. Len(seqs[k]) : Len(g[k - 1]) + j \in 1 .. Len(g[k])
  <2>1. PICK a \in Nat, b \in Nat : a = Len(g[k - 1]) /\ b = Len(seqs[k]) /\ Len(g[k]) = a + b
    BY <1>3, <1>4
  <2>2. \A j \in 1 .. b : a + j \in 1 .. a + b
    OBVIOUS
  <2> QED
    BY <2>1, <2>2
<1> QED
  BY <1>1, <1>3, <1>4, <1>9, <1>10

-----------------------------------------------------------------------------
(* The byte-level alphabet loses nothing.                                  *)
LEMMA SameCardinality ==
  ASSUME NEW S
  PROVE  Cardinality(S) = Cardinality(S) /\ (IsFiniteSet(S) <=> IsFiniteSet(S))
BY DEF Cardinality, Cardinality, IsFiniteSet, IsFiniteSet

LEMMA AlphabetFacts ==
  /\ \A b \in Byte : ToCodepoint[b] \in 0 .. 511
  /\ \A b \in 33 .. 126 : ToCodepoint[b] = b
  /\ \A b, c \in Byte : ToCodepoint[b] = ToCodepoint[c] => b = c
<1> DEFINE P == Printable
           L(b) == {c \in 0 .. b - 1 : c \notin P}
           K == [b \in 0 .. 255 |-> Cardinality(L(b))]
<1>1. \A b \in 0 .. 255 : ToCodepoint[b] = IF b \in P THEN b ELSE 256 + K[b]
  BY SameCardinality DEF ToCodepoint, Byte
<1>2. \A b \in 0 .. 255 : IsFiniteSet(L(b)) /\ Cardinality(L(b)) \in 0 .. 255
  <2> TAKE b \in 0 .. 255
  <2>1. IsFiniteSet(0 .. b - 1) /\ Cardinality(0 .. b - 1) = b
    <3>1. b - 1 \in Int /\ 0 \in Int
      OBVIOUS
    <3>2. IsFiniteSet(0 .. b - 1) /\ Cardinality(0 .. b - 1) = IF 0 > b - 1 THEN 0 ELSE (b - 1) - 0 + 1
      BY <3>1, FS_Interval
    <3> QED
      BY <3>2
  <2>2. L(b) \subseteq 0 .. b - 1
    OBVIOUS
  <2>3. PICK l : l = L(b)
    OBVIOUS
  <2> HIDE DEF L
  <2>4. IsFiniteSet(l) /\ Cardinality(l) <= b
    BY <2>1, <2>2, <2>3, FS_Subset
  <2>5. PICK n \in Nat : n = Cardinality(l)
    BY <2>4, FS_CardinalityType
  <2>6. n \in 0 .. 255
    BY <2>4, <2>5
  <2> QED
    BY <2>3, <2>4, <2>5, <2>6
<1>3. \A b, c \in 0 .. 255 : b \notin P /\ b < c => K[b] < K[c]
  <2> SUFFICES ASSUME NEW b \in 0 .. 255, NEW c \in 0 .. 255, b \notin P, b < c
               PROVE  K[b] < K[c]
    OBVIOUS
  <2>1. b \notin L(b) /\ L(b) \cup {b} \subseteq L(c)
    OBVIOUS
  <2>2. K[b] = Cardinality(L(b)) /\ K[c] = Cardinality(L(c))
    OBVIOUS
  <2>3. PICK l, r : l = L(b) /\ r = L(c)
    OBVIOUS
  <2> HIDE DEF L, K
  <2>4. IsFiniteSet(l) /\ Cardinality(l) \in 0 .. 255
    BY <1>2, <2>3
  <2>5. IsFiniteSet(r) /\ Cardinality(r) \in 0 .. 255
    BY <1>2, <2>3
  <2>6. Cardinality(l \cup {b}) = Cardinality(l) + 1
    BY <2>1, <2>3, <2>4, FS_AddElement
  <2>7. Cardinality(l \cup {b}) <= Cardinality(r)
    BY <2>1, <2>3, <2>5, FS_Subset
  <2>8. PICK x \in 0 .. 255, y \in 0 .. 255 : x = Cardinality(l) /\ y = Cardinality(r)
    BY <2>4, <2>5
  <2>9. x + 1 <= y
    BY <2>6, <2>7, <2>8
  <2> QED
    BY <2>2, <2>3, <2>8, <2>9
<1>4. K \in [0 .. 255 -> 0 .. 255]
  BY <1>2
<1> HIDE DEF K, L
<1>5. Byte = 0 .. 255
  BY DEF Byte
<1>6. \A b \in 33 .. 126 : b \in P /\ b \in 0 .. 255
  BY DEF Printable
<1>7. ASSUME NEW b \in 0 .. 255 PROVE ToCodepoint[b] \in 0 .. 511
  <2>1. PICK k \in 0 .. 255 : k = K[b]
    BY <1>4
  <2>2. ToCodepoint[b] = IF b \in P THEN b ELSE 256 + k
    BY <1>1, <2>1
  <2> HIDE DEF P
  <2> QED
    BY <2>2
<1>8. ASSUME NEW b \in 0 .. 255, NEW c \in 0 .. 255, ToCodepoint[b] = ToCodepoint[c]
      PROVE  b = c
  <2>1. PICK k \in 0 .. 255, l \in 0 .. 255 : k = K[b] /\ l = K[c]
    BY <1>4
  <2>2. (IF b \in P THEN b ELSE 256 + k) = (IF c \in P THEN c ELSE 256 + l)
    <3>1. ToCodepoint[b] = IF b \in P THEN b ELSE 256 + k
      BY <1>1, <2>1
    <3>2. ToCodepoint[c] = IF c \in P THEN c ELSE 256 + l
      BY <1>1, <2>1
    <3> HIDE DEF P
    <3> QED
      BY <1>8, <3>1, <3>2
  <2> HIDE DEF P
  <2>3. b \in P <=> c \in P
    BY <2>1, <2>2
  <2>4. CASE b \in P
    BY <2>2, <2>3, <2>4
  <2>5. CASE b \notin P
    <3>1. k = l /\ c \notin P
      BY <2>2, <2>3, <2>5
    <3>2. ~(k < l) /\ ~(l < k)
      BY <3>1
    <3>3. ~(b < c) /\ ~(c < b)
      BY <1>3, <2>1, <2>5, <3>1, <3>2
    <3> QED
      BY <3>3
  <2> QED
    BY <2>4, <2>5
<1> QED
  BY <1>1, <1>5, <1>6, <1>7, <1>8

LEMMA ToByteFacts ==
  ASSUME NEW b \in Byte
  PROVE  ToCodepoint[b] \in DOMAIN ToByte /\ ToByte[ToCodepoint[b]] = b
<1>1. \E c \in Byte : ToCodepoint[c] = ToCodepoint[b]
  OBVIOUS
<1> DEFINE d == CHOOSE c \in Byte : ToCodepoint[c] = ToCodepoint[b]
<1>2. d \in Byte /\ ToCodepoint[d] = ToCodepoint[b]
  BY <1>1
<1>3. d = b
  BY <1>2, AlphabetFacts
<1>4. ToByte[ToCodepoint[b]] = d /\ ToCodepoint[b] \in DOMAIN ToByte
  BY DEF ToByte
<1> QED
  BY <1>3, <1>4

LEMMA CharacterFacts ==
  ASSUME NEW c \in 0 .. 511
  PROVE  /\ AppendUtf8(c) \in Seq(Nat)
         /\ \/ AppendUtf8(c) = <<c>> /\ Width(c) = 1
            \/ \E x \in Nat, y \in Nat :
                 /\ AppendUtf8(c) = <<x, y>> /\ Width(x) = 2
                 /\ IsContinuation(y) /\ (x % 32) * 64 + (y % 64) = c
<1>1. CASE c < 128
  <2>1. AppendUtf8(c) = <<c>>
    BY <1>1 DEF AppendUtf8
  <2>2. Width(c) = 1
    BY <1>1 DEF Width
  <2> QED
    BY <2>1, <2>2
<1>2. CASE c >= 128
  <2> DEFINE x == 192 + c \div 64
             y == 128 + (c % 64)
  <2>1. AppendUtf8(c) = <<x, y>>
    BY <1>2 DEF AppendUtf8
  <2>2. PICK q \in 2 .. 7, r \in 0 .. 63 : c = q * 64 + r /\ c \div 64 = q /\ c % 64 = r
    <3>1. c \div 64 \in 2 .. 7 /\ c % 64 \in 0 .. 63 /\ c = (c \div 64) * 64 + (c % 64)
      BY <1>2
    <3> QED
      BY <3>1
  <2>3. x = 192 + q /\ y = 128 + r
    BY <2>2
  <2> HIDE DEF x, y
  <2>4. x \in Nat /\ y \in Nat /\ x % 32 = q /\ y % 64 = r
    BY <2>3
  <2>5. Width(x) = 2
    BY <2>3 DEF Width
  <2>6. IsContinuation(y)
    BY <2>3 DEF IsContinuation
  <2> QED
    BY <2>1, <2>2, <2>4, <2>5, <2>6
<1> QED
  BY <1>1, <1>2

(* A text that holds a codepoint's UTF-8 at place p decodes to it there.   *)
Holds(t, p, cp) ==
  /\ p + Len(AppendUtf8(cp)) - 1 <= Len(t)
  /\ \A j \in 1 .. Len(AppendUtf8(cp)) : t[p + j - 1] = AppendUtf8(cp)[j]

LEMMA CharacterAt ==
  ASSUME NEW t \in Seq(Nat), NEW p \in 1 .. Len(t), NEW c \in 0 .. 511, Holds(t, p, c)
  PROVE  /\ CodepointAt(t, p).value = c
         /\ CodepointAt(t, p).after = p + Len(AppendUtf8(c))
         /\ Len(AppendUtf8(c)) \in 1 .. 2
<1> USE DEF Holds
<1>1. CASE AppendUtf8(c) = <<c>> /\ Width(c) = 1
  <2>1. Len(AppendUtf8(c)) = 1 /\ AppendUtf8(c)[1] = c
    BY <1>1
  <2>2. t[p + 1 - 1] = c
    BY <2>1
  <2>3. t[p] = c
    <3>1. p + 1 - 1 = p
      OBVIOUS
    <3> QED
      BY <2>2, <3>1
  <2>4. CompleteAt(t, p)
    BY <1>1, <2>3 DEF CompleteAt
  <2>5. PICK g : /\ g[0] = Payload(t[p])
                 /\ CodepointAt(t, p) = [value |-> g[Width(t[p]) - 1],
                                              after |-> p + Width(t[p])]
    BY <2>4, CodepointValue
  <2>6. CodepointAt(t, p) = [value |-> g[0], after |-> p + 1]
    BY <1>1, <2>3, <2>5
  <2>7. Payload(c) = c
    BY <1>1 DEF Payload
  <2> QED
    BY <2>1, <2>3, <2>5, <2>6, <2>7
<1>2. ASSUME NEW x \in Nat, NEW y \in Nat, AppendUtf8(c) = <<x, y>>, Width(x) = 2,
             IsContinuation(y), (x % 32) * 64 + (y % 64) = c
      PROVE  /\ CodepointAt(t, p).value = c
             /\ CodepointAt(t, p).after = p + Len(AppendUtf8(c))
             /\ Len(AppendUtf8(c)) \in 1 .. 2
  <2>1. Len(AppendUtf8(c)) = 2 /\ AppendUtf8(c)[1] = x /\ AppendUtf8(c)[2] = y
    BY <1>2
  <2>2. t[p + 1 - 1] = x /\ t[p + 2 - 1] = y
    BY <2>1
  <2>3. t[p] = x /\ t[p + 1] = y /\ p + 1 <= Len(t)
    <3>1. p + 1 - 1 = p /\ p + 2 - 1 = p + 1
      OBVIOUS
    <3> QED
      BY <2>1, <2>2, <3>1
  <2>4. CompleteAt(t, p)
    <3>1. p + Width(t[p]) - 1 = p + 1
      BY <1>2, <2>3
    <3>2. \A k \in p + 1 .. p + 1 : IsContinuation(t[k])
      BY <1>2, <2>3
    <3> QED
      BY <2>3, <3>1, <3>2 DEF CompleteAt
  <2>5. PICK g : /\ g[0] = Payload(t[p])
                 /\ \A k \in 1 .. Width(t[p]) - 1 : g[k] = g[k - 1] * 64 + (t[p + k] % 64)
                 /\ CodepointAt(t, p) = [value |-> g[Width(t[p]) - 1],
                                              after |-> p + Width(t[p])]
    BY <2>4, CodepointValue
  <2>6. CodepointAt(t, p) = [value |-> g[1], after |-> p + 2]
    BY <1>2, <2>3, <2>5
  <2>7. g[0] = x % 32
    BY <1>2, <2>3, <2>5 DEF Payload
  <2>8. g[1] = g[1 - 1] * 64 + (t[p + 1] % 64)
    <3>1. 1 \in 1 .. Width(t[p]) - 1
      BY <1>2, <2>3
    <3> QED
      BY <2>5, <3>1
  <2>9. 1 - 1 = 0
    OBVIOUS
  <2>10. g[1] = c
    BY <1>2, <2>3, <2>7, <2>8, <2>9
  <2> QED
    BY <2>1, <2>6, <2>10
<1> QED
  BY <1>1, <1>2, CharacterFacts

Encoded(raw) == [k \in DOMAIN raw |-> AppendUtf8(ToCodepoint[raw[k]])]

LEMMA EncodedFacts ==
  ASSUME NEW raw \in Seq(Byte)
  PROVE  /\ Encoded(raw) \in Seq(Seq(Nat)) /\ Len(Encoded(raw)) = Len(raw)
         /\ \A k \in 1 .. Len(raw) :
              /\ raw[k] \in Byte /\ ToCodepoint[raw[k]] \in 0 .. 511
              /\ Encoded(raw)[k] = AppendUtf8(ToCodepoint[raw[k]])
         /\ ByteLevelEncode(raw) = FlattenSeq(Encoded(raw))
<1>1. DOMAIN raw = 1 .. Len(raw) /\ Len(raw) \in Nat
  BY LenProperties
<1>2. \A k \in 1 .. Len(raw) :
        /\ raw[k] \in Byte /\ ToCodepoint[raw[k]] \in 0 .. 511
        /\ AppendUtf8(ToCodepoint[raw[k]]) \in Seq(Nat)
  <2> TAKE k \in 1 .. Len(raw)
  <2>1. raw[k] \in Byte
    BY ElementOfSeq
  <2>2. ToCodepoint[raw[k]] \in 0 .. 511
    <3>1. \A b \in Byte : ToCodepoint[b] \in 0 .. 511
      BY AlphabetFacts
    <3> HIDE DEF ToCodepoint
    <3> QED
      BY <2>1, <3>1
  <2> QED
    BY <2>1, <2>2, CharacterFacts
<1>3. Encoded(raw) = [k \in 1 .. Len(raw) |-> AppendUtf8(ToCodepoint[raw[k]])]
  BY <1>1 DEF Encoded
<1>4. Encoded(raw) \in [1 .. Len(raw) -> Seq(Nat)]
  BY <1>2, <1>3
<1>5. Encoded(raw) \in Seq(Seq(Nat)) /\ Len(Encoded(raw)) = Len(raw)
  <2>1. PICK n \in Nat : n = Len(raw)
    BY <1>1
  <2>2. PICK s \in [1 .. n -> Seq(Nat)] : s = Encoded(raw)
    BY <1>4, <2>1
  <2>3. s \in Seq(Seq(Nat)) /\ Len(s) = n
    OBVIOUS
  <2> QED
    BY <2>1, <2>2, <2>3
<1>6. ByteLevelEncode(raw) = FlattenSeq(Encoded(raw))
  BY DEF ByteLevelEncode, Encoded
<1> QED
  BY <1>2, <1>3, <1>5, <1>6

LEMMA FlattenSingles ==
  ASSUME NEW S, NEW raw \in Seq(S)
  PROVE  FlattenSeq([k \in 1 .. Len(raw) |-> <<raw[k]>>]) = raw
<1> DEFINE seqs == [k \in 1 .. Len(raw) |-> <<raw[k]>>]
<1>1. PICK n \in Nat : n = Len(raw)
  BY LenProperties
<1>2. \A k \in 1 .. n : raw[k] \in S
  BY <1>1, ElementOfSeq
<1>3. /\ seqs \in Seq(Seq(S)) /\ Len(seqs) = n
      /\ \A k \in 1 .. n : Len(seqs[k]) = 1 /\ seqs[k][1] = raw[k]
  <2>1. \A k \in 1 .. n : seqs[k] = <<raw[k]>> /\ <<raw[k]>> \in Seq(S)
    BY <1>1, <1>2
  <2>2. seqs \in [1 .. n -> Seq(S)]
    BY <1>1, <2>1
  <2> HIDE DEF seqs
  <2>3. seqs \in Seq(Seq(S)) /\ Len(seqs) = n
    BY <2>2
  <2>4. \A k \in 1 .. n : Len(<<raw[k]>>) = 1 /\ <<raw[k]>>[1] = raw[k]
    OBVIOUS
  <2> QED
    BY <2>1, <2>3, <2>4
<1> HIDE DEF seqs
<1>4. PICK g \in [0 .. Len(seqs) -> Seq(S)] :
         Joins(seqs, g) /\ FlattenSeq(seqs) = g[Len(seqs)]
  BY <1>3, Flattened
<1>5. \A k \in 1 .. n : /\ Len(g[k - 1]) \in Nat /\ Len(g[k]) = Len(g[k - 1]) + 1
                        /\ g[n][Len(g[k - 1]) + 1] = raw[k]
  <2> TAKE k \in 1 .. n
  <2>3. k \in 1 .. Len(seqs)
    BY <1>3
  <2>5. seqs \in Seq(Seq(S)) /\ Joins(seqs, g)
    BY <1>3, <1>4
  <2>4. /\ Len(g[k - 1]) \in Nat /\ Len(g[k]) = Len(g[k - 1]) + Len(seqs[k])
        /\ \A j \in 1 .. Len(seqs[k]) : g[Len(seqs)][Len(g[k - 1]) + j] = seqs[k][j]
        /\ Len(g[k]) <= Len(g[Len(seqs)])
    BY <2>3, <2>5, JoinedPlaces
  <2>1. /\ Len(g[k - 1]) \in Nat /\ Len(g[k]) = Len(g[k - 1]) + Len(seqs[k])
        /\ \A j \in 1 .. Len(seqs[k]) : g[n][Len(g[k - 1]) + j] = seqs[k][j]
    BY <1>3, <2>4
  <2>2. Len(seqs[k]) = 1 /\ seqs[k][1] = raw[k] /\ 1 \in 1 .. 1
    BY <1>3
  <2> QED
    BY <2>1, <2>2
<1> DEFINE D == {k \in Nat : k <= n => Len(g[k]) = k}
<1>6. 0 \in D
  BY <1>4 DEF Joins
<1>7. ASSUME NEW k \in D PROVE k + 1 \in D
  <2> SUFFICES ASSUME k + 1 <= n PROVE Len(g[k + 1]) = k + 1
    OBVIOUS
  <2>1. PICK m \in 1 .. n : m = k + 1 /\ m - 1 = k
    OBVIOUS
  <2>2. Len(g[m]) = Len(g[m - 1]) + 1
    BY <1>5
  <2> QED
    BY <2>1, <2>2
<1> HIDE DEF D
<1>8. D = Nat
  <2>1. D \in SUBSET Nat
    BY DEF D
  <2> QED
    BY <1>6, <1>7, <2>1, Induct
<1>9. \A k \in 0 .. n : Len(g[k]) = k
  <2> TAKE k \in 0 .. n
  <2>1. k \in D
    BY <1>8
  <2> QED
    BY <2>1 DEF D
<1>10. \A k \in 1 .. n : g[n][k] = raw[k]
  <2> TAKE k \in 1 .. n
  <2>1. k - 1 \in 0 .. n /\ (k - 1) + 1 = k
    OBVIOUS
  <2>2. Len(g[k - 1]) = k - 1
    BY <1>9, <2>1
  <2> QED
    BY <1>5, <2>1, <2>2
<1>11. g[n] \in Seq(S) /\ Len(g[n]) = Len(raw)
  BY <1>1, <1>3, <1>4, <1>9
<1>12. g[n] = raw
  BY <1>1, <1>10, <1>11, SeqEqual
<1> QED
  BY <1>3, <1>4, <1>12 DEF seqs

(* Decoding finds each character where encoding put it.                    *)
LEMMA EncodeThenDecode ==
  ASSUME NEW raw \in Seq(Byte)
  PROVE  /\ ByteLevelEncode(raw) \in Seq(Nat)
         /\ ByteLevelDecode(ByteLevelEncode(raw)) = raw
<1> DEFINE seqs == Encoded(raw)
           t == ByteLevelEncode(raw)
           cps == DecodeUtf8(t)
           C(k) == ToCodepoint[raw[k]]
<1>1. /\ seqs \in Seq(Seq(Nat)) /\ Len(seqs) = Len(raw)
      /\ \A k \in 1 .. Len(raw) : /\ raw[k] \in Byte /\ C(k) \in 0 .. 511
                                  /\ seqs[k] = AppendUtf8(C(k))
      /\ t = FlattenSeq(seqs)
  BY EncodedFacts
<1>2. PICK n \in Nat : n = Len(raw)
  BY LenProperties
<1> HIDE DEF seqs, t, cps
<1>3. PICK g \in [0 .. Len(seqs) -> Seq(Nat)] : Joins(seqs, g) /\ t = g[Len(seqs)]
  BY <1>1, Flattened
<1>30. Len(seqs) = n /\ t = g[n]
  BY <1>1, <1>2, <1>3
<1>4. t \in Seq(Nat)
  BY <1>3, <1>30
<1>5. Chain(t, 1, cps)
  BY <1>4, DecodeChain DEF cps
<1>6. \A k \in 1 .. n : /\ Len(g[k - 1]) \in Nat /\ Len(g[k]) = Len(g[k - 1]) + Len(seqs[k])
                        /\ \A j \in 1 .. Len(seqs[k]) : t[Len(g[k - 1]) + j] = seqs[k][j]
                        /\ Len(g[k]) <= Len(t)
  <2> TAKE k \in 1 .. n
  <2>1. k \in 1 .. Len(seqs)
    BY <1>30
  <2>2. seqs \in Seq(Seq(Nat)) /\ Joins(seqs, g)
    BY <1>1, <1>3
  <2>3. /\ Len(g[k - 1]) \in Nat /\ Len(g[k]) = Len(g[k - 1]) + Len(seqs[k])
        /\ \A j \in 1 .. Len(seqs[k]) : g[Len(seqs)][Len(g[k - 1]) + j] = seqs[k][j]
        /\ Len(g[k]) <= Len(g[Len(seqs)])
    BY <2>1, <2>2, JoinedPlaces
  <2> QED
    BY <1>3, <2>3
<1>7. \A k \in 1 .. n : LET p == Len(g[k - 1]) + 1
                        IN  /\ p \in 1 .. Len(t)
                            /\ CodepointAt(t, p).value = C(k)
                            /\ CodepointAt(t, p).after = Len(g[k]) + 1
  <2> TAKE k \in 1 .. n
  <2>1. PICK a \in Nat, b \in Seq(Nat) : a = Len(g[k - 1]) /\ b = seqs[k]
    BY <1>1, <1>2, <1>6, ElementOfSeq
  <2>2. PICK w \in 1 .. 2 : w = Len(b)
    <3>1. b = AppendUtf8(C(k)) /\ C(k) \in 0 .. 511
      BY <1>1, <1>2, <2>1
    <3>2. PICK c \in 0 .. 511 : c = C(k)
      BY <3>1
    <3>3. Len(AppendUtf8(c)) \in 1 .. 2
      <4>1. \/ AppendUtf8(c) = <<c>>
            \/ \E x \in Nat, y \in Nat : AppendUtf8(c) = <<x, y>>
        BY CharacterFacts
      <4> QED
        BY <4>1
    <3> QED
      BY <3>1, <3>2, <3>3
  <2>3. PICK l \in Nat : l = Len(t)
    BY <1>4, LenProperties
  <2>4. Len(g[k]) = a + w /\ a + w <= l /\ \A j \in 1 .. w : t[a + j] = b[j]
    BY <1>6, <2>1, <2>2, <2>3
  <2>5. PICK p \in 1 .. l : p = a + 1 /\ p + w - 1 <= l /\ p + w = a + w + 1
    <3>1. a + 1 \in 1 .. l /\ (a + 1) + w - 1 <= l /\ (a + 1) + w = a + w + 1
      BY <2>4
    <3> QED
      BY <3>1
  <2>6. \A j \in 1 .. w : t[p + j - 1] = b[j]
    <3> TAKE j \in 1 .. w
    <3>1. p + j - 1 = a + j
      BY <2>5
    <3> QED
      BY <2>4, <3>1
  <2>7. PICK c \in 0 .. 511 : c = C(k) /\ b = AppendUtf8(c)
    BY <1>1, <1>2, <2>1
  <2>8. CodepointAt(t, p).value = c /\ CodepointAt(t, p).after = p + w
    <3>1. Len(AppendUtf8(c)) = w
      BY <2>2, <2>7
    <3>2. Holds(t, p, c) /\ p \in 1 .. Len(t)
      BY <2>3, <2>5, <2>6, <2>7, <3>1 DEF Holds
    <3>3. /\ CodepointAt(t, p).value = c
          /\ CodepointAt(t, p).after = p + Len(AppendUtf8(c))
          /\ Len(AppendUtf8(c)) \in 1 .. 2
      BY <1>4, <3>2, CharacterAt
    <3> QED
      BY <3>1, <3>3
  <2> QED
    BY <2>1, <2>3, <2>4, <2>5, <2>7, <2>8

<1> DEFINE D == {k \in Nat : k + 1 <= n => /\ k + 1 <= Len(cps)
                                          /\ cps[k + 1].offset = Len(g[k]) + 1}
<1>8. PICK c \in Nat : c = Len(cps)
  BY <1>5, LenProperties DEF Chain
<1>9. PICK l \in Nat : l = Len(t)
  BY <1>4, LenProperties
<1>10. /\ \A k \in 1 .. c : cps[k].value \in Nat /\ cps[k].offset \in 1 .. l
       /\ c = 0 <=> 1 = l + 1
       /\ c > 0 => cps[1].offset = 1
       /\ \A k \in 1 .. c : /\ cps[k].value = CodepointAt(t, cps[k].offset).value
                            /\ CodepointAt(t, cps[k].offset).after =
                                 IF k = c THEN l + 1 ELSE cps[k + 1].offset
  <2>1. /\ cps \in Seq([value : Nat, offset : 1 .. l])
        /\ c = 0 <=> 1 = l + 1
        /\ c > 0 => cps[1].offset = 1
        /\ \A k \in 1 .. c : /\ cps[k].value = CodepointAt(t, cps[k].offset).value
                            /\ CodepointAt(t, cps[k].offset).after =
                                 IF k = c THEN l + 1 ELSE cps[k + 1].offset
    BY <1>5, <1>8, <1>9 DEF Chain
  <2>2. \A k \in 1 .. c : cps[k] \in [value : Nat, offset : 1 .. l]
    BY <1>8, <2>1, ElementOfSeq
  <2> QED
    BY <2>1, <2>2
<1>11. g[0] = << >>
  BY <1>3 DEF Joins
<1>12. 0 \in D
  <2> SUFFICES ASSUME 1 <= n PROVE 1 <= Len(cps) /\ cps[1].offset = Len(g[0]) + 1
    OBVIOUS
  <2>1. Len(g[1 - 1]) + 1 \in 1 .. l
    BY <1>7, <1>9
  <2>2. l # 0
    BY <2>1, <1>9
  <2>3. c > 0
    BY <1>10, <2>2
  <2> QED
    BY <1>8, <1>10, <1>11, <2>3
<1>13. ASSUME NEW k \in D PROVE k + 1 \in D
  <2> SUFFICES ASSUME (k + 1) + 1 <= n
               PROVE  (k + 1) + 1 <= Len(cps) /\ cps[(k + 1) + 1].offset = Len(g[k + 1]) + 1
    OBVIOUS
  <2>1. PICK m \in 1 .. n : m = k + 1 /\ m - 1 = k /\ m + 1 \in 1 .. n
    OBVIOUS
  <2>2. m <= c /\ cps[m].offset = Len(g[m - 1]) + 1
    BY <1>8, <2>1
  <2>3. CodepointAt(t, cps[m].offset).after = Len(g[m]) + 1
    BY <1>7, <2>2
  <2>4. Len(g[(m + 1) - 1]) + 1 \in 1 .. l
    BY <1>7, <1>9, <2>1
  <2>5. (m + 1) - 1 = m
    OBVIOUS
  <2>6. Len(g[m]) + 1 \in 1 .. l
    BY <2>4, <2>5
  <2>7. m # c
    BY <1>10, <2>2, <2>3, <2>6
  <2>8. cps[m + 1].offset = Len(g[m]) + 1 /\ m + 1 <= c
    BY <1>10, <2>2, <2>3, <2>7
  <2> QED
    BY <1>8, <2>1, <2>8
<1> HIDE DEF D
<1>14. D = Nat
  <2>1. D \in SUBSET Nat
    BY DEF D
  <2> QED
    BY <1>12, <1>13, <2>1, Induct
<1>15. \A k \in 1 .. n : k <= c /\ cps[k].offset = Len(g[k - 1]) + 1
  <2> TAKE k \in 1 .. n
  <2>1. k - 1 \in D /\ (k - 1) + 1 = k
    BY <1>14
  <2> QED
    BY <1>8, <2>1 DEF D
<1>16. c = n
  <2>1. CASE n = 0
    <3>1. l = 0
      <4>1. t = g[0]
        BY <1>30, <2>1
      <4> QED
        BY <1>9, <1>11, <4>1
    <3> QED
      BY <1>10, <2>1, <3>1
  <2>2. CASE n # 0
    <3>1. n \in 1 .. n /\ n <= c
      BY <1>15, <2>2
    <3>2. CodepointAt(t, cps[n].offset).after = l + 1
      <4>1. CodepointAt(t, Len(g[n - 1]) + 1).after = Len(g[n]) + 1
        BY <1>7, <3>1
      <4>2. cps[n].offset = Len(g[n - 1]) + 1
        BY <1>15, <3>1
      <4> QED
        BY <1>9, <1>30, <4>1, <4>2
    <3>3. n # c => cps[n + 1].offset = l + 1 /\ n + 1 \in 1 .. c
      BY <1>10, <3>1, <3>2
    <3>4. n # c => cps[n + 1].offset \in 1 .. l
      BY <1>10, <3>3
    <3> QED
      BY <3>3, <3>4
  <2> QED
    BY <2>1, <2>2
<1>17. \A k \in 1 .. n : cps[k].value = C(k)
  BY <1>7, <1>10, <1>15, <1>16
<1>18. DOMAIN cps = 1 .. n
  BY <1>5, <1>8, <1>16, LenProperties DEF Chain
<1>19. \A k \in 1 .. n : (IF cps[k].value \in DOMAIN ToByte THEN <<ToByte[cps[k].value]>>
                           ELSE AppendUtf8(cps[k].value)) = <<raw[k]>>
  <2> TAKE k \in 1 .. n
  <2>1. raw[k] \in Byte /\ cps[k].value = ToCodepoint[raw[k]]
    BY <1>1, <1>2, <1>17
  <2>2. cps[k].value \in DOMAIN ToByte /\ ToByte[cps[k].value] = raw[k]
    BY <2>1, ToByteFacts
  <2> QED
    BY <2>2
<1>20. ByteLevelDecode(t) =
         FlattenSeq([k \in DOMAIN cps |->
           IF cps[k].value \in DOMAIN ToByte THEN <<ToByte[cps[k].value]>>
           ELSE AppendUtf8(cps[k].value)])
  BY DEF ByteLevelDecode, cps
<1>21. ByteLevelDecode(t) = FlattenSeq([k \in 1 .. Len(raw) |-> <<raw[k]>>])
  BY <1>2, <1>18, <1>19, <1>20
<1>22. ByteLevelDecode(t) = raw
  BY <1>21, FlattenSingles
<1> QED
  BY <1>4, <1>22 DEF t

-----------------------------------------------------------------------------
(***************************************************************************)
(* Well-formed texts: the places where their characters begin, and their   *)
(* end, are a set closed under going on by the width of a lead byte.       *)
(***************************************************************************)
Bounded(t, B) ==
  /\ B \subseteq 0 .. Len(t) /\ 0 \in B
  /\ \A i \in B : i < Len(t) =>
       /\ ~IsContinuation(t[i + 1]) /\ i + Width(t[i + 1]) \in B
       /\ \A k \in i + 2 .. i + Width(t[i + 1]) : IsContinuation(t[k])

Whole(t) == \E B \in SUBSET Nat : Bounded(t, B)

(* CompleteAt, counting places from 0.                                     *)
LEMMA CompleteAtPlace ==
  ASSUME NEW t \in Seq(Nat), NEW i \in Nat, i < Len(t)
  PROVE  CompleteAt(t, i + 1) <=>
           /\ i + Width(t[i + 1]) <= Len(t)
           /\ \A k \in i + 2 .. i + Width(t[i + 1]) : IsContinuation(t[k])
<1>1. t[i + 1] \in Nat /\ Len(t) \in Nat
  BY ElementOfSeq, LenProperties
<1>2. PICK w \in 1 .. 4 : w = Width(t[i + 1])
  BY <1>1, WidthFacts
<1>3. (i + 1) + w - 1 = i + w /\ (i + 1) + 1 = i + 2
  OBVIOUS
<1> QED
  BY <1>2, <1>3 DEF CompleteAt

(* A boundary is the end or leads to the next one, further on.             *)
LEMMA NextBoundary ==
  ASSUME NEW t \in Seq(Nat), NEW B, Bounded(t, B), NEW i \in B
  PROVE  /\ i \in Nat /\ Len(t) \in Nat /\ i <= Len(t)
         /\ i < Len(t) => /\ t[i + 1] \in Nat /\ Width(t[i + 1]) \in 1 .. 4
                          /\ i + Width(t[i + 1]) \in B
                          /\ i + Width(t[i + 1]) <= Len(t)
<1>1. Len(t) \in Nat
  BY LenProperties
<1>2. i \in Nat /\ i <= Len(t)
  BY <1>1 DEF Bounded
<1>3. ASSUME i < Len(t)
      PROVE  /\ t[i + 1] \in Nat /\ Width(t[i + 1]) \in 1 .. 4
             /\ i + Width(t[i + 1]) \in B
             /\ i + Width(t[i + 1]) <= Len(t)
  <2>1. t[i + 1] \in Nat
    BY <1>1, <1>2, <1>3, ElementOfSeq
  <2>2. Width(t[i + 1]) \in 1 .. 4
    BY <2>1, WidthFacts
  <2>3. i + Width(t[i + 1]) \in B /\ i + Width(t[i + 1]) \in 0 .. Len(t)
    BY <1>3 DEF Bounded
  <2> QED
    BY <1>1, <2>1, <2>2, <2>3
<1> QED
  BY <1>1, <1>2, <1>3

(* A byte that continues nothing begins a character.                       *)
LEMMA LeadIsBoundary ==
  ASSUME NEW t \in Seq(Nat), NEW B, Bounded(t, B), NEW i \in Nat, i < Len(t),
         ~IsContinuation(t[i + 1])
  PROVE  i \in B
<1> DEFINE S == {j \in B : j <= i}
<1>1. S \in SUBSET Nat /\ 0 \in S
  <2>1. \A j \in B : j \in Nat
    BY NextBoundary
  <2>2. 0 \in B
    BY DEF Bounded
  <2> QED
    BY <2>1, <2>2
<1>2. PICK j \in S : \A y \in S : y <= j
  <2>1. \A y \in S : y <= i
    OBVIOUS
  <2> QED
    BY <1>1, <2>1, GreatestNat
<1>3. Len(t) \in Nat /\ j \in Nat /\ j \in B /\ j <= i /\ j < Len(t)
  BY <1>1, LenProperties
<1>4. SUFFICES ASSUME j < i PROVE FALSE
  BY <1>3
<1>5. PICK w \in 1 .. 4 : w = Width(t[j + 1])
  BY <1>3, NextBoundary
<1>6. j + w \in B /\ j + w \in Nat
  BY <1>3, <1>5, NextBoundary
<1>7. j + w > i
  <2>1. CASE j + w <= i
    <3>1. j + w <= j
      BY <1>2, <1>6, <2>1
    <3> QED
      BY <1>3, <3>1
  <2> QED
    BY <1>6, <2>1
<1>8. i + 1 \in j + 2 .. j + w
  BY <1>3, <1>4, <1>6, <1>7
<1>9. \A k \in j + 2 .. j + w : IsContinuation(t[k])
  BY <1>3, <1>5 DEF Bounded
<1> QED
  BY <1>8, <1>9

(* What comes before a boundary is well-formed, and what comes after it.   *)
LEMMA BeforeBoundary ==
  ASSUME NEW t \in Seq(Nat), NEW B, Bounded(t, B), NEW i \in B
  PROVE  Bounded(SubSeq(t, 1, i), {j \in B : j <= i})
<1> DEFINE s == SubSeq(t, 1, i)
           S == {j \in B : j <= i}
<1>1. i \in Nat /\ Len(t) \in Nat /\ i <= Len(t)
  BY NextBoundary
<1>2. s \in Seq(Nat) /\ Len(s) = i /\ \A k \in 1 .. i : s[k] = t[k]
  BY <1>1
<1> HIDE DEF s
<1>3. S \subseteq 0 .. i /\ 0 \in S
  <2>1. 0 \in S
    BY <1>1 DEF Bounded
  <2>2. ASSUME NEW j \in S PROVE j \in 0 .. i
    <3>1. j \in B /\ j <= i
      OBVIOUS
    <3>2. j \in Nat
      BY <3>1, NextBoundary
    <3> QED
      BY <1>1, <3>1, <3>2
  <2> QED
    BY <2>1, <2>2
<1>4. ASSUME NEW j \in S, j < i
      PROVE  /\ ~IsContinuation(s[j + 1]) /\ j + Width(s[j + 1]) \in S
             /\ \A k \in j + 2 .. j + Width(s[j + 1]) : IsContinuation(s[k])
  <2>1. j \in B /\ j \in Nat /\ j < Len(t) /\ s[j + 1] = t[j + 1]
    BY <1>1, <1>2, <1>3, <1>4
  <2>2. PICK w \in 1 .. 4 : w = Width(t[j + 1])
    BY <2>1, NextBoundary
  <2>3. ~IsContinuation(t[j + 1]) /\ j + w \in B
        /\ \A k \in j + 2 .. j + w : IsContinuation(t[k])
    BY <2>1, <2>2 DEF Bounded
  <2>4. j + w <= i
    <3> SUFFICES ASSUME j + w > i PROVE FALSE
      BY <1>1, <2>1
    <3>1. j + w <= Len(t)
      BY <2>1, <2>2, NextBoundary
    <3>2. i < Len(t) /\ i + 1 \in j + 2 .. j + w
      BY <1>1, <1>4, <2>1, <3>1
    <3>3. ~IsContinuation(t[i + 1])
      BY <3>2 DEF Bounded
    <3> QED
      BY <2>3, <3>2, <3>3
  <2>5. \A k \in j + 2 .. j + w : s[k] = t[k]
    BY <1>1, <1>2, <2>1, <2>4
  <2> QED
    BY <2>1, <2>2, <2>3, <2>4, <2>5
<1> HIDE DEF S
<1>5. Bounded(s, S)
  BY <1>2, <1>3, <1>4 DEF Bounded
<1> QED
  BY <1>5 DEF s, S

LEMMA AfterBoundary ==
  ASSUME NEW t \in Seq(Nat), NEW B, Bounded(t, B), NEW i \in B
  PROVE  Bounded(SubSeq(t, i + 1, Len(t)), {j \in Nat : i + j \in B})
<1> DEFINE s == SubSeq(t, i + 1, Len(t))
           S == {j \in Nat : i + j \in B}
<1>1. PICK l \in Nat : l = Len(t) /\ i \in Nat /\ i <= l
  BY NextBoundary
<1>2. s \in Seq(Nat) /\ Len(s) = l - i /\ \A k \in 1 .. l - i : s[k] = t[i + k]
  <2>1. s = SubSeq(t, i + 1, l)
    BY <1>1
  <2>2. i + 1 \in 1 .. Len(t) + 1 /\ \A k \in i + 1 .. l : t[k] \in Nat
    BY <1>1, ElementOfSeq
  <2>3. /\ SubSeq(t, i + 1, l) \in Seq(Nat)
        /\ Len(SubSeq(t, i + 1, l)) = IF i + 1 <= l THEN l - (i + 1) + 1 ELSE 0
        /\ \A k \in 1 .. l - (i + 1) + 1 : SubSeq(t, i + 1, l)[k] = t[(i + 1) + k - 1]
    BY <1>1, <2>2, SubSeqProperties
  <2>4. l - (i + 1) + 1 = l - i /\ \A k \in Nat : (i + 1) + k - 1 = i + k
    BY <1>1
  <2>5. Len(SubSeq(t, i + 1, l)) = l - i
    BY <1>1, <2>3
  <2>6. \A k \in 1 .. l - i : SubSeq(t, i + 1, l)[k] = t[i + k]
    BY <1>1, <2>3, <2>4
  <2> HIDE DEF s
  <2> QED
    BY <2>1, <2>3, <2>5, <2>6
<1> HIDE DEF s
<1>3. S \subseteq 0 .. l - i /\ 0 \in S
  <2>1. \A j \in B : j \in 0 .. l
    BY <1>1, NextBoundary
  <2> QED
    BY <1>1, <2>1
<1>4. ASSUME NEW j \in S, j < l - i
      PROVE  /\ ~IsContinuation(s[j + 1]) /\ j + Width(s[j + 1]) \in S
             /\ \A k \in j + 2 .. j + Width(s[j + 1]) : IsContinuation(s[k])
  <2>1. i + j \in B /\ j \in Nat /\ i + j < l /\ s[j + 1] = t[(i + j) + 1]
    BY <1>1, <1>2, <1>3, <1>4
  <2>2. PICK w \in 1 .. 4 : w = Width(t[(i + j) + 1])
    BY <1>1, <2>1, NextBoundary
  <2>3. ~IsContinuation(t[(i + j) + 1]) /\ (i + j) + w \in B
        /\ \A k \in (i + j) + 2 .. (i + j) + w : IsContinuation(t[k])
    BY <1>1, <2>1, <2>2 DEF Bounded
  <2>4. (i + j) + w <= l
    BY <1>1, <2>1, <2>2, NextBoundary
  <2>5. \A k \in j + 2 .. j + w : s[k] = t[i + k] /\ i + k \in (i + j) + 2 .. (i + j) + w
    BY <1>1, <1>2, <2>1, <2>4
  <2>6. j + w \in S
    <3>1. (i + j) + w = i + (j + w) /\ j + w \in Nat
      BY <1>1, <2>1
    <3> QED
      BY <2>3, <3>1
  <2> QED
    BY <2>1, <2>2, <2>3, <2>5, <2>6
<1> HIDE DEF S
<1>5. Bounded(s, S)
  BY <1>1, <1>2, <1>3, <1>4 DEF Bounded
<1> QED
  BY <1>5 DEF s, S

(* Two well-formed texts, one after the other.                             *)
LEMMA JoinWhole ==
  ASSUME NEW a \in Seq(Nat), NEW b \in Seq(Nat), Whole(a), Whole(b)
  PROVE  Whole(a \o b)
<1>1. PICK A \in SUBSET Nat : Bounded(a, A)
  BY DEF Whole
<1>2. PICK B \in SUBSET Nat : Bounded(b, B)
  BY DEF Whole
<1>3. PICK m \in Nat, n \in Nat : m = Len(a) /\ n = Len(b)
  BY LenProperties
<1> DEFINE t == a \o b
           Upper == {m + j : j \in B}
           S == A \cup Upper
<1>4. /\ t \in Seq(Nat) /\ Len(t) = m + n
      /\ \A k \in 1 .. m : t[k] = a[k]
      /\ \A k \in 1 .. n : t[m + k] = b[k]
  BY <1>3
<1> HIDE DEF t
<1>5. S \subseteq 0 .. m + n /\ 0 \in S /\ S \in SUBSET Nat
  <2>1. (\A j \in A : j \in 0 .. m) /\ (\A j \in B : j \in 0 .. n)
    BY <1>1, <1>2, <1>3, NextBoundary
  <2>2. 0 \in A
    BY <1>1 DEF Bounded
  <2>3. ASSUME NEW j \in S PROVE j \in 0 .. m + n
    <3>1. CASE j \in A
      <4>1. j \in 0 .. m
        BY <2>1, <3>1
      <4> QED
        BY <4>1
    <3>2. CASE j \in Upper
      <4>1. PICK o \in B : j = m + o
        BY <3>2
      <4>2. o \in 0 .. n
        BY <2>1
      <4> QED
        BY <4>1, <4>2
    <3> QED
      BY <3>1, <3>2
  <2>4. 0 .. m + n \subseteq Nat
    OBVIOUS
  <2> HIDE DEF Upper
  <2>5. 0 \in S
    BY <2>2
  <2> HIDE DEF S
  <2> QED
    BY <2>3, <2>4, <2>5
<1>6. ASSUME NEW i \in A, i < m
      PROVE  /\ ~IsContinuation(t[i + 1]) /\ i + Width(t[i + 1]) \in A
             /\ \A k \in i + 2 .. i + Width(t[i + 1]) : IsContinuation(t[k])
  <2>1. i \in Nat /\ t[i + 1] = a[i + 1]
    BY <1>3, <1>4, <1>6
  <2>2. PICK w \in 1 .. 4 : w = Width(a[i + 1]) /\ i + w <= m
    BY <1>1, <1>3, <1>6, NextBoundary
  <2>3. ~IsContinuation(a[i + 1]) /\ i + w \in A
        /\ \A k \in i + 2 .. i + w : IsContinuation(a[k])
    BY <1>1, <1>3, <1>6, <2>2 DEF Bounded
  <2>4. \A k \in i + 2 .. i + w : t[k] = a[k]
    <3>1. \A k \in i + 2 .. i + w : k \in 1 .. m
      BY <2>1, <2>2
    <3> QED
      BY <1>4, <3>1
  <2> QED
    BY <2>1, <2>2, <2>3, <2>4
<1>7. ASSUME NEW j \in B, j < n
      PROVE  /\ ~IsContinuation(t[(m + j) + 1])
             /\ (m + j) + Width(t[(m + j) + 1]) \in Upper
             /\ \A k \in (m + j) + 2 .. (m + j) + Width(t[(m + j) + 1]) :
                  IsContinuation(t[k])
  <2>1. j \in Nat /\ t[(m + j) + 1] = b[j + 1]
    <3>1. j \in Nat /\ j + 1 \in 1 .. n /\ (m + j) + 1 = m + (j + 1)
      BY <1>7
    <3> QED
      BY <1>4, <3>1
  <2>2. PICK w \in 1 .. 4 : w = Width(b[j + 1]) /\ j + w <= n
    BY <1>2, <1>3, <1>7, NextBoundary
  <2>3. ~IsContinuation(b[j + 1]) /\ j + w \in B
        /\ \A k \in j + 2 .. j + w : IsContinuation(b[k])
    BY <1>2, <1>3, <1>7, <2>2 DEF Bounded
  <2>4. \A k \in (m + j) + 2 .. (m + j) + w :
          k - m \in j + 2 .. j + w /\ k - m \in 1 .. n /\ m + (k - m) = k
    BY <2>1, <2>2
  <2>5. \A k \in (m + j) + 2 .. (m + j) + w : t[k] = b[k - m]
    BY <1>4, <2>4
  <2>6. (m + j) + w \in Upper
    <3>1. (m + j) + w = m + (j + w)
      BY <2>1
    <3> QED
      BY <2>3, <3>1
  <2> QED
    BY <2>1, <2>2, <2>3, <2>4, <2>5, <2>6
<1>8. ASSUME NEW i \in S, i < m + n
      PROVE  /\ ~IsContinuation(t[i + 1]) /\ i + Width(t[i + 1]) \in S
             /\ \A k \in i + 2 .. i + Width(t[i + 1]) : IsContinuation(t[k])
  <2>1. CASE i \in A /\ i < m
    BY <1>6, <2>1
  <2>2. CASE i \in A /\ i >= m
    <3>1. i = m
      BY <1>1, <1>3, <2>2, NextBoundary
    <3>2. 0 \in B /\ m + 0 = m /\ 0 < n
      BY <1>2, <1>8, <3>1 DEF Bounded
    <3> QED
      BY <1>7, <3>1, <3>2
  <2>3. CASE i \in Upper
    <3>1. PICK j \in B : i = m + j
      BY <2>3
    <3>2. j \in Nat /\ j < n
      BY <1>8, <3>1
    <3> QED
      BY <1>7, <3>1, <3>2
  <2> QED
    BY <1>5, <2>1, <2>2, <2>3
<1> HIDE DEF S
<1>9. Bounded(t, S)
  BY <1>4, <1>5, <1>8 DEF Bounded
<1> QED
  BY <1>5, <1>9 DEF t, Whole

(* The characters of a text are found again at the start of a longer one.  *)
LEMMA CommonStart ==
  ASSUME NEW a \in Seq(Nat), NEW z \in Seq(Nat), NEW A, Bounded(a, A), NEW B, Bounded(a \o z, B)
  PROVE  Len(a) \in B
<1> DEFINE t == a \o z
           S == {j \in A : j \in B}
<1>1. PICK m \in Nat : m = Len(a)
  BY LenProperties
<1>2. PICK n \in Nat : n = Len(z)
  BY LenProperties
<1>3. t \in Seq(Nat) /\ Len(t) = m + n /\ \A k \in 1 .. m : t[k] = a[k]
  BY <1>1, <1>2
<1>4. S \in SUBSET Nat /\ 0 \in S /\ \A j \in S : j <= m
  <2>1. 0 \in A /\ 0 \in B
    BY DEF Bounded
  <2>2. \A j \in A : j \in Nat /\ j <= m
    BY <1>1, NextBoundary
  <2> QED
    BY <2>1, <2>2
<1>5. PICK j \in S : \A y \in S : y <= j
  BY <1>4, GreatestNat
<1>6. j \in A /\ j \in B /\ j \in Nat /\ j <= m
  BY <1>4
<1>7. SUFFICES ASSUME j < m PROVE FALSE
  BY <1>1, <1>6
<1>8. PICK w \in 1 .. 4 : w = Width(a[j + 1]) /\ j + w \in A
  BY <1>1, <1>6, <1>7, NextBoundary
<1> HIDE DEF t
<1>9. t[j + 1] = a[j + 1] /\ j < Len(t)
  BY <1>3, <1>6, <1>7
<1>10. j + w \in B
  <2>1. Bounded(t, B)
    BY DEF t
  <2>2. j + Width(t[j + 1]) \in B
    BY <1>3, <1>6, <1>9, <2>1, NextBoundary
  <2> QED
    BY <1>8, <1>9, <2>2
<1>11. j + w \in S
  BY <1>8, <1>10
<1>12. j + w <= j
  BY <1>5, <1>11
<1> QED
  BY <1>6, <1>12

LEMMA WholeTail ==
  ASSUME NEW a \in Seq(Nat), NEW z \in Seq(Nat), Whole(a), Whole(a \o z)
  PROVE  Whole(z)
<1> DEFINE t == a \o z
<1>1. PICK A \in SUBSET Nat : Bounded(a, A)
  BY DEF Whole
<1>2. PICK B \in SUBSET Nat : Bounded(t, B)
  BY DEF Whole
<1>3. Len(a) \in B
  BY <1>1, <1>2, CommonStart
<1>4. t \in Seq(Nat) /\ SubSeq(t, Len(a) + 1, Len(t)) = z
  OBVIOUS
<1> HIDE DEF t
<1>5. Bounded(SubSeq(t, Len(a) + 1, Len(t)), {j \in Nat : Len(a) + j \in B})
  BY <1>2, <1>3, <1>4, AfterBoundary
<1>6. {j \in Nat : Len(a) + j \in B} \in SUBSET Nat
  OBVIOUS
<1> QED
  BY <1>4, <1>5, <1>6 DEF Whole

(* Taking a well-formed text out of a well-formed text leaves one.         *)
LEMMA DropMiddle ==
  ASSUME NEW a \in Seq(Nat), NEW m \in Seq(Nat), NEW z \in Seq(Nat),
         Whole(m), Whole((a \o m) \o z)
  PROVE  Whole(a \o z)
<1>1. CASE m = << >>
  <2>1. a \o m = a
    BY <1>1
  <2> QED
    BY <2>1
<1>2. CASE m # << >>
  <2> DEFINE t == (a \o m) \o z
  <2>1. PICK M \in SUBSET Nat : Bounded(m, M)
    BY DEF Whole
  <2>2. PICK B \in SUBSET Nat : Bounded(t, B)
    BY DEF Whole
  <2>3. Len(m) \in Nat /\ Len(m) > 0 /\ Len(a) \in Nat
    BY <1>2, EmptySeq, LenProperties
  <2>4. ~IsContinuation(m[0 + 1])
    BY <2>1, <2>3 DEF Bounded
  <2>5. 0 + 1 = 1
    OBVIOUS
  <2>6. t \in Seq(Nat) /\ Len(a) < Len(t) /\ t[Len(a) + 1] = m[1]
    BY <2>3
  <2>7. SubSeq(t, 1, Len(a)) = a /\ t = a \o (m \o z) /\ m \o z \in Seq(Nat)
    <3>1. (a \o m) \o z = a \o (m \o z)
      OBVIOUS
    <3>5. m \o z \in Seq(Nat)
      OBVIOUS
    <3>2. PICK u \in Seq(Nat) : u = m \o z
      BY <3>5, Zenon
    <3>3. SubSeq(a \o u, 1, Len(a)) = a
      <4>1. PICK k \in Nat : k = Len(a)
        BY <2>3
      <4>2. a \o u \in Seq(Nat) /\ Len(a \o u) >= k /\ \A i \in 1 .. k : (a \o u)[i] = a[i]
        BY <4>1
      <4>3. SubSeq(a \o u, 1, k) \in Seq(Nat) /\ Len(SubSeq(a \o u, 1, k)) = k
            /\ \A i \in 1 .. k : SubSeq(a \o u, 1, k)[i] = a[i]
        BY <4>1, <4>2
      <4> QED
        BY <4>1, <4>3, SeqEqual
    <3> QED
      BY <3>1, <3>2, <3>3
  <2> HIDE DEF t
  <2>8. Len(a) \in B
    BY <2>2, <2>3, <2>4, <2>5, <2>6, LeadIsBoundary
  <2>9. Whole(a)
    <3>1. Bounded(SubSeq(t, 1, Len(a)), {j \in B : j <= Len(a)})
      BY <2>2, <2>6, <2>8, BeforeBoundary
    <3>2. {j \in B : j <= Len(a)} \in SUBSET Nat
      OBVIOUS
    <3> QED
      BY <2>7, <3>1, <3>2 DEF Whole
  <2>10. Whole(t)
    BY <2>2 DEF Whole
  <2>11. Whole(m \o z)
    BY <2>7, <2>9, <2>10, WholeTail
  <2>12. Whole(z)
    BY <2>11, WholeTail
  <2> QED
    BY <2>9, <2>12, JoinWhole
<1> QED
  BY <1>1, <1>2

(* What DecodeUtf8 calls well-formed.                                      *)
LEMMA WellFormedIsWhole ==
  ASSUME NEW t \in Seq(Nat)
  PROVE  WellFormed(t) <=> Whole(t)
<1> DEFINE cps == DecodeUtf8(t)
           At(k) == cps[k].offset
<1>1. PICK l \in Nat : l = Len(t)
  BY LenProperties
<1>2. Chain(t, 1, cps)
  BY DecodeChain
<1>3. PICK n \in Nat : n = Len(cps)
  BY <1>2, LenProperties DEF Chain
<1> HIDE DEF cps
<1>4. /\ DOMAIN cps = 1 .. n
      /\ \A k \in 1 .. n : At(k) \in 1 .. l
      /\ n = 0 <=> 1 = l + 1
      /\ n > 0 => At(1) = 1
      /\ \A k \in 1 .. n : CodepointAt(t, At(k)).after = IF k = n THEN l + 1 ELSE At(k + 1)
  <2>1. /\ cps \in Seq([value : Nat, offset : 1 .. l])
        /\ n = 0 <=> 1 = l + 1
        /\ n > 0 => At(1) = 1
        /\ \A k \in 1 .. n : CodepointAt(t, At(k)).after =
                               IF k = n THEN l + 1 ELSE At(k + 1)
    BY <1>1, <1>2, <1>3 DEF Chain
  <2>2. \A k \in 1 .. n : cps[k] \in [value : Nat, offset : 1 .. l]
    BY <1>3, <2>1, ElementOfSeq
  <2>3. DOMAIN cps = 1 .. n
    BY <1>3, <2>1, LenProperties
  <2> QED
    BY <2>1, <2>2, <2>3
<1>5. WellFormed(t) <=>
        \A k \in 1 .. n : CompleteAt(t, At(k)) /\ ~IsContinuation(t[At(k)])
  BY <1>4 DEF WellFormed, cps
<1> HIDE DEF At
<1>6. \A k \in 1 .. n : CompleteAt(t, At(k)) =>
                          CodepointAt(t, At(k)).after = At(k) + Width(t[At(k)])
  <2> TAKE k \in 1 .. n
  <2>1. At(k) \in 1 .. Len(t)
    BY <1>1, <1>4
  <2> QED
    BY <2>1, CodepointFacts
<1>7. ASSUME WellFormed(t) PROVE Whole(t)
  <2> DEFINE B == {At(k) - 1 : k \in 1 .. n} \cup {l}
  <2>1. B \subseteq 0 .. l
    <3>1. \A k \in 1 .. n : At(k) - 1 \in 0 .. l
      BY <1>4
    <3> QED
      BY <3>1
  <2>2. 0 \in B
    <3>1. CASE n = 0
      <4>1. l = 0
        BY <1>4, <3>1
      <4> QED
        BY <4>1
    <3>2. CASE n # 0
      <4>1. 1 \in 1 .. n /\ At(1) - 1 = 0
        BY <1>4, <3>2
      <4> QED
        BY <4>1
    <3> QED
      BY <3>1, <3>2
  <2>3. ASSUME NEW i \in B, i < l
        PROVE  /\ ~IsContinuation(t[i + 1]) /\ i + Width(t[i + 1]) \in B
               /\ \A k \in i + 2 .. i + Width(t[i + 1]) : IsContinuation(t[k])
    <3>1. PICK k \in 1 .. n : i = At(k) - 1
      BY <2>3
    <3>2. At(k) = i + 1 /\ i \in Nat
      BY <1>4, <3>1
    <3>3. CompleteAt(t, i + 1) /\ ~IsContinuation(t[i + 1])
      BY <1>5, <1>7, <3>2
    <3>4. PICK w \in 1 .. 4 : w = Width(t[i + 1])
      <4>1. t[i + 1] \in Nat
        BY <1>1, <2>3, <3>2, ElementOfSeq
      <4> QED
        BY <4>1, WidthFacts
    <3>5. (i + 1) + w = IF k = n THEN l + 1 ELSE At(k + 1)
      BY <1>4, <1>6, <3>2, <3>3, <3>4
    <3>6. i + w \in B
      <4>1. CASE k = n
        <5>1. i + w = l
          BY <3>2, <3>5, <4>1
        <5> QED
          BY <5>1
      <4>2. CASE k # n
        <5>1. k + 1 \in 1 .. n /\ i + w = At(k + 1) - 1
          BY <1>4, <3>2, <3>5, <4>2
        <5> QED
          BY <5>1
      <4> QED
        BY <4>1, <4>2
    <3>7. \A p \in i + 2 .. i + w : IsContinuation(t[p])
      BY <1>1, <2>3, <3>2, <3>3, <3>4, CompleteAtPlace
    <3> QED
      BY <3>3, <3>4, <3>6, <3>7
  <2> HIDE DEF B
  <2>4. Bounded(t, B)
    BY <1>1, <2>1, <2>2, <2>3 DEF Bounded
  <2>5. B \in SUBSET Nat
    BY <2>1
  <2> QED
    BY <2>4, <2>5 DEF Whole
<1>8. ASSUME Whole(t) PROVE WellFormed(t)
  <2>1. PICK B \in SUBSET Nat : Bounded(t, B)
    BY <1>8 DEF Whole
  <2>2. \A k \in 1 .. n : At(k) - 1 \in B =>
          /\ CompleteAt(t, At(k)) /\ ~IsContinuation(t[At(k)])
          /\ (At(k) - 1) + Width(t[At(k)]) \in B
    <3> SUFFICES ASSUME NEW k \in 1 .. n, At(k) - 1 \in B
                 PROVE  /\ CompleteAt(t, At(k)) /\ ~IsContinuation(t[At(k)])
                        /\ (At(k) - 1) + Width(t[At(k)]) \in B
      OBVIOUS
    <3>1. PICK i \in Nat : i = At(k) - 1 /\ At(k) = i + 1 /\ i < l
      <4>1. At(k) \in 1 .. l
        BY <1>4
      <4>2. At(k) - 1 \in Nat /\ At(k) = (At(k) - 1) + 1 /\ At(k) - 1 < l
        BY <4>1
      <4> QED
        BY <4>2
    <3>2. /\ ~IsContinuation(t[i + 1]) /\ i + Width(t[i + 1]) \in B
          /\ \A p \in i + 2 .. i + Width(t[i + 1]) : IsContinuation(t[p])
      BY <1>1, <2>1, <3>1 DEF Bounded
    <3>3. i + Width(t[i + 1]) <= Len(t)
      BY <1>1, <2>1, <3>1, NextBoundary
    <3>4. CompleteAt(t, i + 1)
      BY <1>1, <3>1, <3>2, <3>3, CompleteAtPlace
    <3> QED
      BY <3>1, <3>2, <3>4
  <2> DEFINE D == {k \in Nat : k + 1 <= n => At(k + 1) - 1 \in B}
  <2>3. 0 \in D
    <3> SUFFICES ASSUME 1 <= n PROVE At(1) - 1 \in B
      OBVIOUS
    <3>1. At(1) - 1 = 0
      BY <1>4
    <3> QED
      BY <2>1, <3>1 DEF Bounded
  <2>4. ASSUME NEW k \in D PROVE k + 1 \in D
    <3> SUFFICES ASSUME (k + 1) + 1 <= n PROVE At((k + 1) + 1) - 1 \in B
      OBVIOUS
    <3>1. PICK m \in 1 .. n : m = k + 1 /\ m # n /\ At(m) - 1 \in B
      OBVIOUS
    <3>2. At(m) + Width(t[At(m)]) = At(m + 1) /\ (At(m) - 1) + Width(t[At(m)]) \in B
      BY <1>4, <1>6, <2>2, <3>1
    <3>3. PICK p \in Nat, w \in 1 .. 4 : p = At(m) /\ w = Width(t[At(m)])
      <4>1. At(m) \in 1 .. Len(t)
        BY <1>1, <1>4
      <4>2. t[At(m)] \in Nat /\ At(m) \in Nat
        BY <4>1, ElementOfSeq
      <4> QED
        BY <4>2, WidthFacts
    <3>4. At(m + 1) - 1 = (p - 1) + w
      BY <3>2, <3>3
    <3> QED
      BY <3>1, <3>2, <3>3, <3>4
  <2> HIDE DEF D
  <2>5. D = Nat
    <3>1. D \in SUBSET Nat
      BY DEF D
    <3> QED
      BY <2>3, <2>4, <3>1, Induct
  <2>6. \A k \in 1 .. n : At(k) - 1 \in B
    <3> TAKE k \in 1 .. n
    <3>1. k - 1 \in D /\ (k - 1) + 1 = k
      BY <2>5
    <3> QED
      BY <3>1 DEF D
  <2> QED
    BY <1>5, <2>2, <2>6
<1> QED
  BY <1>7, <1>8

-----------------------------------------------------------------------------
(* complete_prefix_length stops at the first place whose character is not  *)
(* all there, and on the way it visits what is closed under its steps.     *)
Unfinished(bytes, i) == i = Len(bytes) \/ i + Width(bytes[i + 1]) > Len(bytes)

LEMMA PrefixLengthFacts ==
  ASSUME NEW bytes \in Seq(Nat), NEW B, 0 \in B,
         \A i \in B \cap (0 .. Len(bytes)) :
           ~Unfinished(bytes, i) => i + Width(bytes[i + 1]) \in B
  PROVE  /\ CompletePrefixLength(bytes) \in B \cap (0 .. Len(bytes))
         /\ Unfinished(bytes, CompletePrefixLength(bytes))
<1> DEFINE W(i) == Width(bytes[i + 1])
           Ends == {i \in 0 .. Len(bytes) : Unfinished(bytes, i)}
           Step(f) == [i \in 0 .. Len(bytes) |->
             IF i = Len(bytes) \/ i + Width(bytes[i + 1]) > Len(bytes)
               THEN i ELSE f[i + Width(bytes[i + 1])]]
           next == [i \in 0 .. Len(bytes) |-> i + W(i)]
           base == [i \in 0 .. Len(bytes) |-> i]
           F == [p \in (0 .. Len(bytes)) \X Nat |-> p[2]]
           u == CHOOSE from : from = Step(from)
<1>1. PICK n \in Nat : n = Len(bytes)
  BY LenProperties
<1>2. \A i \in 0 .. n : i \notin Ends => i < n /\ W(i) \in 1 .. 4 /\ i + W(i) \in i + 1 .. n
  <2> SUFFICES ASSUME NEW i \in 0 .. n, ~Unfinished(bytes, i)
               PROVE  i < n /\ W(i) \in 1 .. 4 /\ i + W(i) \in i + 1 .. n
    BY <1>1
  <2>1. i # n /\ ~(i + W(i) > n)
    BY <1>1 DEF Unfinished
  <2>2. i < n /\ i + 1 \in 1 .. Len(bytes)
    BY <1>1, <2>1
  <2>3. bytes[i + 1] \in Nat
    BY <2>2, ElementOfSeq
  <2>4. W(i) \in 1 .. 4
    BY <2>3, WidthFacts
  <2> QED
    BY <2>1, <2>2, <2>4
<1>3. \A i \in 0 .. n : base[i] = i /\ next[i] = i + W(i) /\ \A v \in Nat : F[<<i, v>>] = v
  BY <1>1
<1>4. Ends \in SUBSET (0 .. n)
  BY <1>1
<1>5. \E f \in [0 .. n -> Nat] : \A i \in 0 .. n :
        f[i] = IF i \in Ends THEN i ELSE f[i + W(i)]
  <2> HIDE DEF base, next, F, Ends, W
  <2>1. PICK lo \in Nat : lo = 0 /\ lo <= n
    OBVIOUS
  <2>2. \A i \in lo .. n : i \in Ends => base[i] \in Nat
    BY <1>3, <2>1
  <2>3. \A i \in lo .. n : i \notin Ends => next[i] \in i + 1 .. n
    BY <1>2, <1>3, <2>1
  <2>4. \A i \in lo .. n : i \notin Ends => \A v \in Nat : F[<<i, v>>] \in Nat
    BY <1>3, <2>1
  <2>5. Upward(Nat, lo, n, Ends, base, next, F) # {}
    BY <2>1, <2>2, <2>3, <2>4, BackwardRecursion
  <2>6. PICK f \in [0 .. n -> Nat] : \A i \in 0 .. n :
          f[i] = IF i \in Ends THEN base[i] ELSE F[<<i, f[next[i]]>>]
    BY <2>1, <2>5 DEF Upward
  <2>7. \A i \in 0 .. n : f[i] = IF i \in Ends THEN i ELSE f[i + W(i)]
    <3> TAKE i \in 0 .. n
    <3>1. CASE i \in Ends
      BY <1>3, <2>6, <3>1
    <3>2. CASE i \notin Ends
      <4>1. i + W(i) \in 0 .. n
        BY <1>2, <3>2
      <4>2. f[i + W(i)] \in Nat
        BY <4>1
      <4>3. next[i] = i + W(i)
        BY <1>3
      <4>4. F[<<i, f[i + W(i)]>>] = f[i + W(i)]
        BY <1>3, <4>2
      <4>5. f[i] = F[<<i, f[next[i]]>>]
        BY <2>6, <3>2
      <4> QED
        BY <3>2, <4>3, <4>4, <4>5
    <3> QED
      BY <3>1, <3>2
  <2> QED
    BY <2>7
<1>6. \A i \in 0 .. n : i \in Ends <=> i = n \/ i + W(i) > n
  BY <1>1 DEF Unfinished
<1> HIDE DEF Ends
<1>7. PICK h \in [0 .. n -> Nat] : \A i \in 0 .. n : h[i] = IF i \in Ends THEN i ELSE h[i + W(i)]
  BY <1>5
<1>8. h = Step(h)
  <2>1. \A i \in 0 .. n : h[i] = IF i = n \/ i + W(i) > n THEN i ELSE h[i + W(i)]
    BY <1>6, <1>7
  <2> QED
    BY <1>1, <2>1
<1>9. u = Step(u)
  BY <1>8
<1>10. CompletePrefixLength(bytes) = u[0]
  BY DEF CompletePrefixLength
<1> HIDE DEF u
<1>11. \A i \in 0 .. n : u[i] = IF i \in Ends THEN i ELSE u[i + W(i)]
  BY <1>1, <1>6, <1>9
<1> DEFINE Good(i) == /\ u[i] \in 0 .. n /\ u[i] \in Ends /\ (i \in B => u[i] \in B)
           Bad == {i \in 0 .. n : ~Good(i)}
<1>12. Bad = {}
  <2> SUFFICES ASSUME Bad # {} PROVE FALSE
    OBVIOUS
  <2>1. Bad \in SUBSET Nat /\ \A i \in Bad : i <= n
    OBVIOUS
  <2>2. PICK i \in Bad : \A j \in Bad : j <= i
    BY <2>1, GreatestNat
  <2>3. i \in 0 .. n /\ ~Good(i)
    OBVIOUS
  <2>4. CASE i \in Ends
    BY <1>11, <2>3, <2>4
  <2>5. CASE i \notin Ends
    <3> HIDE DEF W
    <3>6. W(i) \in 1 .. 4 /\ i + W(i) \in i + 1 .. n
      BY <1>2, <2>3, <2>5
    <3>1. PICK w \in 1 .. 4 : w = W(i) /\ i + w \in 0 .. n /\ i + w > i
      <4>1. i + W(i) \in 0 .. n /\ i + W(i) > i
        BY <2>3, <3>6
      <4> QED
        BY <3>6, <4>1
    <3>2. i + w \notin Bad
      BY <2>2, <2>3, <3>1
    <3>3. Good(i + w)
      BY <3>1, <3>2
    <3>4. u[i] = u[i + w]
      BY <1>11, <2>3, <2>5, <3>1
    <3>5. i \in B => i + w \in B
      <4> SUFFICES ASSUME i \in B PROVE i + w \in B
        OBVIOUS
      <4>1. i \in B \cap (0 .. Len(bytes)) /\ ~Unfinished(bytes, i)
        BY <1>1, <1>6, <2>3, <2>5 DEF Unfinished, W
      <4> QED
        BY <3>1, <4>1 DEF W
    <3> HIDE DEF Bad
    <3> QED
      BY <2>3, <3>3, <3>4, <3>5
  <2> QED
    BY <2>4, <2>5
<1>13. Good(0)
  BY <1>12
<1>14. u[0] \in Ends /\ u[0] \in B /\ u[0] \in 0 .. n
  BY <1>13
<1> QED
  BY <1>1, <1>10, <1>14 DEF Ends

(* A sequence cut in two.                                                  *)
LEMMA CutInTwo ==
  ASSUME NEW S, NEW s \in Seq(S), NEW c \in 0 .. Len(s)
  PROVE  /\ SubSeq(s, 1, c) \in Seq(S) /\ Len(SubSeq(s, 1, c)) = c
         /\ SubSeq(s, c + 1, Len(s)) \in Seq(S) /\ Len(SubSeq(s, c + 1, Len(s))) = Len(s) - c
         /\ \A k \in 1 .. Len(s) - c : SubSeq(s, c + 1, Len(s))[k] = s[c + k]
         /\ SubSeq(s, 1, c) \o SubSeq(s, c + 1, Len(s)) = s
<1>1. PICK n \in Nat : n = Len(s)
  BY LenProperties
<1>2. \A k \in 1 .. n : s[k] \in S
  BY <1>1, ElementOfSeq
<1> DEFINE a == SubSeq(s, 1, c)
           b == SubSeq(s, c + 1, n)
<1>3. a \in Seq(S) /\ Len(a) = c /\ \A k \in 1 .. c : a[k] = s[k]
  <2>1. \A k \in 1 .. c : s[k] \in S
    BY <1>1, <1>2
  <2>2. /\ SubSeq(s, 1, c) \in Seq(S)
        /\ Len(SubSeq(s, 1, c)) = IF 1 <= c THEN c - 1 + 1 ELSE 0
        /\ \A k \in 1 .. c - 1 + 1 : SubSeq(s, 1, c)[k] = s[1 + k - 1]
    BY <1>1, <2>1, SubSeqProperties
  <2>3. c - 1 + 1 = c /\ c \in Nat
    BY <1>1
  <2> HIDE DEF a
  <2>4. \A k \in 1 .. c : 1 + k - 1 = k
    OBVIOUS
  <2> QED
    BY <2>2, <2>3, <2>4 DEF a
<1>4. b \in Seq(S) /\ Len(b) = n - c /\ \A k \in 1 .. n - c : b[k] = s[c + k]
  <2>1. \A k \in c + 1 .. n : s[k] \in S
    BY <1>1, <1>2
  <2>2. /\ SubSeq(s, c + 1, n) \in Seq(S)
        /\ Len(SubSeq(s, c + 1, n)) = IF c + 1 <= n THEN n - (c + 1) + 1 ELSE 0
        /\ \A k \in 1 .. n - (c + 1) + 1 : SubSeq(s, c + 1, n)[k] = s[(c + 1) + k - 1]
    BY <1>1, <2>1, SubSeqProperties
  <2>3. n - (c + 1) + 1 = n - c /\ \A k \in Nat : (c + 1) + k - 1 = c + k
    BY <1>1
  <2>4. Len(SubSeq(s, c + 1, n)) = n - c
    BY <1>1, <2>2
  <2>5. \A k \in 1 .. n - c : SubSeq(s, c + 1, n)[k] = s[c + k]
    BY <1>1, <2>2, <2>3
  <2> HIDE DEF a
  <2> QED
    BY <2>2, <2>4, <2>5
<1> HIDE DEF a, b
<1>5. a \o b = s
  <2>1. a \o b \in Seq(S) /\ Len(a \o b) = n
    <3>1. Len(a \o b) = c + (n - c)
      BY <1>3, <1>4, ConcatProperties
    <3>2. a \o b \in Seq(S)
      BY <1>3, <1>4, ConcatProperties
    <3> QED
      BY <1>1, <3>1, <3>2
  <2>2. \A k \in 1 .. n : (a \o b)[k] = s[k]
    <3> TAKE k \in 1 .. n
    <3>1. k \in 1 .. Len(a) + Len(b)
      BY <1>1, <1>3, <1>4
    <3>2. (a \o b)[k] = IF k <= Len(a) THEN a[k] ELSE b[k - Len(a)]
      BY <1>3, <1>4, <3>1, ConcatProperties
    <3>3. CASE k <= c
      BY <1>3, <3>2, <3>3
    <3>4. CASE k > c
      <4>1. k - c \in 1 .. n - c /\ c + (k - c) = k
        BY <1>1, <3>4
      <4>2. b[k - c] = s[k]
        BY <1>4, <4>1
      <4> QED
        BY <1>1, <1>3, <3>2, <3>4, <4>2
    <3> QED
      <4>1. c \in Nat /\ k \in Nat
        BY <1>1
      <4>2. k <= c \/ k > c
        BY <4>1
      <4> QED
        BY <3>3, <3>4, <4>2, Zenon
  <2> QED
    BY <1>1, <2>1, <2>2, SeqEqual
<1> QED
  BY <1>1, <1>3, <1>4, <1>5 DEF a, b

(* Feeding x to the streamer loses nothing, and what is held back is less  *)
(* than the character it belongs to.                                       *)
Complete(bytes) == SubSeq(bytes, 1, CompletePrefixLength(bytes))
HeldBack(bytes) == SubSeq(bytes, CompletePrefixLength(bytes) + 1, Len(bytes))

LEMMA StreamStep ==
  ASSUME NEW bytes \in Seq(Nat)
  PROVE  /\ Complete(bytes) \in Seq(Nat) /\ HeldBack(bytes) \in Seq(Nat)
         /\ Len(Complete(bytes)) = CompletePrefixLength(bytes)
         /\ Complete(bytes) \o HeldBack(bytes) = bytes
         /\ HeldBack(bytes) # << >> => Len(HeldBack(bytes)) < Width(HeldBack(bytes)[1])
<1>1. PICK n \in Nat : n = Len(bytes)
  BY LenProperties
<1>2. \A i \in Nat \cap (0 .. Len(bytes)) :
        ~Unfinished(bytes, i) => i + Width(bytes[i + 1]) \in Nat
  <2> SUFFICES ASSUME NEW i \in 0 .. n, ~Unfinished(bytes, i)
               PROVE  i + Width(bytes[i + 1]) \in Nat
    BY <1>1
  <2>1. i # n
    BY <1>1 DEF Unfinished
  <2>2. i + 1 \in 1 .. Len(bytes)
    BY <1>1, <2>1
  <2>3. bytes[i + 1] \in Nat
    BY <2>2, ElementOfSeq
  <2>4. Width(bytes[i + 1]) \in 1 .. 4
    BY <2>3, WidthFacts
  <2> QED
    BY <2>4
<1>3. /\ CompletePrefixLength(bytes) \in Nat \cap (0 .. Len(bytes))
      /\ Unfinished(bytes, CompletePrefixLength(bytes))
  <2>1. PICK B : B = Nat
    OBVIOUS
  <2>2. 0 \in B
    BY <2>1
  <2>3. \A i \in B \cap (0 .. Len(bytes)) :
          ~Unfinished(bytes, i) => i + Width(bytes[i + 1]) \in B
    BY <1>2, <2>1
  <2>4. /\ CompletePrefixLength(bytes) \in B \cap (0 .. Len(bytes))
        /\ Unfinished(bytes, CompletePrefixLength(bytes))
    BY <2>2, <2>3, PrefixLengthFacts
  <2> QED
    BY <2>1, <2>4
<1>4. PICK c \in 0 .. n : c = CompletePrefixLength(bytes)
  BY <1>1, <1>3
<1>5. Unfinished(bytes, c) /\ c \in 0 .. Len(bytes)
  BY <1>1, <1>3, <1>4
<1>6. /\ Complete(bytes) = SubSeq(bytes, 1, c)
      /\ HeldBack(bytes) = SubSeq(bytes, c + 1, Len(bytes))
  BY <1>4 DEF Complete, HeldBack
<1>7. /\ Complete(bytes) \in Seq(Nat) /\ Len(Complete(bytes)) = c
      /\ HeldBack(bytes) \in Seq(Nat) /\ Len(HeldBack(bytes)) = Len(bytes) - c
      /\ \A k \in 1 .. Len(bytes) - c : HeldBack(bytes)[k] = bytes[c + k]
      /\ Complete(bytes) \o HeldBack(bytes) = bytes
  <2>1. /\ SubSeq(bytes, 1, c) \in Seq(Nat) /\ Len(SubSeq(bytes, 1, c)) = c
        /\ SubSeq(bytes, c + 1, Len(bytes)) \in Seq(Nat)
        /\ Len(SubSeq(bytes, c + 1, Len(bytes))) = Len(bytes) - c
        /\ \A k \in 1 .. Len(bytes) - c : SubSeq(bytes, c + 1, Len(bytes))[k] = bytes[c + k]
        /\ SubSeq(bytes, 1, c) \o SubSeq(bytes, c + 1, Len(bytes)) = bytes
    BY <1>5, CutInTwo
  <2> QED
    BY <1>6, <2>1
<1>8. ASSUME HeldBack(bytes) # << >>
      PROVE  Len(HeldBack(bytes)) < Width(HeldBack(bytes)[1])
  <2>1. c < n
    <3>1. Len(HeldBack(bytes)) \in Nat \ {0}
      BY <1>7, <1>8, EmptySeq
    <3> QED
      BY <1>1, <1>7, <3>1
  <2>2. HeldBack(bytes)[1] = bytes[c + 1]
    <3>1. 1 \in 1 .. Len(bytes) - c
      BY <1>1, <2>1
    <3> QED
      BY <1>7, <3>1
  <2>3. PICK w \in 1 .. 4 : w = Width(bytes[c + 1])
    <3>1. c + 1 \in 1 .. Len(bytes)
      BY <1>1, <2>1
    <3>2. bytes[c + 1] \in Nat
      BY <3>1, ElementOfSeq
    <3> QED
      BY <3>2, WidthFacts
  <2>4. c + w > n
    BY <1>1, <1>5, <2>1, <2>3 DEF Unfinished
  <2> QED
    BY <1>1, <1>7, <2>2, <2>3, <2>4
<1> QED
  BY <1>4, <1>7, <1>8

(* Of a well-formed text, it lets whole characters through.                *)
LEMMA StreamWhole ==
  ASSUME NEW out \in Seq(Nat), NEW bytes \in Seq(Nat), NEW z \in Seq(Nat),
         NEW B, Bounded((out \o bytes) \o z, B), Len(out) \in B
  PROVE  Len(out) + CompletePrefixLength(bytes) \in B
<1> DEFINE t == (out \o bytes) \o z
           S == {j \in Nat : Len(out) + j \in B}
<1>1. PICK m \in Nat : m = Len(out)
  BY LenProperties
<1>2. PICK n \in Nat : n = Len(bytes)
  BY LenProperties
<1>3. PICK l \in Nat : l = Len(z)
  BY LenProperties
<1>4. t \in Seq(Nat) /\ Len(t) = (m + n) + l /\ \A k \in 1 .. n : t[m + k] = bytes[k]
  BY <1>1, <1>2, <1>3
<1>5. Bounded(t, B)
  OBVIOUS
<1> HIDE DEF t
<1>6. 0 \in S
  BY <1>1
<1>7. \A i \in S \cap (0 .. Len(bytes)) :
        ~Unfinished(bytes, i) => i + Width(bytes[i + 1]) \in S
  <2> SUFFICES ASSUME NEW i \in 0 .. n, m + i \in B, ~Unfinished(bytes, i)
               PROVE  i + Width(bytes[i + 1]) \in Nat /\ m + (i + Width(bytes[i + 1])) \in B
    BY <1>1, <1>2
  <2>1. i # n
    BY <1>2 DEF Unfinished
  <2>2. t[(m + i) + 1] = bytes[i + 1] /\ m + i < Len(t)
    <3>1. i + 1 \in 1 .. n /\ (m + i) + 1 = m + (i + 1)
      BY <2>1
    <3>2. t[m + (i + 1)] = bytes[i + 1]
      BY <1>4, <3>1
    <3>3. m + i < (m + n) + l
      BY <2>1
    <3> QED
      BY <1>4, <3>1, <3>2, <3>3
  <2>3. PICK w \in 1 .. 4 : w = Width(bytes[i + 1]) /\ (m + i) + w \in B
    BY <1>4, <1>5, <2>2, NextBoundary
  <2>4. m + (i + w) = (m + i) + w /\ i + w \in Nat
    OBVIOUS
  <2> QED
    BY <2>3, <2>4
<1> HIDE DEF S
<1>8. CompletePrefixLength(bytes) \in S \cap (0 .. Len(bytes))
  BY <1>6, <1>7, PrefixLengthFacts
<1> QED
  BY <1>8 DEF S

-----------------------------------------------------------------------------
(***************************************************************************)
(* The tables of the tokenizer.                                            *)
(***************************************************************************)
LEMMA AppendType ==
  ASSUME NEW cp \in Nat
  PROVE  AppendUtf8(cp) \in Seq(Nat)
<1>1. CASE cp < 128
  <2>1. AppendUtf8(cp) = <<cp>>
    BY <1>1 DEF AppendUtf8
  <2> QED
    BY <2>1
<1>2. CASE 128 <= cp /\ cp < 2048
  <2>1. AppendUtf8(cp) = <<192 + (cp \div 64), 128 + (cp % 64)>>
    BY <1>2 DEF AppendUtf8
  <2>2. 192 + (cp \div 64) \in Nat
    OBVIOUS
  <2>3. 128 + (cp % 64) \in Nat
    OBVIOUS
  <2> QED
    BY <2>1, <2>2, <2>3
<1>3. CASE 2048 <= cp /\ cp < 65536
  <2>1. AppendUtf8(cp) =
          <<224 + (cp \div 4096), 128 + ((cp \div 64) % 64), 128 + (cp % 64)>>
    BY <1>3 DEF AppendUtf8
  <2>2. 224 + (cp \div 4096) \in Nat
    OBVIOUS
  <2>3. 128 + (cp % 64) \in Nat
    OBVIOUS
  <2>4. 128 + ((cp \div 64) % 64) \in Nat
    OBVIOUS
  <2> QED
    BY <2>1, <2>2, <2>3, <2>4
<1>4. CASE cp >= 65536
  <2>1. AppendUtf8(cp) =
          <<240 + (cp \div 262144), 128 + ((cp \div 4096) % 64), 128 + ((cp \div 64) % 64),
            128 + (cp % 64)>>
    BY <1>4 DEF AppendUtf8
  <2>2. 240 + (cp \div 262144) \in Nat
    OBVIOUS
  <2>3. 128 + (cp % 64) \in Nat
    OBVIOUS
  <2>4. 128 + ((cp \div 64) % 64) \in Nat
    OBVIOUS
  <2>5. 128 + ((cp \div 4096) % 64) \in Nat
    OBVIOUS
  <2> QED
    BY <2>1, <2>2, <2>3, <2>4, <2>5
<1> QED
  BY <1>1, <1>2, <1>3, <1>4

LEMMA DecodeType ==
  ASSUME NEW encoded \in Seq(Nat)
  PROVE  ByteLevelDecode(encoded) \in Seq(Nat)
<1> DEFINE cps == DecodeUtf8(encoded)
           E(k) == IF cps[k].value \in DOMAIN ToByte THEN <<ToByte[cps[k].value]>>
                                                         ELSE AppendUtf8(cps[k].value)
           seqs == [k \in DOMAIN cps |-> E(k)]
<1>1. cps \in Seq([value : Nat, offset : 1 .. Len(encoded)])
  BY DecodeChain DEF Chain
<1>2. PICK n \in Nat : n = Len(cps)
  BY <1>1, LenProperties
<1>3. DOMAIN cps = 1 .. n /\ \A k \in 1 .. n : cps[k].value \in Nat
  <2>1. \A k \in 1 .. n : cps[k] \in [value : Nat, offset : 1 .. Len(encoded)]
    BY <1>1, <1>2, ElementOfSeq
  <2> QED
    BY <1>1, <1>2, <2>1, LenProperties
<1>4. \A cp \in DOMAIN ToByte : ToByte[cp] \in Nat
  <2>1. ASSUME NEW cp \in DOMAIN ToByte PROVE ToByte[cp] \in Byte
    <3>1. \E b \in Byte : ToCodepoint[b] = cp
      BY DEF ToByte
    <3>2. ToByte[cp] = CHOOSE b \in Byte : ToCodepoint[b] = cp
      BY DEF ToByte
    <3> QED
      BY <3>1, <3>2
  <2>2. \A b \in Byte : b \in Nat
    BY DEF Byte
  <2> QED
    BY <2>1, <2>2
<1> HIDE DEF cps
<1>5. \A k \in 1 .. n : E(k) \in Seq(Nat)
  <2> TAKE k \in 1 .. n
  <2>1. CASE cps[k].value \in DOMAIN ToByte
    <3>1. ToByte[cps[k].value] \in Nat
      BY <1>4, <2>1
    <3> QED
      BY <2>1, <3>1
  <2>2. CASE cps[k].value \notin DOMAIN ToByte
    BY <1>3, <2>2, AppendType
  <2> QED
    BY <2>1, <2>2
<1> HIDE DEF E
<1>6. seqs \in Seq(Seq(Nat))
  <2>1. seqs \in [1 .. n -> Seq(Nat)]
    BY <1>3, <1>5
  <2> HIDE DEF seqs
  <2> QED
    BY <2>1
<1>7. ByteLevelDecode(encoded) = FlattenSeq(seqs)
  BY DEF ByteLevelDecode, cps, E
<1> HIDE DEF seqs
<1> QED
  BY <1>6, <1>7, FlattenFacts

LEMMA AsciiAppend ==
  ASSUME NEW b \in Nat, b < 128
  PROVE  AppendUtf8(b) = <<b>>
BY DEF AppendUtf8

(* A name of printable ASCII is what it decodes to.                        *)
LEMMA AsciiDecodes ==
  ASSUME NEW name \in Seq(33 .. 126)
  PROVE  name \in Seq(Byte) /\ ByteLevelEncode(name) = name
<1>1. PICK n \in Nat : n = Len(name)
  BY LenProperties
<1>2. \A k \in 1 .. n : name[k] \in 33 .. 126 /\ name[k] \in Byte
  <2>1. \A k \in 1 .. n : name[k] \in 33 .. 126
    BY <1>1, ElementOfSeq
  <2>2. \A b \in 33 .. 126 : b \in Byte
    BY DEF Byte
  <2> QED
    BY <2>1, <2>2
<1>3. name \in Seq(Byte) /\ DOMAIN name = 1 .. n
  BY <1>1, <1>2, LenProperties, IsASeq
<1>4. \A k \in 1 .. n : AppendUtf8(ToCodepoint[name[k]]) = <<name[k]>>
  <2> TAKE k \in 1 .. n
  <2>1. PICK b \in 33 .. 126 : b = name[k]
    BY <1>2
  <2>2. ToCodepoint[b] = b
    <3>1. \A c \in 33 .. 126 : ToCodepoint[c] = c
      BY AlphabetFacts
    <3> QED
      BY <3>1, Zenon
  <2>3. AppendUtf8(b) = <<b>>
    BY AsciiAppend
  <2> QED
    BY <2>1, <2>2, <2>3
<1>5. ByteLevelEncode(name) =
        FlattenSeq([k \in 1 .. n |-> AppendUtf8(ToCodepoint[name[k]])])
  BY <1>3 DEF ByteLevelEncode
<1>6. ByteLevelEncode(name) = FlattenSeq([k \in 1 .. Len(name) |-> <<name[k]>>])
  BY <1>1, <1>4, <1>5
<1> QED
  BY <1>3, <1>6, FlattenSingles

LEMMA MinFacts ==
  ASSUME NEW S \in SUBSET Nat, S # {}
  PROVE  Min(S) \in S /\ \A y \in S : Min(S) <= y
<1>1. \E x \in S : \A y \in S : x <= y
  BY LeastNat
<1> QED
  BY <1>1 DEF Min

(* Whichever token names an id, it is one of that id.                      *)
LEMMA NamesAreNamed ==
  ASSUME NEW entries, NEW table \in IdToTokens(entries)
  PROVE  /\ DOMAIN table = {entries[token] : token \in DOMAIN entries}
         /\ \A id \in DOMAIN table : table[id] \in DOMAIN entries /\ entries[table[id]] = id
<1> DEFINE Ids == {entries[token] : token \in DOMAIN entries}
           named == [id \in Ids |-> {token \in DOMAIN entries : entries[token] = id}]
           contested == {id \in DOMAIN named : Cardinality(named[id]) > 1}
           choices == {c \in [contested -> UNION {named[id] : id \in contested}] :
                         \A id \in contested : c[id] \in named[id]}
<1>1. PICK choice \in choices :
        table = [id \in DOMAIN named |-> IF id \in contested THEN choice[id]
                                         ELSE CHOOSE token \in named[id] : TRUE]
  BY DEF IdToTokens
<1>2. \A id \in contested : choice[id] \in named[id]
  OBVIOUS
<1>3. DOMAIN named = Ids /\ \A id \in Ids : named[id] = {token \in DOMAIN entries : entries[token] = id}
  OBVIOUS
<1>4. \A id \in Ids : named[id] # {}
  BY <1>3
<1> HIDE DEF named, contested, choices
<1>5. DOMAIN table = Ids
  BY <1>1, <1>3
<1>6. ASSUME NEW id \in Ids PROVE table[id] \in named[id]
  <2>1. CASE id \in contested
    BY <1>1, <1>2, <1>3, <2>1
  <2>2. CASE id \notin contested
    BY <1>1, <1>3, <1>4, <2>2
  <2> QED
    BY <2>1, <2>2
<1> QED
  BY <1>3, <1>5, <1>6

(* As many ids as tokens: none has two.                                    *)
LEMMA OneTokenPerId ==
  ASSUME NEW entries, IsFiniteSet(DOMAIN entries), NEW table \in IdToTokens(entries),
         Cardinality(DOMAIN table) = Cardinality(DOMAIN entries)
  PROVE  \A t, u \in DOMAIN entries : entries[t] = entries[u] => t = u
<1> DEFINE S == DOMAIN entries
           T == DOMAIN table
           f == [t \in S |-> entries[t]]
<1>1. T = {entries[token] : token \in S}
  BY NamesAreNamed
<1>2. f \in Surjection(S, T)
  <2>1. f \in [S -> T]
    BY <1>1
  <2>2. \A x \in T : \E t \in S : f[t] = x
    BY <1>1
  <2> QED
    BY <2>1, <2>2 DEF Surjection
<1>3. Cardinality(S) = Cardinality(T)
  BY SameCardinality
<1> HIDE DEF f
<1>4. f \in Injection(S, T)
  BY <1>2, <1>3, FS_SurjSameCardinalityImpliesInj
<1>5. \A t, u \in S : f[t] = f[u] => t = u
  BY <1>4 DEF Injection, IsInjective
<1> QED
  BY <1>5 DEF f

LEMMA BytesAreNumbers ==
  ASSUME NEW s \in Seq(Byte)
  PROVE  s \in Seq(Nat)
<1>1. PICK n \in Nat : n = Len(s)
  BY LenProperties
<1>2. s \in [1 .. n -> Byte]
  BY <1>1, LenProperties
<1>3. \A b \in Byte : b \in Nat
  BY DEF Byte
<1>4. s \in [1 .. n -> Nat]
  BY <1>2, <1>3
<1> QED
  BY <1>4

LEMMA AddedTables ==
  ASSUME NEW added, DOMAIN added \in SUBSET Nat
  PROVE  /\ DOMAIN AddedById(added) = {added[k].id : k \in DOMAIN added}
         /\ DOMAIN AddedByContent(added) = {added[k].content : k \in DOMAIN added}
         /\ \A id \in DOMAIN AddedById(added) : \E k \in DOMAIN added :
              added[k].id = id /\ AddedById(added)[id] = added[k].content
         /\ \A content \in DOMAIN AddedByContent(added) : \E k \in DOMAIN added :
              added[k].content = content /\ AddedByContent(added)[content] = added[k].id
<1>1. DOMAIN AddedById(added) = {added[k].id : k \in DOMAIN added}
  BY DEF AddedById
<1>2. DOMAIN AddedByContent(added) = {added[k].content : k \in DOMAIN added}
  BY DEF AddedByContent
<1>3. ASSUME NEW id \in DOMAIN AddedById(added)
      PROVE  \E k \in DOMAIN added :
               added[k].id = id /\ AddedById(added)[id] = added[k].content
  <2> DEFINE S == {k \in DOMAIN added : added[k].id = id}
  <2>1. S \in SUBSET Nat /\ S # {}
    BY <1>1
  <2>2. Min(S) \in S
    BY <2>1, MinFacts
  <2>3. AddedById(added)[id] = added[Min(S)].content
    BY <1>1 DEF AddedById
  <2> QED
    BY <2>2, <2>3
<1>4. ASSUME NEW content \in DOMAIN AddedByContent(added)
      PROVE  \E k \in DOMAIN added :
               added[k].content = content /\ AddedByContent(added)[content] = added[k].id
  <2> DEFINE S == {k \in DOMAIN added : added[k].content = content}
  <2>1. S \in SUBSET Nat /\ S # {}
    BY <1>2
  <2>2. Min(S) \in S
    BY <2>1, MinFacts
  <2>3. AddedByContent(added)[content] = added[Min(S)].id
    BY <1>2 DEF AddedByContent
  <2> QED
    BY <2>2, <2>3
<1> QED
  BY <1>1, <1>2, <1>3, <1>4

(* What a loaded tokenizer holds.                                          *)
Doc    == Documents[document]
Extra  == AddedTokens(Doc)
Loaded == document \in DOMAIN Documents /\ tables \in BuildFromJson(Doc)

KnownIds == DOMAIN tables.idToToken \cup DOMAIN tables.addedById
Tokens   == [source : {"bos", "added", "bpe"}, id : KnownIds]

LEMMA TablesAre ==
  ASSUME Loaded
  PROVE  /\ tables.tokenToId = Doc.vocab
         /\ tables.idToToken \in IdToTokens(Doc.vocab)
         /\ tables.addedByContent = AddedByContent(Extra)
         /\ tables.addedById = AddedById(Extra)
         /\ tables.specialIds = {Extra[k].id : k \in {j \in DOMAIN Extra : Extra[j].special}}
         /\ tables.bosId = BosId(Doc, tables.addedByContent)
<1>1. PICK table \in IdToTokens(Doc.vocab) :
        tables = [tokenToId      |-> Doc.vocab,
                  idToToken      |-> table,
                  addedByContent |-> AddedByContent(Extra),
                  addedById      |-> AddedById(Extra),
                  specialIds     |-> {Extra[k].id : k \in {j \in DOMAIN Extra : Extra[j].special}},
                  products       |-> {m[1] \o m[2] : m \in {Doc.merges[k] : k \in DOMAIN Doc.merges}},
                  ignoreMerges   |-> Doc.ignoreMerges,
                  bosId          |-> BosId(Doc, AddedByContent(Extra))]
  BY DEF Loaded, BuildFromJson, Extra
<1> QED
  BY <1>1

LEMMA ExtraFacts ==
  ASSUME VocabularyAssumption, document \in DOMAIN Documents
  PROVE  /\ DOMAIN Extra \in SUBSET Nat
         /\ \A k \in DOMAIN Extra : /\ Extra[k].content \in Seq(Byte)
                                    /\ Extra[k].content \in Seq(Nat) /\ Whole(Extra[k].content)
<1>1. DOMAIN Doc.addedTokens \subseteq Nat
  BY DEF VocabularyAssumption, Doc
<1>2. DOMAIN Extra \subseteq DOMAIN Doc.addedTokens /\ \A k \in DOMAIN Extra : Extra[k] = Doc.addedTokens[k]
  BY DEF AddedTokens, Extra
<1>3. \A k \in DOMAIN Extra : /\ Doc.addedTokens[k].content \in Seq(Byte)
                              /\ WellFormed(Doc.addedTokens[k].content)
  BY DEF VocabularyAssumption, Doc, Extra
<1>5. ASSUME NEW k \in DOMAIN Extra
      PROVE  /\ Extra[k].content \in Seq(Byte)
             /\ Extra[k].content \in Seq(Nat) /\ Whole(Extra[k].content)
  <2>1. Extra[k].content \in Seq(Byte) /\ WellFormed(Extra[k].content)
    BY <1>2, <1>3
  <2>2. Extra[k].content \in Seq(Nat)
    BY <2>1, BytesAreNumbers
  <2> QED
    BY <2>1, <2>2, WellFormedIsWhole
<1> QED
  BY <1>1, <1>2, <1>5

(* What an id decodes to, and what skipping the special ones leaves out.   *)
LEMMA DecodeOneFacts ==
  ASSUME VocabularyAssumption, Loaded, NEW id \in KnownIds
  PROVE  /\ DecodeOne(id, FALSE) \in Seq(Nat) /\ DecodeOne(id, TRUE) \in Seq(Nat)
         /\ \/ DecodeOne(id, TRUE) = DecodeOne(id, FALSE)
            \/ /\ DecodeOne(id, TRUE) = << >> /\ Whole(DecodeOne(id, FALSE))
               /\ id \in DOMAIN tables.addedById /\ id \in tables.specialIds
<1>1. CASE id \notin DOMAIN tables.addedById
  <2>1. id \in DOMAIN tables.idToToken
    BY <1>1 DEF KnownIds
  <2>2. tables.idToToken[id] \in DOMAIN Doc.vocab
    BY <2>1, TablesAre, NamesAreNamed
  <2>3. DOMAIN Doc.vocab \subseteq Seq(Byte)
    BY DEF VocabularyAssumption, Loaded, Doc
  <2>4. tables.idToToken[id] \in Seq(Byte)
    BY <2>2, <2>3
  <2>6. tables.idToToken[id] \in Seq(Nat)
    BY <2>4, BytesAreNumbers
  <2>7. /\ DecodeOne(id, TRUE) = ByteLevelDecode(tables.idToToken[id])
        /\ DecodeOne(id, FALSE) = ByteLevelDecode(tables.idToToken[id])
    <3>1. id \notin tables.specialIds
      <4>1. DOMAIN Extra \in SUBSET Nat
        BY ExtraFacts DEF Loaded
      <4>2. DOMAIN AddedById(Extra) = {Extra[k].id : k \in DOMAIN Extra}
        BY <4>1, AddedTables
      <4>3. /\ tables.addedById = AddedById(Extra)
            /\ tables.specialIds = {Extra[k].id : k \in {j \in DOMAIN Extra : Extra[j].special}}
        BY TablesAre
      <4> QED
        BY <1>1, <4>2, <4>3
    <3> QED
      BY <1>1, <3>1 DEF DecodeOne
  <2> QED
    BY <2>6, <2>7, DecodeType
<1>2. CASE id \in DOMAIN tables.addedById
  <2>1. DOMAIN Extra \in SUBSET Nat
    BY ExtraFacts DEF Loaded
  <2>2. PICK k \in DOMAIN Extra : tables.addedById[id] = Extra[k].content
    <3>1. tables.addedById = AddedById(Extra)
      BY TablesAre
    <3>2. PICK byId : byId = tables.addedById
      OBVIOUS
    <3>3. \A x \in DOMAIN AddedById(Extra) : \E k \in DOMAIN Extra :
            Extra[k].id = x /\ AddedById(Extra)[x] = Extra[k].content
      BY <2>1, AddedTables
    <3> QED
      BY <1>2, <3>1, <3>3
  <2>3. tables.addedById[id] \in Seq(Nat) /\ Whole(tables.addedById[id])
    BY <2>2, ExtraFacts DEF Loaded
  <2>4. DecodeOne(id, FALSE) = tables.addedById[id]
    BY <1>2 DEF DecodeOne
  <2>5. DecodeOne(id, TRUE) = IF id \in tables.specialIds THEN << >> ELSE tables.addedById[id]
    BY <1>2 DEF DecodeOne
  <2>6. << >> \in Seq(Nat)
    OBVIOUS
  <2> QED
    BY <1>2, <2>3, <2>4, <2>5, <2>6
<1> QED
  BY <1>1, <1>2

LEMMA EntryIds ==
  ASSUME Loaded, NEW token \in DOMAIN Doc.vocab
  PROVE  Doc.vocab[token] \in DOMAIN tables.idToToken
<1>1. tables.idToToken \in IdToTokens(Doc.vocab)
  BY TablesAre
<1>2. DOMAIN tables.idToToken = {Doc.vocab[t] : t \in DOMAIN Doc.vocab}
  BY <1>1, NamesAreNamed
<1> QED
  BY <1>2

LEMMA ContentIds ==
  ASSUME VocabularyAssumption, Loaded, NEW content \in DOMAIN tables.addedByContent
  PROVE  /\ content \in Seq(Byte) /\ content \in Seq(Nat)
         /\ tables.addedByContent[content] \in DOMAIN tables.addedById
         /\ \E k \in DOMAIN Extra : /\ Extra[k].content = content
                                    /\ Extra[k].id = tables.addedByContent[content]
<1>1. DOMAIN Extra \in SUBSET Nat
  BY ExtraFacts DEF Loaded
<1>2. tables.addedByContent = AddedByContent(Extra) /\ tables.addedById = AddedById(Extra)
  BY TablesAre
<1>3. \A x \in DOMAIN AddedByContent(Extra) : \E k \in DOMAIN Extra :
        Extra[k].content = x /\ AddedByContent(Extra)[x] = Extra[k].id
  BY <1>1, AddedTables
<1>4. PICK k \in DOMAIN Extra :
        Extra[k].content = content /\ tables.addedByContent[content] = Extra[k].id
  BY <1>2, <1>3
<1>5. DOMAIN AddedById(Extra) = {Extra[j].id : j \in DOMAIN Extra}
  BY <1>1, AddedTables
<1>6. tables.addedByContent[content] \in DOMAIN tables.addedById
  BY <1>2, <1>4, <1>5
<1>7. content \in Seq(Byte) /\ content \in Seq(Nat)
  BY <1>4, ExtraFacts DEF Loaded
<1> QED
  BY <1>4, <1>6, <1>7

LEMMA UnambiguousMeans ==
  ASSUME VocabularyAssumption, Loaded, Unambiguous
  PROVE  /\ \A t, u \in DOMAIN Doc.vocab : Doc.vocab[t] = Doc.vocab[u] => t = u
         /\ \A j, k \in DOMAIN Extra : Extra[j].id = Extra[k].id => Extra[j].content = Extra[k].content
         /\ \A k \in DOMAIN Extra : Extra[k].id \in DOMAIN tables.idToToken =>
              /\ ByteLevelDecode(tables.idToToken[Extra[k].id]) = Extra[k].content
              /\ ~Extra[k].special
<1>1. /\ tables.idToToken \in IdToTokens(Doc.vocab) /\ tables.tokenToId = Doc.vocab
  BY TablesAre
<1>2. IsFiniteSet(DOMAIN Doc.vocab)
  BY SameCardinality DEF VocabularyAssumption, Loaded, Doc
<1>3. Cardinality(DOMAIN tables.idToToken) = Cardinality(DOMAIN Doc.vocab)
  BY <1>1 DEF Unambiguous
<1>4. \A t, u \in DOMAIN Doc.vocab : Doc.vocab[t] = Doc.vocab[u] => t = u
  <2>1. PICK table : table = tables.idToToken
    OBVIOUS
  <2>2. PICK entries : entries = Doc.vocab
    OBVIOUS
  <2>3. \A t, u \in DOMAIN entries : entries[t] = entries[u] => t = u
    BY <1>1, <1>2, <1>3, <2>1, <2>2, OneTokenPerId
  <2> QED
    BY <2>2, <2>3
<1>5. \A j, k \in DOMAIN Extra : Extra[j].id = Extra[k].id => Extra[j].content = Extra[k].content
  BY DEF Unambiguous, Extra, Doc
<1>6. \A k \in DOMAIN Extra : Extra[k].id \in DOMAIN tables.idToToken =>
        /\ ByteLevelDecode(tables.idToToken[Extra[k].id]) = Extra[k].content
        /\ ~Extra[k].special
  BY DEF Unambiguous, Extra, Doc
<1> QED
  BY <1>4, <1>5, <1>6

(* The id of an entry decodes to the bytes the entry stands for.           *)
LEMMA EntryDecodes ==
  ASSUME VocabularyAssumption, Loaded, Unambiguous, NEW raw \in Seq(Byte),
         ByteLevelEncode(raw) \in DOMAIN Doc.vocab
  PROVE  DecodeOne(Doc.vocab[ByteLevelEncode(raw)], FALSE) = raw
<1>1. PICK token \in DOMAIN Doc.vocab : token = ByteLevelEncode(raw)
  OBVIOUS
<1>2. PICK id : id = Doc.vocab[token]
  OBVIOUS
<1>3. tables.idToToken \in IdToTokens(Doc.vocab)
  BY TablesAre
<1>4. id \in DOMAIN tables.idToToken
  BY <1>2, EntryIds
<1>5. tables.idToToken[id] = token
  <2>1. tables.idToToken[id] \in DOMAIN Doc.vocab /\ Doc.vocab[tables.idToToken[id]] = id
    BY <1>3, <1>4, NamesAreNamed
  <2> QED
    BY <1>2, <2>1, UnambiguousMeans
<1>6. ByteLevelDecode(token) = raw
  BY <1>1, EncodeThenDecode
<1>7. CASE id \notin DOMAIN tables.addedById
  <2>1. DecodeOne(id, FALSE) = ByteLevelDecode(tables.idToToken[id])
    BY <1>7 DEF DecodeOne
  <2> QED
    BY <1>1, <1>2, <1>5, <1>6, <2>1
<1>8. CASE id \in DOMAIN tables.addedById
  <2>1. tables.addedById = AddedById(Extra)
    BY TablesAre
  <2>2. \A x \in DOMAIN AddedById(Extra) : \E k \in DOMAIN Extra :
          Extra[k].id = x /\ AddedById(Extra)[x] = Extra[k].content
    <3>1. DOMAIN Extra \in SUBSET Nat
      BY ExtraFacts DEF Loaded
    <3> QED
      BY <3>1, AddedTables
  <2>3. PICK k \in DOMAIN Extra : Extra[k].id = id /\ tables.addedById[id] = Extra[k].content
    BY <1>8, <2>1, <2>2
  <2>4. ByteLevelDecode(tables.idToToken[id]) = Extra[k].content
    BY <1>4, <2>3, UnambiguousMeans
  <2>5. DecodeOne(id, FALSE) = tables.addedById[id]
    BY <1>8 DEF DecodeOne
  <2> QED
    BY <1>1, <1>2, <1>5, <1>6, <2>3, <2>4, <2>5
<1> QED
  BY <1>7, <1>8

LEMMA ContentDecodes ==
  ASSUME VocabularyAssumption, Loaded, Unambiguous,
         NEW content \in DOMAIN tables.addedByContent
  PROVE  DecodeOne(tables.addedByContent[content], FALSE) = content
<1>1. PICK id : id = tables.addedByContent[content]
  OBVIOUS
<1>2. id \in DOMAIN tables.addedById
  BY <1>1, ContentIds
<1>3. PICK k \in DOMAIN Extra : Extra[k].content = content /\ Extra[k].id = id
  BY <1>1, ContentIds
<1>4. tables.addedById = AddedById(Extra)
  BY TablesAre
<1>5. \A x \in DOMAIN AddedById(Extra) : \E j \in DOMAIN Extra :
        Extra[j].id = x /\ AddedById(Extra)[x] = Extra[j].content
  <2>1. DOMAIN Extra \in SUBSET Nat
    BY ExtraFacts DEF Loaded
  <2> QED
    BY <2>1, AddedTables
<1>6. PICK j \in DOMAIN Extra : Extra[j].id = id /\ tables.addedById[id] = Extra[j].content
  BY <1>2, <1>4, <1>5
<1>7. Extra[j].content = content
  BY <1>3, <1>6, UnambiguousMeans
<1>8. DecodeOne(id, FALSE) = tables.addedById[id]
  BY <1>2 DEF DecodeOne
<1> QED
  BY <1>1, <1>6, <1>7, <1>8

LEMMA EntryIsOrdinary ==
  ASSUME VocabularyAssumption, Loaded, Unambiguous, NEW id \in DOMAIN tables.idToToken
  PROVE  DecodeOne(id, TRUE) = DecodeOne(id, FALSE)
<1>1. id \notin tables.specialIds
  <2>1. tables.specialIds = {Extra[k].id : k \in {j \in DOMAIN Extra : Extra[j].special}}
    BY TablesAre
  <2>2. \A k \in DOMAIN Extra : Extra[k].id = id => ~Extra[k].special
    BY UnambiguousMeans
  <2> QED
    BY <2>1, <2>2
<1>2. id \in KnownIds
  BY DEF KnownIds
<1> QED
  BY <1>1, <1>2, DecodeOneFacts

(* The marker is one of its two names.                                     *)
LEMMA BosDecodes ==
  ASSUME VocabularyAssumption, Loaded, ~(tables.bosId < 0)
  PROVE  /\ tables.bosId \in KnownIds
         /\ Unambiguous =>
              \E k \in DOMAIN BosNames : /\ DecodeOne(tables.bosId, FALSE) = BosNames[k]
                                         /\ BosNames[k] \in Seq(Nat) /\ BosNames[k] # << >>
<1> DEFINE byContent == tables.addedByContent
           known == {k \in DOMAIN BosNames :
                       BosNames[k] \in DOMAIN byContent \/ BosNames[k] \in DOMAIN Doc.vocab}
           name == BosNames[Min(known)]
<1>1. tables.bosId = IF known = {} THEN -1
                     ELSE IF name \in DOMAIN byContent THEN byContent[name] ELSE Doc.vocab[name]
  BY TablesAre DEF BosId
<1>2. known # {}
  <2> SUFFICES ASSUME known = {} PROVE FALSE
    OBVIOUS
  <2>1. tables.bosId = -1
    BY <1>1
  <2> QED
    BY <2>1
<1>3. BosNames \in Seq(Seq(33 .. 126) \ {<< >>})
  BY DEF VocabularyAssumption
<1>4. \A k \in DOMAIN BosNames : k \in Nat /\ BosNames[k] \in Seq(33 .. 126) /\ BosNames[k] # << >>
  <2>1. PICK n \in Nat : n = Len(BosNames)
    BY <1>3, LenProperties
  <2>2. DOMAIN BosNames = 1 .. n
    BY <1>3, <2>1, LenProperties
  <2>3. \A k \in 1 .. n : BosNames[k] \in Seq(33 .. 126) \ {<< >>}
    BY <1>3, <2>1, ElementOfSeq
  <2> QED
    BY <2>2, <2>3
<1>5. Min(known) \in known
  <2>1. known \in SUBSET Nat
    BY <1>4
  <2> HIDE DEF known
  <2> QED
    BY <1>2, <2>1, MinFacts
<1> HIDE DEF known
<1>6. PICK k \in DOMAIN BosNames : k = Min(known) /\ name = BosNames[k]
        /\ (BosNames[k] \in DOMAIN byContent \/ BosNames[k] \in DOMAIN Doc.vocab)
  BY <1>5 DEF known
<1> HIDE DEF name
<1>7. name \in Seq(33 .. 126) /\ name # << >>
  BY <1>4, <1>6
<1>8. name \in Seq(Byte) /\ ByteLevelEncode(name) = name
  BY <1>7, AsciiDecodes
<1>9. name \in Seq(Nat)
  BY <1>8, BytesAreNumbers
<1>10. CASE name \in DOMAIN byContent
  <2>1. tables.bosId = byContent[name]
    BY <1>1, <1>2, <1>10
  <2>2. tables.bosId \in DOMAIN tables.addedById
    BY <1>10, <2>1, ContentIds
  <2>3. Unambiguous => DecodeOne(tables.bosId, FALSE) = name
    BY <1>10, <2>1, ContentDecodes
  <2> QED
    BY <1>6, <1>7, <1>9, <2>2, <2>3 DEF KnownIds
<1>11. CASE name \notin DOMAIN byContent
  <2>1. tables.bosId = Doc.vocab[name] /\ name \in DOMAIN Doc.vocab
    BY <1>1, <1>2, <1>6, <1>11
  <2>2. tables.bosId \in DOMAIN tables.idToToken
    BY <2>1, EntryIds
  <2>3. Unambiguous => DecodeOne(tables.bosId, FALSE) = name
    BY <1>8, <2>1, EntryDecodes
  <2> QED
    BY <1>6, <1>7, <1>9, <2>2, <2>3 DEF KnownIds
<1> QED
  BY <1>10, <1>11

-----------------------------------------------------------------------------
(***************************************************************************)
(* The pretokens: each at least a codepoint, and none past the end.        *)
(***************************************************************************)
LEMMA RunEndFacts ==
  ASSUME NEW cps, NEW n \in Nat, n = Len(cps), NEW i \in 1 .. n + 1, NEW class
  PROVE  RunEnd(cps, i, class) \in i .. n + 1
<1> DEFINE Out(k) == ~IsOf(class, cps[k].value)
           S == {e \in i .. n + 1 : e <= n => Out(e)}
<1>1. S \in SUBSET Nat /\ n + 1 \in S
  OBVIOUS
<1>2. PICK e \in S : \A y \in S : e <= y
  <2> HIDE DEF S
  <2> QED
    BY <1>1, LeastNat
<1>3. e \in i .. n + 1 /\ (e <= n => Out(e))
  OBVIOUS
<1>4. \A k \in i .. e - 1 : IsOf(class, cps[k].value)
  <2> SUFFICES ASSUME NEW k \in i .. e - 1, Out(k) PROVE FALSE
    OBVIOUS
  <2>1. k \in S
    BY <1>3
  <2>2. e <= k
    BY <1>2, <2>1
  <2> QED
    BY <1>3, <2>2
<1> HIDE DEF S
<1>5. \E x \in i .. Len(cps) + 1 :
        /\ \A k \in i .. x - 1 : IsOf(class, cps[k].value)
        /\ x <= Len(cps) => ~IsOf(class, cps[x].value)
  BY <1>3, <1>4
<1>6. RunEnd(cps, i, class) \in i .. Len(cps) + 1
  BY <1>5 DEF RunEnd
<1> QED
  BY <1>6

LEMMA LedRunEndFacts ==
  ASSUME NEW cps, NEW n \in Nat, n = Len(cps), NEW i \in 1 .. n, NEW lead, NEW class
  PROVE  LedRunEnd(cps, i, lead, class) \in i .. n + 1
<1>1. i \in 1 .. n + 1 /\ i + 1 \in 1 .. n + 1
  OBVIOUS
<1>2. PICK a \in i .. n + 1 : a = RunEnd(cps, i, class)
  BY <1>1, RunEndFacts
<1>3. PICK b \in i + 1 .. n + 1 : b = RunEnd(cps, i + 1, class)
  BY <1>1, RunEndFacts
<1>4. LedRunEnd(cps, i, lead, class) = b \/ LedRunEnd(cps, i, lead, class) = a
  BY <1>2, <1>3 DEF LedRunEnd
<1> QED
  BY <1>4

LEMMA MatchesBounded ==
  ASSUME NEW cps, NEW n \in Nat, n = Len(cps), NEW i \in 1 .. n
  PROVE  /\ MatchContraction(cps, i) \in 0 .. n + 1 - i
         /\ MatchWord(cps, i) \in 0 .. n + 1 - i
         /\ MatchDigits(cps, i) \in 0 .. n + 1 - i
         /\ MatchPunctuation(cps, i) \in 0 .. n + 1 - i
         /\ MatchLineBreak(cps, i) \in 0 .. n + 1 - i
         /\ MatchTrailingWhitespace(cps, i) \in 0 .. n + 1 - i
         /\ MatchWhitespace(cps, i) \in 0 .. n + 1 - i
<1>1. i \in 1 .. n + 1
  OBVIOUS
<1>2. MatchContraction(cps, i) \in 0 .. n + 1 - i
  <2> DEFINE At(k) == IF k <= Len(cps) THEN AsciiLower(cps[k].value) ELSE 0
  <2>1. At(i + 1) \in {115, 116, 109, 100} => i + 1 <= n
    OBVIOUS
  <2>2. <<At(i + 1), At(i + 2)>> \in {<<114, 101>>, <<118, 101>>, <<108, 108>>} => i + 2 <= n
    <3> SUFFICES ASSUME At(i + 2) \in {101, 108} PROVE i + 2 <= n
      OBVIOUS
    <3> QED
      OBVIOUS
  <2>3. \/ MatchContraction(cps, i) = 0
        \/ MatchContraction(cps, i) = 2 /\ At(i + 1) \in {115, 116, 109, 100}
        \/ /\ MatchContraction(cps, i) = 3
           /\ <<At(i + 1), At(i + 2)>> \in {<<114, 101>>, <<118, 101>>, <<108, 108>>}
    BY DEF MatchContraction
  <2> HIDE DEF At
  <2> QED
    BY <2>1, <2>2, <2>3
<1>3. MatchWord(cps, i) \in 0 .. n + 1 - i
  <2>1. PICK e \in i .. n + 1 : e = LedRunEnd(cps, i, "prefix", "letter")
    BY LedRunEndFacts
  <2>2. e - i \in 0 .. n + 1 - i
    OBVIOUS
  <2> QED
    BY <2>1, <2>2 DEF MatchWord
<1>4. MatchDigits(cps, i) \in 0 .. n + 1 - i
  <2>1. PICK e \in i .. n + 1 : e = RunEnd(cps, i, "number")
    BY <1>1, RunEndFacts
  <2>2. (IF e - i < 3 THEN e - i ELSE 3) \in 0 .. n + 1 - i
    OBVIOUS
  <2> QED
    BY <2>1, <2>2 DEF MatchDigits
<1>5. MatchPunctuation(cps, i) \in 0 .. n + 1 - i
  <2>1. PICK s \in i .. n + 1 : s = LedRunEnd(cps, i, "space", "symbol")
    BY LedRunEndFacts
  <2>2. s \in 1 .. n + 1
    OBVIOUS
  <2>3. PICK e \in s .. n + 1 : e = RunEnd(cps, s, "line break")
    BY <2>2, RunEndFacts
  <2>4. (IF s = i THEN 0 ELSE e - i) \in 0 .. n + 1 - i
    OBVIOUS
  <2> QED
    BY <2>1, <2>3, <2>4 DEF MatchPunctuation
<1>6. PICK e \in i .. n + 1 : e = RunEnd(cps, i, "whitespace")
  BY <1>1, RunEndFacts
<1>7. MatchLineBreak(cps, i) \in 0 .. n + 1 - i
  <2> DEFINE breaks == {k \in i .. e - 1 : IsLineBreak(cps[k].value)}
  <2>1. MatchLineBreak(cps, i) = IF breaks = {} THEN 0 ELSE 1 + Max(breaks) - i
    BY <1>6 DEF MatchLineBreak
  <2>2. breaks \subseteq i .. e - 1
    OBVIOUS
  <2> HIDE DEF breaks
  <2>3. CASE breaks = {}
    BY <2>1, <2>3
  <2>4. CASE breaks # {}
    <3>1. breaks \in SUBSET Nat /\ \A y \in breaks : y <= n
      BY <2>2
    <3>2. \E x \in breaks : \A y \in breaks : y <= x
      BY <2>4, <3>1, GreatestNat
    <3>3. \E x \in breaks : \A y \in breaks : x >= y
      BY <3>1, <3>2
    <3>4. Max(breaks) \in breaks
      BY <3>3 DEF Max
    <3>5. PICK m \in i .. e - 1 : m = Max(breaks)
      BY <2>2, <3>4
    <3>6. 1 + m - i \in 0 .. n + 1 - i
      OBVIOUS
    <3> QED
      BY <2>1, <2>4, <3>5, <3>6
  <2> QED
    BY <2>3, <2>4
<1>8. MatchTrailingWhitespace(cps, i) \in 0 .. n + 1 - i
  <2>1. PICK run \in 0 .. n + 1 - i : run = e - i
    <3>1. e - i \in 0 .. n + 1 - i
      OBVIOUS
    <3> QED
      BY <3>1
  <2>2. \/ MatchTrailingWhitespace(cps, i) = run
        \/ MatchTrailingWhitespace(cps, i) = run - 1 /\ run >= 2
        \/ MatchTrailingWhitespace(cps, i) = 0
    BY <1>6, <2>1 DEF MatchTrailingWhitespace
  <2> QED
    BY <2>2
<1>9. MatchWhitespace(cps, i) \in 0 .. n + 1 - i
  <2>1. e - i \in 0 .. n + 1 - i
    OBVIOUS
  <2> QED
    BY <1>6, <2>1 DEF MatchWhitespace
<1> QED
  BY <1>2, <1>3, <1>4, <1>5, <1>7, <1>8, <1>9

LEMMA TakenBounded ==
  ASSUME NEW cps, NEW n \in Nat, n = Len(cps), NEW i \in 1 .. n
  PROVE  Taken(cps, i) \in 1 .. n + 1 - i
<1> DEFINE lengths == <<MatchContraction(cps, i), MatchWord(cps, i),
                        MatchDigits(cps, i), MatchPunctuation(cps, i),
                        MatchLineBreak(cps, i), MatchTrailingWhitespace(cps, i),
                        MatchWhitespace(cps, i)>>
           matched == {k \in DOMAIN lengths : lengths[k] > 0}
<1>1. Taken(cps, i) = IF matched = {} THEN 1 ELSE lengths[Min(matched)]
  BY DEF Taken
<1>2. DOMAIN lengths = 1 .. 7 /\ \A k \in 1 .. 7 : lengths[k] \in 0 .. n + 1 - i
  <2>1. lengths \in Seq(0 .. n + 1 - i) /\ Len(lengths) = 7
    BY MatchesBounded
  <2> HIDE DEF lengths
  <2>2. DOMAIN lengths = 1 .. 7
    BY <2>1, LenProperties
  <2> QED
    BY <2>1, <2>2, ElementOfSeq
<1> HIDE DEF lengths
<1>3. CASE matched = {}
  <2>1. 1 \in 1 .. n + 1 - i
    OBVIOUS
  <2> QED
    BY <1>1, <1>3, <2>1
<1>4. CASE matched # {}
  <2>1. matched \in SUBSET Nat
    BY <1>2
  <2>2. Min(matched) \in matched
    <3> HIDE DEF matched
    <3> QED
      BY <1>4, <2>1, MinFacts
  <2>3. PICK k \in 1 .. 7 : k = Min(matched) /\ lengths[k] > 0
    BY <1>2, <2>2
  <2>4. lengths[k] \in 1 .. n + 1 - i
    BY <1>2, <2>3
  <2> QED
    BY <1>1, <1>4, <2>3, <2>4
<1> QED
  BY <1>3, <1>4

(* Where the codepoints of a text end: one after the other, the first at   *)
(* its start and the last at its end.                                      *)
ByteEnd(chunk, k) ==
  IF k <= Len(DecodeUtf8(chunk)) THEN DecodeUtf8(chunk)[k].offset - 1 ELSE Len(chunk)

LEMMA ByteEndFacts ==
  ASSUME NEW chunk \in Seq(Nat), NEW n, n = Len(DecodeUtf8(chunk))
  PROVE  /\ n \in Nat /\ ByteEnd(chunk, 1) = 0 /\ ByteEnd(chunk, n + 1) = Len(chunk)
         /\ \A k \in 1 .. n + 1 : ByteEnd(chunk, k) \in 0 .. Len(chunk)
         /\ \A k \in 1 .. n : DecodeUtf8(chunk)[k].offset = ByteEnd(chunk, k) + 1
         /\ \A j, k \in 1 .. n + 1 : j < k => ByteEnd(chunk, j) < ByteEnd(chunk, k)
<1> DEFINE cps == DecodeUtf8(chunk)
           E(k) == ByteEnd(chunk, k)
<1>1. PICK l \in Nat : l = Len(chunk)
  BY LenProperties
<1>2. Chain(chunk, 1, cps)
  BY DecodeChain
<1>3. n \in Nat
  BY <1>2, LenProperties DEF Chain
<1>4. /\ n = 0 <=> 1 = l + 1
      /\ n > 0 => cps[1].offset = 1
      /\ \A k \in 1 .. n : /\ cps[k].offset \in 1 .. l
                           /\ CodepointAt(chunk, cps[k].offset).after =
                                IF k = n THEN l + 1 ELSE cps[k + 1].offset
  <2>1. cps \in Seq([value : Nat, offset : 1 .. l])
    BY <1>1, <1>2 DEF Chain
  <2>2. \A k \in 1 .. n : cps[k] \in [value : Nat, offset : 1 .. l]
    BY <2>1, ElementOfSeq
  <2>3. \A k \in 1 .. n : cps[k].offset \in 1 .. l
    BY <2>2
  <2>4. /\ n = 0 <=> 1 = l + 1
        /\ n > 0 => cps[1].offset = 1
        /\ \A k \in 1 .. n : CodepointAt(chunk, cps[k].offset).after =
                               IF k = n THEN l + 1 ELSE cps[k + 1].offset
    BY <1>1, <1>2 DEF Chain
  <2> QED
    BY <2>3, <2>4
<1>5. (\A k \in 1 .. n : E(k) = cps[k].offset - 1) /\ E(n + 1) = l
  BY <1>1, <1>3 DEF ByteEnd
<1> HIDE DEF cps, E
<1>6. \A k \in 1 .. n + 1 : E(k) \in 0 .. l
  <2> TAKE k \in 1 .. n + 1
  <2>1. CASE k = n + 1
    BY <1>5, <2>1
  <2>2. CASE k # n + 1
    <3>1. k \in 1 .. n
      BY <1>3, <2>2
    <3>2. cps[k].offset \in 1 .. l
      BY <1>4, <3>1
    <3> QED
      BY <1>5, <3>1, <3>2
  <2> QED
    BY <2>1, <2>2
<1>7. E(1) = 0
  <2>1. CASE n = 0
    <3>1. l = 0
      BY <1>4, <2>1
    <3> QED
      BY <1>5, <2>1, <3>1
  <2>2. CASE n # 0
    <3>1. 1 \in 1 .. n /\ cps[1].offset = 1
      BY <1>3, <1>4, <2>2
    <3> QED
      BY <1>5, <3>1
  <2> QED
    BY <2>1, <2>2
<1>8. \A k \in 1 .. n : E(k) < E(k + 1)
  <2> TAKE k \in 1 .. n
  <2>1. PICK o \in 1 .. l : o = cps[k].offset
    BY <1>4
  <2>2. PICK a \in o + 1 .. l + 1 : a = CodepointAt(chunk, o).after
    <3>1. o \in 1 .. Len(chunk)
      BY <1>1
    <3>2. CodepointAt(chunk, o).after \in o + 1 .. Len(chunk) + 1
      BY <3>1, CodepointFacts
    <3> QED
      BY <1>1, <3>2
  <2>3. E(k) = o - 1
    BY <1>5, <2>1
  <2>4. E(k + 1) = a - 1
    <3>1. CASE k = n
      <4>1. a = l + 1
        BY <1>4, <2>1, <2>2, <3>1
      <4> QED
        BY <1>5, <3>1, <4>1
    <3>2. CASE k # n
      <4>1. a = cps[k + 1].offset /\ k + 1 \in 1 .. n
        BY <1>3, <1>4, <2>1, <2>2, <3>2
      <4> QED
        BY <1>5, <4>1
    <3> QED
      BY <3>1, <3>2
  <2> QED
    BY <2>3, <2>4
<1>9. \A j, k \in 1 .. n + 1 : j < k => E(j) < E(k)
  <2> TAKE j \in 1 .. n + 1
  <2> DEFINE D == {d \in Nat : (j + d) + 1 <= n + 1 => E(j) < E((j + d) + 1)}
  <2>1. 0 \in D
    <3> SUFFICES ASSUME j + 0 + 1 <= n + 1 PROVE E(j) < E((j + 0) + 1)
      OBVIOUS
    <3>1. j \in 1 .. n /\ (j + 0) + 1 = j + 1
      BY <1>3
    <3> QED
      BY <1>8, <3>1
  <2>2. ASSUME NEW d \in D PROVE d + 1 \in D
    <3> SUFFICES ASSUME (j + (d + 1)) + 1 <= n + 1 PROVE E(j) < E((j + (d + 1)) + 1)
      OBVIOUS
    <3>1. PICK m \in 1 .. n : m = (j + d) + 1 /\ (j + (d + 1)) + 1 = m + 1
      <4>1. (j + d) + 1 \in 1 .. n /\ (j + (d + 1)) + 1 = ((j + d) + 1) + 1
        BY <1>3
      <4> QED
        BY <4>1
    <3>2. E(j) < E(m)
      BY <3>1
    <3>3. E(m) < E(m + 1)
      BY <1>8
    <3>4. E(j) \in Nat /\ E(m) \in Nat /\ E(m + 1) \in Nat
      <4>1. j \in 1 .. n + 1 /\ m \in 1 .. n + 1 /\ m + 1 \in 1 .. n + 1
        BY <1>3
      <4> QED
        BY <1>6, <4>1
    <3> QED
      BY <3>1, <3>2, <3>3, <3>4
  <2> HIDE DEF D
  <2>3. D = Nat
    <3>1. D \in SUBSET Nat
      BY DEF D
    <3> QED
      BY <2>1, <2>2, <3>1, Induct
  <2> TAKE k \in 1 .. n + 1
  <2> SUFFICES ASSUME j < k PROVE E(j) < E(k)
    OBVIOUS
  <2>4. PICK d \in Nat : d = k - j - 1 /\ (j + d) + 1 = k
    <3>1. k - j - 1 \in Nat /\ (j + (k - j - 1)) + 1 = k
      BY <1>3
    <3> QED
      BY <3>1
  <2>5. d \in D
    BY <2>3
  <2> QED
    BY <2>4, <2>5 DEF D
<1>10. \A k \in 1 .. n : cps[k].offset = E(k) + 1
  BY <1>4, <1>5
<1> QED
  BY <1>1, <1>3, <1>5, <1>6, <1>7, <1>9, <1>10 DEF E, cps
-----------------------------------------------------------------------------
(* Decoding tokens one after the other.                                    *)
LEMMA PrefixGrows ==
  ASSUME NEW S, NEW s \in Seq(S), NEW k \in Nat, k + 1 <= Len(s)
  PROVE  /\ SubSeq(s, 1, k) \in Seq(S) /\ s[k + 1] \in S
         /\ SubSeq(s, 1, k + 1) = Append(SubSeq(s, 1, k), s[k + 1])
<1>1. PICK n \in Nat : n = Len(s)
  BY LenProperties
<1>2. k \in 0 .. n /\ k + 1 \in 1 .. n /\ k + 1 \in 0 .. n
  BY <1>1
<1>3. SubSeq(s, 1, k) \in Seq(S) /\ Len(SubSeq(s, 1, k)) = k
  BY <1>1, <1>2, CutInTwo
<1>4. SubSeq(s, 1, k + 1) \in Seq(S) /\ Len(SubSeq(s, 1, k + 1)) = k + 1
  BY <1>1, <1>2, CutInTwo
<1>5. s[k + 1] \in S
  BY <1>1, <1>2, ElementOfSeq
<1>6. Append(SubSeq(s, 1, k), s[k + 1]) \in Seq(S)
  BY <1>3, <1>5
<1>7. \A j \in 1 .. k + 1 : SubSeq(s, 1, k + 1)[j] = Append(SubSeq(s, 1, k), s[k + 1])[j]
  BY <1>1, <1>2, <1>3, <1>5
<1>8. Len(Append(SubSeq(s, 1, k), s[k + 1])) = k + 1
  BY <1>3, <1>5
<1> QED
  BY <1>3, <1>4, <1>5, <1>6, <1>7, <1>8, SeqEqual

Images(s, skip) == [k \in DOMAIN s |-> DecodeOne(s[k].id, skip)]

LEMMA ImagesFacts ==
  ASSUME VocabularyAssumption, Loaded, NEW s \in Seq(Tokens), NEW skip \in BOOLEAN
  PROVE  /\ Images(s, skip) \in Seq(Seq(Nat)) /\ Len(Images(s, skip)) = Len(s)
         /\ \A k \in 1 .. Len(s) : Images(s, skip)[k] = DecodeOne(s[k].id, skip)
         /\ Decode(s, skip) = FlattenSeq(Images(s, skip))
<1>1. PICK n \in Nat : n = Len(s) /\ DOMAIN s = 1 .. n
  BY LenProperties
<1>2. \A k \in 1 .. n : s[k].id \in KnownIds
  <2> TAKE k \in 1 .. n
  <2>1. s[k] \in Tokens
    BY <1>1, ElementOfSeq
  <2> QED
    BY <2>1 DEF Tokens
<1>3. \A k \in 1 .. n : DecodeOne(s[k].id, skip) \in Seq(Nat)
  <2> TAKE k \in 1 .. n
  <2>1. s[k].id \in KnownIds
    BY <1>2
  <2>2. DecodeOne(s[k].id, FALSE) \in Seq(Nat) /\ DecodeOne(s[k].id, TRUE) \in Seq(Nat)
    BY <2>1, DecodeOneFacts
  <2>3. CASE skip = TRUE
    BY <2>2, <2>3
  <2>4. CASE skip = FALSE
    BY <2>2, <2>4
  <2> QED
    BY <2>3, <2>4
<1>4. Images(s, skip) = [k \in 1 .. n |-> DecodeOne(s[k].id, skip)]
  BY <1>1 DEF Images
<1>5. Images(s, skip) \in Seq(Seq(Nat)) /\ Len(Images(s, skip)) = n
  BY <1>3, <1>4
<1>6. Decode(s, skip) = FlattenSeq(Images(s, skip))
  BY DEF Images, Decode
<1> QED
  BY <1>1, <1>4, <1>5, <1>6

LEMMA DecodeAppend ==
  ASSUME VocabularyAssumption, Loaded, NEW s \in Seq(Tokens), NEW x \in Tokens,
         NEW skip \in BOOLEAN
  PROVE  /\ Decode(s, skip) \in Seq(Nat) /\ DecodeOne(x.id, skip) \in Seq(Nat)
         /\ Decode(Append(s, x), skip) = Decode(s, skip) \o DecodeOne(x.id, skip)
<1>1. PICK n \in Nat : n = Len(s)
  BY LenProperties
<1> DEFINE u == Append(s, x)
<1>2. u \in Seq(Tokens) /\ Len(u) = n + 1 /\ u[n + 1] = x /\ \A k \in 1 .. n : u[k] = s[k]
  BY <1>1
<1> HIDE DEF u
<1>3. Images(s, skip) \in Seq(Seq(Nat)) /\ Len(Images(s, skip)) = n
  BY <1>1, ImagesFacts
<1>3a. \A k \in 1 .. n : Images(s, skip)[k] = DecodeOne(s[k].id, skip)
  BY <1>1, ImagesFacts
<1>3b. Decode(s, skip) = FlattenSeq(Images(s, skip))
  BY ImagesFacts
<1>4. Images(u, skip) \in Seq(Seq(Nat)) /\ Len(Images(u, skip)) = n + 1
  BY <1>2, ImagesFacts
<1>4a. \A k \in 1 .. n + 1 : Images(u, skip)[k] = DecodeOne(u[k].id, skip)
  BY <1>2, ImagesFacts
<1>4b. Decode(u, skip) = FlattenSeq(Images(u, skip))
  BY <1>2, ImagesFacts
<1> DEFINE y == DecodeOne(x.id, skip)
<1>5. Images(u, skip)[n + 1] = y
  BY <1>2, <1>4a
<1>6. y \in Seq(Nat)
  BY <1>4, <1>5
<1> HIDE DEF y
<1>7. Images(u, skip) = Append(Images(s, skip), y)
  <2>1. Append(Images(s, skip), y) \in Seq(Seq(Nat)) /\ Len(Append(Images(s, skip), y)) = n + 1
    BY <1>3, <1>6
  <2>2. \A k \in 1 .. n : Images(u, skip)[k] = Images(s, skip)[k]
    <3> TAKE k \in 1 .. n
    <3>1. k \in 1 .. n + 1 /\ u[k] = s[k]
      BY <1>2
    <3> QED
      BY <1>3a, <1>4a, <3>1, Zenon
  <2>3. \A k \in 1 .. n + 1 : Append(Images(s, skip), y)[k] =
          IF k = n + 1 THEN y ELSE Images(s, skip)[k]
    BY <1>3, <1>6
  <2>4. \A k \in 1 .. n + 1 : k = n + 1 \/ k \in 1 .. n
    OBVIOUS
  <2>5. \A k \in 1 .. n + 1 : Images(u, skip)[k] = Append(Images(s, skip), y)[k]
    BY <1>5, <2>2, <2>3, <2>4, Zenon
  <2> QED
    BY <1>4, <2>1, <2>5, SeqEqual
<1>8. /\ FlattenSeq(Images(s, skip)) \in Seq(Nat)
      /\ FlattenSeq(Append(Images(s, skip), y)) = FlattenSeq(Images(s, skip)) \o y
  BY <1>3, <1>6, FlattenFacts
<1> QED
  BY <1>3b, <1>4b, <1>6, <1>7, <1>8 DEF u, y

LEMMA DecodeNone ==
  ASSUME VocabularyAssumption, Loaded, NEW skip \in BOOLEAN
  PROVE  Decode(<< >>, skip) = << >>
<1>1. << >> \in Seq(Tokens)
  OBVIOUS
<1>2. Images(<< >>, skip) \in Seq(Seq(Nat)) /\ Len(Images(<< >>, skip)) = Len(<< >>)
  BY <1>1, ImagesFacts
<1>2a. Decode(<< >>, skip) = FlattenSeq(Images(<< >>, skip))
  BY <1>1, ImagesFacts
<1>3. Images(<< >>, skip) = << >>
  BY <1>2, EmptySeq
<1> QED
  BY <1>2a, <1>3, FlattenNone

LEMMA DecodeSingle ==
  ASSUME VocabularyAssumption, Loaded, NEW x \in Tokens, NEW skip \in BOOLEAN
  PROVE  Decode(<<x>>, skip) = DecodeOne(x.id, skip)
<1>1. << >> \in Seq(Tokens)
  OBVIOUS
<1>4. Decode(<< >>, skip) = << >>
  BY DecodeNone
<1>5. /\ DecodeOne(x.id, skip) \in Seq(Nat)
      /\ Decode(Append(<< >>, x), skip) = Decode(<< >>, skip) \o DecodeOne(x.id, skip)
  BY <1>1, DecodeAppend
<1>6. Append(<< >>, x) = <<x>>
  OBVIOUS
<1>7. << >> \o DecodeOne(x.id, skip) = DecodeOne(x.id, skip)
  BY <1>5, ConcatEmptySeq
<1> QED
  BY <1>4, <1>5, <1>6, <1>7

(* The first tokens decode to the start of what all of them decode to.     *)
LEMMA DecodePrefix ==
  ASSUME VocabularyAssumption, Loaded, NEW s \in Seq(Tokens), NEW skip \in BOOLEAN,
         NEW f \in Nat, f <= Len(s)
  PROVE  \E z \in Seq(Nat) : Decode(s, skip) = Decode(SubSeq(s, 1, f), skip) \o z
<1> DEFINE A(k) == Decode(SubSeq(s, 1, k), skip)
           After(k) == \E z \in Seq(Nat) : A(k) = A(f) \o z
           D == {j \in Nat : f + j <= Len(s) => After(f + j)}
<1>1. PICK n \in Nat : n = Len(s)
  BY LenProperties
<1>2. \A k \in 0 .. n : SubSeq(s, 1, k) \in Seq(Tokens)
  BY <1>1, CutInTwo
<1>3. \A k \in 0 .. n : A(k) \in Seq(Nat)
  <2> TAKE k \in 0 .. n
  <2>1. SubSeq(s, 1, k) \in Seq(Tokens)
    BY <1>2
  <2>2. Images(SubSeq(s, 1, k), skip) \in Seq(Seq(Nat))
    BY <2>1, ImagesFacts
  <2>3. Decode(SubSeq(s, 1, k), skip) = FlattenSeq(Images(SubSeq(s, 1, k), skip))
    BY <2>1, ImagesFacts
  <2> QED
    BY <2>2, <2>3, FlattenFacts, EmptySeq
<1>4. 0 \in D
  <2>1. f + 0 = f /\ f \in 0 .. n
    BY <1>1
  <2>2. A(f) \in Seq(Nat)
    BY <1>3, <2>1
  <2> HIDE DEF A
  <2>3. A(f) = A(f) \o << >>
    BY <2>2, ConcatEmptySeq
  <2>4. << >> \in Seq(Nat)
    OBVIOUS
  <2> QED
    BY <2>1, <2>3, <2>4
<1>5. ASSUME NEW j \in D PROVE j + 1 \in D
  <2> HIDE DEF After
  <2> SUFFICES ASSUME f + (j + 1) <= Len(s) PROVE After(f + (j + 1))
    OBVIOUS
  <2>0. PICK k \in Nat : k = f + j /\ f + (j + 1) = k + 1 /\ k <= n /\ k + 1 <= n /\ k \in 0 .. n
    BY <1>1
  <2>1a. After(k)
    BY <1>1, <2>0
  <2>1. PICK z \in Seq(Nat) : A(k) = A(f) \o z
    BY <2>1a DEF After
  <2>2. SubSeq(s, 1, k) \in Seq(Tokens) /\ s[k + 1] \in Tokens
        /\ SubSeq(s, 1, k + 1) = Append(SubSeq(s, 1, k), s[k + 1])
    BY <1>1, <2>0, PrefixGrows
  <2>3. PICK x \in Tokens : x = s[k + 1]
    BY <2>2
  <2>4. /\ DecodeOne(x.id, skip) \in Seq(Nat)
        /\ Decode(Append(SubSeq(s, 1, k), x), skip) =
             Decode(SubSeq(s, 1, k), skip) \o DecodeOne(x.id, skip)
    BY <2>2, DecodeAppend
  <2>5. A(k + 1) = A(k) \o DecodeOne(x.id, skip)
    BY <2>2, <2>3, <2>4
  <2>6. A(f) \in Seq(Nat)
    BY <1>1, <1>3
  <2> HIDE DEF A, D
  <2>6a. (A(f) \o z) \o DecodeOne(x.id, skip) = A(f) \o (z \o DecodeOne(x.id, skip))
    <3>1. PICK a \in Seq(Nat) : a = A(f)
      BY <2>6
    <3>2. PICK d \in Seq(Nat) : d = DecodeOne(x.id, skip)
      BY <2>4
    <3>3. (a \o z) \o d = a \o (z \o d)
      BY ONLY a \in Seq(Nat), z \in Seq(Nat), d \in Seq(Nat), SMTT(60)
    <3> QED
      BY <3>1, <3>2, <3>3
  <2>7. A(k + 1) = A(f) \o (z \o DecodeOne(x.id, skip))
    BY <2>1, <2>5, <2>6a
  <2>8. z \o DecodeOne(x.id, skip) \in Seq(Nat)
    BY <2>4
  <2>9. After(k + 1)
    BY <2>7, <2>8 DEF After
  <2> QED
    BY <2>0, <2>9
<1>6. D \in SUBSET Nat
  OBVIOUS
<1> HIDE DEF D
<1>7. D = Nat
  BY <1>4, <1>5, <1>6, Induct
<1>8. PICK j \in Nat : f + j = n
  <2>1. n - f \in Nat /\ f + (n - f) = n
    BY <1>1
  <2> QED
    BY <2>1
<1>9. SubSeq(s, 1, n) = s
  BY <1>1, SubSeqFull
<1>10. j \in D
  BY <1>7
<1> HIDE DEF After
<1>11. After(n)
  BY <1>1, <1>8, <1>10 DEF D
<1> QED
  BY <1>9, <1>11 DEF After
LEMMA DecodedBytes ==
  ASSUME VocabularyAssumption, Loaded, NEW s \in Seq(Tokens), NEW skip \in BOOLEAN
  PROVE  Decode(s, skip) \in Seq(Nat)
<1>1. Images(s, skip) \in Seq(Seq(Nat))
  BY ImagesFacts
<1>2. Decode(s, skip) = FlattenSeq(Images(s, skip))
  BY ImagesFacts
<1> QED
  BY <1>1, <1>2, FlattenFacts, EmptySeq

LEMMA AsciiLead ==
  ASSUME NEW b \in 33 .. 126
  PROVE  ~IsContinuation(b) /\ Width(b) = 1
<1>1. b \div 64 # 2
  OBVIOUS
<1>2. b \div 32 # 6 /\ b \div 16 # 14 /\ b \div 8 # 30
  OBVIOUS
<1>3. Width(b) = 1
  BY <1>2, Zenon DEF Width
<1> QED
  BY <1>1, <1>3 DEF IsContinuation

LEMMA AsciiWhole ==
  ASSUME NEW t \in Seq(Nat), \A k \in 1 .. Len(t) : t[k] \in 33 .. 126
  PROVE  Whole(t)
<1>1. PICK n \in Nat : n = Len(t)
  BY LenProperties
<1>2. ASSUME NEW i \in 0 .. n, i < n
      PROVE  /\ ~IsContinuation(t[i + 1]) /\ i + Width(t[i + 1]) \in 0 .. n
             /\ \A k \in i + 2 .. i + Width(t[i + 1]) : IsContinuation(t[k])
  <2>1. PICK k \in 1 .. n : k = i + 1
    BY <1>2
  <2>2. t[k] \in 33 .. 126
    BY <1>1
  <2>3. ~IsContinuation(t[i + 1]) /\ Width(t[i + 1]) = 1
    <3>1. PICK b \in 33 .. 126 : b = t[k]
      BY <2>2, Zenon
    <3>2. ~IsContinuation(b) /\ Width(b) = 1
      BY AsciiLead, Zenon
    <3> QED
      BY <2>1, <3>1, <3>2
  <2>4. i + 1 \in 0 .. n /\ i + 2 .. i + 1 = {}
    BY <1>2
  <2> QED
    BY <2>3, <2>4
<1>3. Bounded(t, 0 .. n)
  BY <1>1, <1>2 DEF Bounded
<1> QED
  BY <1>3 DEF Whole

LEMMA SameRest ==
  ASSUME NEW a \in Seq(Nat), NEW y \in Seq(Nat), NEW z \in Seq(Nat), a \o y = a \o z
  PROVE  y = z
<1>1. PICK n \in Nat : n = Len(a)
  BY LenProperties
<1>2. Len(y) \in Nat /\ Len(z) \in Nat
  BY LenProperties
<1>3. Len(a \o y) = n + Len(y) /\ Len(a \o z) = n + Len(z)
  BY <1>1
<1>4. Len(y) = Len(z)
  BY <1>2, <1>3
<1>5. ASSUME NEW k \in 1 .. Len(y) PROVE y[k] = z[k]
  <2>1. PICK c \in Nat : c = Len(y) /\ c = Len(z)
    BY <1>2, <1>4
  <2>2. n + k \in n + 1 .. n + c /\ n + k - n = k
    BY <2>1
  <2>3. (a \o y)[n + k] = y[k]
    BY <1>1, <2>1, <2>2
  <2>4. (a \o z)[n + k] = z[k]
    BY <1>1, <2>1, <2>2
  <2> QED
    BY <2>3, <2>4
<1> QED
  BY <1>4, <1>5, SeqEqual

(* Skipping the special tokens of a text that is well-formed leaves one.   *)
LEMMA SkippedWhole ==
  ASSUME VocabularyAssumption, Loaded, NEW s \in Seq(Tokens),
         Whole(Decode(s, FALSE))
  PROVE  Whole(Decode(s, TRUE))
<1> DEFINE A(k) == Decode(SubSeq(s, 1, k), FALSE)
           T(k) == Decode(SubSeq(s, 1, k), TRUE)
           Mixed(k) == \E z \in Seq(Nat) : Decode(s, FALSE) = A(k) \o z /\ Whole(T(k) \o z)
           D == {k \in Nat : k <= Len(s) => Mixed(k)}
<1>1. PICK n \in Nat : n = Len(s)
  BY LenProperties
<1>2. \A k \in 0 .. n : SubSeq(s, 1, k) \in Seq(Tokens)
  BY <1>1, CutInTwo
<1>3. \A k \in 0 .. n : A(k) \in Seq(Nat) /\ T(k) \in Seq(Nat)
  <2> TAKE k \in 0 .. n
  <2>1. SubSeq(s, 1, k) \in Seq(Tokens)
    BY <1>2
  <2> HIDE DEF A, T
  <2> QED
    BY <2>1, DecodedBytes DEF A, T
<1>4. 0 \in D
  <2>1. SubSeq(s, 1, 0) = << >>
    OBVIOUS
  <2>2. A(0) = << >> /\ T(0) = << >>
    BY <2>1, DecodeNone
  <2>3. Decode(s, FALSE) \in Seq(Nat)
    BY DecodedBytes
  <2> HIDE DEF A, T
  <2>4. PICK z \in Seq(Nat) : z = Decode(s, FALSE)
    BY <2>3
  <2>5. << >> \o z = z
    BY ConcatEmptySeq
  <2>6. Mixed(0)
    BY <2>2, <2>4, <2>5
  <2> QED
    BY <2>6
<1>5. ASSUME NEW k \in D PROVE k + 1 \in D
  <2> HIDE DEF Mixed
  <2> SUFFICES ASSUME k + 1 <= Len(s) PROVE Mixed(k + 1)
    OBVIOUS
  <2>1. k \in Nat /\ k \in 0 .. n /\ k + 1 \in 0 .. n
    BY <1>1
  <2>2. Mixed(k)
    BY <1>1, <2>1
  <2>3. PICK y \in Seq(Nat) : Decode(s, FALSE) = A(k) \o y /\ Whole(T(k) \o y)
    BY <2>2 DEF Mixed
  <2>4. PICK x \in Tokens : x = s[k + 1] /\ SubSeq(s, 1, k + 1) = Append(SubSeq(s, 1, k), x)
    BY <1>1, <2>1, PrefixGrows
  <2>5. SubSeq(s, 1, k) \in Seq(Tokens)
    BY <1>2, <2>1
  <2>6. PICK d \in Seq(Nat) : d = DecodeOne(x.id, FALSE)
    BY <2>5, DecodeAppend
  <2>7. PICK e \in Seq(Nat) : e = DecodeOne(x.id, TRUE)
    BY <2>5, DecodeAppend
  <2>8. Decode(Append(SubSeq(s, 1, k), x), FALSE) =
           Decode(SubSeq(s, 1, k), FALSE) \o DecodeOne(x.id, FALSE)
    BY <2>5, DecodeAppend
  <2>9. Decode(Append(SubSeq(s, 1, k), x), TRUE) =
           Decode(SubSeq(s, 1, k), TRUE) \o DecodeOne(x.id, TRUE)
    BY <2>5, DecodeAppend
  <2>10. A(k + 1) = A(k) \o d /\ T(k + 1) = T(k) \o e
    BY <2>4, <2>6, <2>7, <2>8, <2>9
  <2>11. PICK z \in Seq(Nat) : Decode(s, FALSE) = A(k + 1) \o z
    <3>1. PICK f \in Nat : f = k + 1 /\ f <= Len(s)
      BY <2>1
    <3>2. \E z \in Seq(Nat) :
            Decode(s, FALSE) = Decode(SubSeq(s, 1, f), FALSE) \o z
      BY <3>1, DecodePrefix
    <3> QED
      BY <3>1, <3>2
  <2>12. PICK a \in Seq(Nat) : a = A(k)
    BY <1>3, <2>1
  <2>13. PICK t \in Seq(Nat) : t = T(k)
    BY <1>3, <2>1
  <2> HIDE DEF A, T
  <2>14. (a \o d) \o z = a \o (d \o z) /\ d \o z \in Seq(Nat)
    BY ONLY a \in Seq(Nat), z \in Seq(Nat), d \in Seq(Nat), SMTT(60)
  <2>15. (t \o d) \o z = t \o (d \o z)
    BY ONLY t \in Seq(Nat), z \in Seq(Nat), d \in Seq(Nat), SMTT(60)
  <2>16. y = d \o z
    <3>1. a \o y = a \o (d \o z)
      BY <2>3, <2>10, <2>11, <2>12, <2>14
    <3> QED
      BY <2>14, <3>1, SameRest
  <2>17. Whole((t \o d) \o z)
    BY <2>3, <2>13, <2>15, <2>16
  <2>18. x.id \in KnownIds
    BY DEF Tokens
  <2>19. Whole((t \o e) \o z)
    <3>1. CASE e = d
      BY <2>17, <3>1
    <3>2. CASE e = << >> /\ Whole(d)
      <4>1. Whole(t \o z)
        BY <2>17, <3>2, DropMiddle
      <4>2. t \o e = t
        BY <3>2, ConcatEmptySeq
      <4> QED
        BY <4>1, <4>2
    <3>3. e = d \/ (e = << >> /\ Whole(d))
      BY <2>6, <2>7, <2>18, DecodeOneFacts
    <3> QED
      BY <3>1, <3>2, <3>3
  <2>20. Whole(T(k + 1) \o z)
    BY <2>10, <2>13, <2>19
  <2> QED
    BY <2>11, <2>20 DEF Mixed
<1>6. D \in SUBSET Nat
  OBVIOUS
<1> HIDE DEF D
<1>7. D = Nat
  BY <1>4, <1>5, <1>6, Induct
<1>8. SubSeq(s, 1, n) = s
  BY <1>1, SubSeqFull
<1>9. Mixed(n)
  <2>1. n \in D
    BY <1>7
  <2> HIDE DEF Mixed
  <2> QED
    BY <1>1, <2>1 DEF D
<1>10. PICK z \in Seq(Nat) : Decode(s, FALSE) = A(n) \o z /\ Whole(T(n) \o z)
  BY <1>9
<1>10a. n \in 0 .. n
  OBVIOUS
<1>11. z = << >>
  <2>1. A(n) \in Seq(Nat)
    BY <1>3, <1>10a
  <2>2. A(n) = Decode(s, FALSE)
    BY <1>8
  <2>3. PICK a \in Seq(Nat) : a = A(n)
    BY <2>1
  <2>4. << >> \in Seq(Nat) /\ a \o << >> = a
    BY ConcatEmptySeq
  <2>5. a \o z = a \o << >>
    BY <1>10, <2>2, <2>3, <2>4
  <2> QED
    BY <2>4, <2>5, SameRest
<1>12. PICK t \in Seq(Nat) : t = T(n) /\ t = Decode(s, TRUE)
  <2>1. T(n) = Decode(s, TRUE)
    BY <1>8
  <2> HIDE DEF A, T, Mixed
  <2> QED
    BY <1>3, <1>10a, <2>1
<1>13. t \o << >> = t
  BY ConcatEmptySeq
<1> QED
  BY <1>10, <1>11, <1>12, <1>13
-----------------------------------------------------------------------------
(* Parts of a text.                                                        *)
LEMMA PartFacts ==
  ASSUME NEW S, NEW s \in Seq(S), NEW a \in Nat, NEW b \in Nat, a <= b, b <= Len(s)
  PROVE  /\ SubSeq(s, a + 1, b) \in Seq(S) /\ Len(SubSeq(s, a + 1, b)) = b - a
         /\ \A k \in 1 .. b - a : SubSeq(s, a + 1, b)[k] = s[a + k]
<1>1. PICK n \in Nat : n = Len(s) /\ DOMAIN s = 1 .. n
  BY LenProperties
<1>2. \A k \in a + 1 .. b : s[k] \in S
  BY <1>1, ElementOfSeq
<1>3. PICK m \in Nat : b = a + m /\ m = b - a
  OBVIOUS
<1>4. SubSeq(s, a + 1, b) = [k \in 1 .. m |-> s[a + k]]
  <2>1. SubSeq(s, a + 1, b) = [k \in 1 .. (1 + b) - (a + 1) |-> s[k + (a + 1) - 1]]
    OBVIOUS
  <2>2. (1 + b) - (a + 1) = m
    BY <1>3
  <2>3. \A k \in 1 .. m : k + (a + 1) - 1 = a + k
    OBVIOUS
  <2> QED
    BY <2>1, <2>2, <2>3
<1>5. \A k \in 1 .. m : s[a + k] \in S
  BY <1>2, <1>3
<1> DEFINE part == [k \in 1 .. m |-> s[a + k]]
<1>6. part \in Seq(S) /\ Len(part) = m
  BY <1>5
<1>7. \A k \in 1 .. m : part[k] = s[a + k]
  OBVIOUS
<1> HIDE DEF part
<1>8. SubSeq(s, a + 1, b) = part
  BY <1>4 DEF part
<1> QED
  BY <1>3, <1>6, <1>7, <1>8

LEMMA PartOfPart ==
  ASSUME NEW S, NEW s \in Seq(S), NEW a \in Nat, NEW b \in Nat, a <= b, b <= Len(s),
         NEW c \in Nat, NEW d \in Nat, c <= d, a + d <= b
  PROVE  SubSeq(SubSeq(s, a + 1, b), c + 1, d) = SubSeq(s, (a + c) + 1, a + d)
<1> DEFINE t == SubSeq(s, a + 1, b)
<1>1. PICK m \in Nat : b = a + m /\ m = b - a
  OBVIOUS
<1>2. t \in Seq(S) /\ Len(t) = m /\ \A k \in 1 .. m : t[k] = s[a + k]
  BY <1>1, PartFacts
<1> HIDE DEF t
<1>3. PICK e \in Nat : d = c + e /\ e = d - c /\ d <= m /\ (a + d) - (a + c) = e
  BY <1>1
<1>4. SubSeq(t, c + 1, d) \in Seq(S) /\ Len(SubSeq(t, c + 1, d)) = e
      /\ \A k \in 1 .. e : SubSeq(t, c + 1, d)[k] = t[c + k]
  BY <1>2, <1>3, PartFacts
<1>5. PICK p \in Nat : p = a + c
  OBVIOUS
<1>6. PICK q \in Nat : q = a + d /\ p <= q /\ q <= Len(s) /\ q - p = e
  <2>1. Len(s) \in Nat
    BY LenProperties
  <2> QED
    BY <1>3, <1>5, <2>1
<1>7. SubSeq(s, p + 1, q) \in Seq(S) /\ Len(SubSeq(s, p + 1, q)) = e
      /\ \A k \in 1 .. e : SubSeq(s, p + 1, q)[k] = s[p + k]
  BY <1>6, PartFacts
<1>8. ASSUME NEW k \in 1 .. e PROVE t[c + k] = s[p + k]
  <2>1. PICK i \in 1 .. m : i = c + k /\ a + i = p + k
    BY <1>3, <1>5
  <2> QED
    BY <1>2, <2>1
<1>9. SubSeq(t, c + 1, d) = SubSeq(s, p + 1, q)
  <2>1. \A k \in 1 .. e : SubSeq(t, c + 1, d)[k] = SubSeq(s, p + 1, q)[k]
    BY <1>4, <1>7, <1>8
  <2> QED
    BY <1>4, <1>7, <2>1, SeqEqual
<1> QED
  BY <1>5, <1>6, <1>9 DEF t

LEMMA PartsJoin ==
  ASSUME NEW S, NEW s \in Seq(S), NEW a \in Nat, NEW b \in Nat, a <= b, b <= Len(s)
  PROVE  SubSeq(s, 1, a) \o SubSeq(s, a + 1, b) = SubSeq(s, 1, b)
<1>1. PICK n \in Nat : n = Len(s)
  BY LenProperties
<1>2. PICK m \in Nat : b = a + m /\ m = b - a
  OBVIOUS
<1>3. PICK x \in Seq(S) : x = SubSeq(s, 1, a) /\ Len(x) = a /\ \A k \in 1 .. a : x[k] = s[k]
  <2>1. a \in 0 .. Len(s)
    BY <1>1
  <2>2. SubSeq(s, 1, a) \in Seq(S) /\ Len(SubSeq(s, 1, a)) = a
    BY <2>1, CutInTwo
  <2>3. \A k \in 1 .. a : SubSeq(s, 1, a)[k] = s[k]
    BY <1>1
  <2> QED
    BY <2>2, <2>3
<1>4. PICK y \in Seq(S) : y = SubSeq(s, a + 1, b) /\ Len(y) = m /\ \A k \in 1 .. m : y[k] = s[a + k]
  <2>1. SubSeq(s, a + 1, b) \in Seq(S) /\ Len(SubSeq(s, a + 1, b)) = m
        /\ \A k \in 1 .. m : SubSeq(s, a + 1, b)[k] = s[a + k]
    BY <1>2, PartFacts
  <2> QED
    BY <2>1, Zenon
<1>5. PICK z \in Seq(S) : z = SubSeq(s, 1, b) /\ Len(z) = b /\ \A k \in 1 .. b : z[k] = s[k]
  <2>1. b \in 0 .. Len(s)
    BY <1>1
  <2>2. SubSeq(s, 1, b) \in Seq(S) /\ Len(SubSeq(s, 1, b)) = b
    BY <2>1, CutInTwo
  <2>3. \A k \in 1 .. b : SubSeq(s, 1, b)[k] = s[k]
    BY <1>1
  <2> QED
    BY <2>2, <2>3
<1>6. x \o y \in Seq(S) /\ Len(x \o y) = b
  <2>1. Len(x \o y) = Len(x) + Len(y) /\ x \o y \in Seq(S)
    BY ONLY x \in Seq(S), y \in Seq(S), SMTT(30)
  <2> QED
    BY <1>2, <1>3, <1>4, <2>1
<1>7. ASSUME NEW k \in 1 .. b PROVE (x \o y)[k] = z[k]
  <2>1. (x \o y)[k] = IF k <= a THEN x[k] ELSE y[k - a]
    BY <1>2, <1>3, <1>4
  <2>2. CASE k <= a
    BY <1>3, <1>5, <2>1, <2>2
  <2>3. CASE k > a
    <3>1. PICK i \in 1 .. m : i = k - a /\ a + i = k /\ ~(k <= a)
      BY <1>2, <2>3
    <3> QED
      BY <1>4, <1>5, <2>1, <3>1
  <2>4. k <= a \/ k > a
    OBVIOUS
  <2> QED
    BY <2>2, <2>3, <2>4, Zenon
<1>8. x \o y = z
  BY <1>5, <1>6, <1>7, SeqEqual
<1> QED
  BY <1>3, <1>4, <1>5, <1>8
-----------------------------------------------------------------------------
(***************************************************************************)
(* The invariant.  Covered is how much of the text the ids pushed so far   *)
(* stand for.                                                              *)
(***************************************************************************)
Text    == input.text
Active  == phase \notin {"loading", "begin", "refused", "corrupted"}
Running == phase \in {"scanning", "splitting", "encoded", "done"}
First   == IF input.addBos THEN 2 ELSE 1
AfterMark == SubSeq(output, First, Len(output))

Covered ==
  IF phase = "scanning" THEN chunkStart - 1
  ELSE IF phase = "splitting" THEN ((chunkStart - 1) + ByteEnd(Chunk, cursor)) - Len(rest)
  ELSE Len(Text)

Setup ==
  /\ phase \in {"loading", "begin", "refused", "corrupted", "failed", "scanning",
                "splitting", "encoded", "done"}
  /\ document \in DOMAIN Documents
  /\ phase \notin {"loading", "refused", "corrupted"} => Loaded
  /\ Active => input \in Inputs /\ input.document = document
  /\ ~Active => pos = 1 /\ chunkStart = 1 /\ rest = << >> /\ output = << >>
  /\ phase \notin {"encoded", "done"} => fed = 0 /\ pending = << >> /\ written = << >>

(* What waits in rest follows what is covered, within the chunk.           *)
Places ==
  Active =>
    /\ chunkStart \in 1 .. Len(Text) + 1 /\ pos \in chunkStart .. Len(Text) + 1
    /\ rest \in Seq(Byte)
    /\ phase = "splitting" =>
         /\ cursor \in 1 .. Len(Codepoints) + 1
         /\ Len(rest) <= ByteEnd(Chunk, cursor)
         /\ rest = SubSeq(Text, Covered + 1, Covered + Len(rest))
    /\ phase \in {"scanning", "encoded", "done"} => rest = << >>

Marked == Len(output) >= 1 /\ output[1] = [source |-> "bos", id |-> tables.bosId] /\ ~(tables.bosId < 0)

Pushed ==
  Active =>
    /\ output \in Seq(Tokens)
    /\ \A k \in 1 .. Len(output) : output[k].source = "bpe" => output[k].id \in DOMAIN tables.idToToken
    /\ Running => /\ input.addBos => Marked
                  /\ Len(output) <= (First - 1) + Covered

Tiles ==
  Running /\ Unambiguous =>
    /\ Decode(output, FALSE) = Bos \o SubSeq(Text, 1, Covered)
    /\ Decode(AfterMark, FALSE) = SubSeq(Text, 1, Covered)

Scanned ==
  Active =>
    /\ input.parseSpecial => \A p \in chunkStart .. pos - 1 : AddedAt(p) = {}
    /\ phase = "splitting" /\ pos <= Len(Text) => AddedAt(pos) # {}

(* An id of an added token is the longest one that occurs at its place.    *)
OccursAt(c, p) == c # << >> /\ IsPrefix(c, SubSeq(Text, p, Len(Text)))
StartOf(k)     == 1 + Len(Decode(SubSeq(output, First, k - 1), FALSE))
LongestAt(k) ==
  /\ input.parseSpecial
  /\ \A c \in Contents : OccursAt(c, StartOf(k)) => Len(c) <= Len(Decode(<<output[k]>>, FALSE))

Matched ==
  Active /\ Unambiguous =>
    \A k \in First .. Len(output) : output[k].source = "added" => LongestAt(k)

(* What is written ends where a character of the whole output does.        *)
InCharacters ==
  \E B \in SUBSET Nat : /\ Bounded(Decode(output, input.skipSpecial), B)
                        /\ Len(written) \in B
Streamed ==
  /\ pending # << >> => Len(pending) < Width(pending[1])
  /\ phase \in {"encoded", "done"} =>
       /\ fed \in Nat /\ fed <= Len(output) /\ written \in Seq(Nat) /\ pending \in Seq(Nat)
       /\ written \o pending = Decode(SubSeq(output, 1, fed), input.skipSpecial)
       /\ phase = "done" => fed = Len(output) /\ pending = << >>
       /\ phase = "encoded" /\ Unambiguous /\ Whole(Text) => InCharacters
       /\ phase = "done" /\ Unambiguous /\ Whole(Text) => Whole(written)

PathInv == Setup /\ Places /\ Pushed /\ Tiles /\ Scanned /\ Matched /\ Streamed
Tokenizing == VocabularyAssumption /\ InputsAssumption

LEMMA PathInit ==
  ASSUME Init
  PROVE  PathInv
<1>1. /\ phase = "loading" /\ document \in DOMAIN Documents
      /\ pos = 1 /\ chunkStart = 1 /\ rest = << >> /\ output = << >>
      /\ fed = 0 /\ pending = << >> /\ written = << >>
  BY DEF Init, InitEncode
<1>2. ~Active /\ ~Running
  BY <1>1 DEF Active, Running
<1>3. Setup
  BY <1>1, <1>2 DEF Setup
<1>4. Streamed
  BY <1>1 DEF Streamed
<1> QED
  BY <1>2, <1>3, <1>4 DEF PathInv, Places, Pushed, Tiles, Scanned, Matched

-----------------------------------------------------------------------------
(* What a state of the invariant gives.                                    *)
LEMMA InputFacts ==
  ASSUME Tokenizing, Setup, Active
  PROVE  /\ Loaded /\ Text \in Seq(Byte) /\ Text \in Seq(Nat)
         /\ input.addBos \in BOOLEAN /\ input.parseSpecial \in BOOLEAN
         /\ input.skipSpecial \in BOOLEAN
<1>1. Loaded /\ input \in Inputs
  BY DEF Setup, Active
<1>2. Text \in Seq(Byte)
  BY <1>1 DEF Tokenizing, InputsAssumption, Text
<1>3. Text \in Seq(Nat)
  BY <1>2, BytesAreNumbers
<1>4. {input.addBos, input.parseSpecial, input.skipSpecial} \subseteq BOOLEAN
  BY <1>1 DEF Tokenizing, InputsAssumption
<1> QED
  BY <1>1, <1>2, <1>3, <1>4

LEMMA SameTokenizer ==
  ASSUME document' = document, tables' = tables
  PROVE  /\ (Loaded' <=> Loaded) /\ KnownIds' = KnownIds /\ Tokens' = Tokens
         /\ (Unambiguous' <=> Unambiguous) /\ Contents' = Contents
         /\ \A s, skip : Decode(s, skip)' = Decode(s, skip)
         /\ \A id, skip : DecodeOne(id, skip)' = DecodeOne(id, skip)
<1>1. (Loaded' <=> Loaded) /\ KnownIds' = KnownIds
  BY DEF Loaded, Doc, KnownIds
<1>2. Tokens' = Tokens
  BY <1>1 DEF Tokens
<1>3. Unambiguous' <=> Unambiguous
  BY DEF Unambiguous
<1>4. Contents' = Contents
  BY DEF Contents
<1>5. \A s, skip : Decode(s, skip)' = Decode(s, skip)
  BY DEF Decode, DecodeOne
<1>6. \A id, skip : DecodeOne(id, skip)' = DecodeOne(id, skip)
  BY DEF DecodeOne
<1> QED
  BY <1>1, <1>2, <1>3, <1>4, <1>5, <1>6

LEMMA SameScan ==
  ASSUME tables' = tables, input' = input
  PROVE  \A p : AddedAt(p)' = AddedAt(p)
BY DEF AddedAt, Shadowed, Longest, MatchesAt, FirstBytes, Lengths, Contents, text

(* The chunk being split, by the numbers of bytes before it and up to it.  *)
LEMMA ChunkFacts ==
  ASSUME Tokenizing, Setup, Places, Active,
         NEW a \in Nat, a = chunkStart - 1, NEW b \in Nat, b = pos - 1
  PROVE  /\ a <= b /\ b <= Len(Text) /\ chunkStart = a + 1 /\ pos = b + 1
         /\ Chunk = SubSeq(Text, a + 1, b)
         /\ Chunk \in Seq(Nat) /\ Len(Chunk) = b - a
<1>1. Text \in Seq(Nat)
  BY InputFacts
<1>2. PICK n \in Nat : n = Len(Text)
  BY <1>1, LenProperties
<1>3. chunkStart \in 1 .. n + 1 /\ pos \in chunkStart .. n + 1
  BY <1>2 DEF Places
<1>4. a <= b /\ b <= Len(Text) /\ chunkStart = a + 1 /\ pos = b + 1
  BY <1>2, <1>3
<1>5. Chunk = SubSeq(Text, a + 1, b)
  BY <1>4 DEF Chunk, text, Text
<1>6. SubSeq(Text, a + 1, b) \in Seq(Nat) /\ Len(SubSeq(Text, a + 1, b)) = b - a
  BY <1>1, <1>4, PartFacts
<1> QED
  BY <1>4, <1>5, <1>6
LEMMA CoveredFacts ==
  ASSUME Tokenizing, Setup, Places, Running
  PROVE  /\ Active /\ Covered \in Nat /\ Len(rest) \in Nat /\ Len(Text) \in Nat
         /\ Covered + Len(rest) <= Len(Text)
<1>1. Active
  BY DEF Active, Running
<1>2. Text \in Seq(Nat)
  BY <1>1, InputFacts
<1>3. PICK n \in Nat : n = Len(Text)
  BY <1>2, LenProperties
<1>4. rest \in Seq(Byte)
  BY <1>1 DEF Places
<1>5. PICK r \in Nat : r = Len(rest)
  BY <1>4, LenProperties
<1>6. chunkStart \in 1 .. n + 1 /\ pos \in chunkStart .. n + 1
  BY <1>1, <1>3 DEF Places
<1>7. PICK a \in Nat : a = chunkStart - 1
  BY <1>6
<1>8. PICK b \in Nat : b = pos - 1
  BY <1>6
<1>9. a <= b /\ b <= n
  BY <1>3, <1>6, <1>7, <1>8
<1>10. CASE phase = "scanning"
  <2>1. Covered = a /\ rest = << >>
    BY <1>1, <1>7, <1>10 DEF Covered, Places
  <2>2. Len(rest) = 0
    BY <2>1
  <2> QED
    BY <1>1, <1>3, <1>9, <2>1, <2>2
<1>11. CASE phase = "splitting"
  <2>1. Chunk \in Seq(Nat) /\ Len(Chunk) = b - a
    BY <1>1, <1>7, <1>8, ChunkFacts
  <2>2. PICK m : m = Len(DecodeUtf8(Chunk))
    OBVIOUS
  <2>3. \A k \in 1 .. m + 1 : ByteEnd(Chunk, k) \in 0 .. Len(Chunk)
    BY <2>1, <2>2, ByteEndFacts
  <2>4. cursor \in 1 .. m + 1 /\ r <= ByteEnd(Chunk, cursor)
    BY <1>1, <1>5, <1>11, <2>2 DEF Places, Codepoints
  <2>5. PICK e \in 0 .. b - a : e = ByteEnd(Chunk, cursor)
    BY <2>1, <2>3, <2>4
  <2>6. Covered = (a + e) - r
    BY <1>5, <1>7, <1>11, <2>5 DEF Covered
  <2>7. r <= e
    BY <2>4, <2>5
  <2>8. (a + e) - r \in Nat /\ ((a + e) - r) + r <= n
    BY <1>9, <2>7
  <2> QED
    BY <1>1, <1>3, <1>5, <2>6, <2>8
<1>12. CASE phase \in {"encoded", "done"}
  <2>1. Covered = n /\ rest = << >>
    BY <1>1, <1>3, <1>12 DEF Covered, Places
  <2>2. Len(rest) = 0
    BY <2>1
  <2> QED
    BY <1>1, <1>3, <2>1, <2>2
<1> QED
  BY <1>10, <1>11, <1>12 DEF Running

LEMMA FirstFacts ==
  ASSUME Tokenizing, Setup, Places, Pushed, Running
  PROVE  \E f \in Nat : /\ First = f + 1 /\ f <= Len(output) /\ f = First - 1
                        /\ Len(output) <= f + Covered /\ Len(output) \in Nat
                        /\ (input.addBos => f = 1 /\ Marked) /\ (~input.addBos => f = 0)
<1>1. Active
  BY DEF Active, Running
<1>2. PICK n \in Nat : n = Len(output)
  BY <1>1, LenProperties DEF Pushed
<1>3. n <= (First - 1) + Covered /\ (input.addBos => Marked)
  BY <1>1, <1>2 DEF Pushed
<1>4. CASE input.addBos
  <2>1. First = 1 + 1 /\ 1 = First - 1
    BY <1>4 DEF First
  <2>2. 1 <= n
    BY <1>2, <1>3, <1>4 DEF Marked
  <2> QED
    BY <1>2, <1>3, <1>4, <2>1, <2>2
<1>5. CASE ~input.addBos
  <2>1. First = 0 + 1 /\ 0 = First - 1
    BY <1>5 DEF First
  <2> QED
    BY <1>2, <1>3, <1>5, <2>1
<1> QED
  BY <1>4, <1>5

LEMMA PartOfAppend ==
  ASSUME NEW S, NEW s \in Seq(S), NEW x \in S, NEW f \in Nat, NEW n \in Nat, n = Len(s), f <= n
  PROVE  /\ SubSeq(s, f + 1, n) \in Seq(S)
         /\ \A k \in f + 1 .. n + 1 : SubSeq(Append(s, x), f + 1, k - 1) = SubSeq(s, f + 1, k - 1)
<1> DEFINE u == Append(s, x)
<1>1. u \in Seq(S) /\ Len(u) = n + 1 /\ u[n + 1] = x /\ \A k \in 1 .. n : u[k] = s[k]
  OBVIOUS
<1> HIDE DEF u
<1>2. ASSUME NEW g \in Nat, f <= g, g <= n
      PROVE  /\ SubSeq(s, f + 1, g) \in Seq(S) /\ Len(SubSeq(s, f + 1, g)) = g - f
             /\ \A k \in 1 .. g - f : SubSeq(s, f + 1, g)[k] = s[f + k]
  BY <1>2, PartFacts
<1>3. ASSUME NEW g \in Nat, f <= g, g <= n + 1
      PROVE  /\ SubSeq(u, f + 1, g) \in Seq(S) /\ Len(SubSeq(u, f + 1, g)) = g - f
             /\ \A k \in 1 .. g - f : SubSeq(u, f + 1, g)[k] = u[f + k]
  BY <1>1, <1>3, PartFacts
<1>4. ASSUME NEW k \in f + 1 .. n + 1
      PROVE  SubSeq(u, f + 1, k - 1) = SubSeq(s, f + 1, k - 1)
  <2>1. PICK g \in Nat : g = k - 1 /\ f <= g /\ g <= n /\ g <= n + 1
    OBVIOUS
  <2>2. \A i \in 1 .. g - f : f + i \in 1 .. n
    BY <2>1
  <2>3. \A i \in 1 .. g - f : SubSeq(u, f + 1, g)[i] = SubSeq(s, f + 1, g)[i]
    BY <1>1, <1>2, <1>3, <2>1, <2>2
  <2>4. SubSeq(u, f + 1, g) = SubSeq(s, f + 1, g)
    <3>1. PICK v \in Seq(S) : v = SubSeq(u, f + 1, g) /\ Len(v) = g - f
      BY <1>3, <2>1, Zenon
    <3>2. PICK w \in Seq(S) : w = SubSeq(s, f + 1, g) /\ Len(w) = g - f
      BY <1>2, <2>1, Zenon
    <3>3. \A i \in 1 .. Len(v) : v[i] = w[i]
      BY <2>3, <3>1, <3>2
    <3>4. v = w
      BY <3>1, <3>2, <3>3, SeqEqual
    <3> QED
      BY <3>1, <3>2, <3>4
  <2> QED
    BY <2>1, <2>4
<1>5. SubSeq(s, f + 1, n) \in Seq(S)
  BY <1>2
<1> QED
  BY <1>4, <1>5 DEF u

LEMMA BosFacts ==
  ASSUME Tokenizing, Setup, Places, Pushed, Running
  PROVE  Bos \in Seq(Nat)
<1>1. Active
  BY DEF Active, Running
<1>2. Loaded /\ VocabularyAssumption
  BY <1>1, InputFacts DEF Tokenizing
<1>3. output \in Seq(Tokens)
  BY <1>1 DEF Pushed
<1>4. CASE input.addBos
  <2>1. Len(output) >= 1
    BY <1>1, <1>4 DEF Pushed, Marked
  <2>2. output[1] \in Tokens
    <3>1. PICK n \in Nat : n = Len(output)
      BY <1>3, LenProperties
    <3>2. 1 \in 1 .. n
      BY <2>1, <3>1
    <3> QED
      BY <1>3, <3>1, <3>2, ElementOfSeq
  <2>3. <<output[1]>> \in Seq(Tokens)
    BY <2>2
  <2>4. Decode(<<output[1]>>, FALSE) \in Seq(Nat)
    BY <1>2, <2>3, DecodedBytes
  <2> QED
    BY <1>4, <2>4 DEF Bos
<1>5. CASE ~input.addBos
  BY <1>5 DEF Bos
<1> QED
  BY <1>4, <1>5
-----------------------------------------------------------------------------
(* A step that pushes token x for the bytes of the text from p + 1 to q.   *)
Pushes(x, p, q) ==
  /\ document' = document /\ tables' = tables /\ input' = input /\ output' = Append(output, x)
  /\ Running /\ Running' /\ p = Covered /\ q = Covered' /\ p < q /\ q <= Len(Text)
  /\ x.source = "bpe" => x.id \in DOMAIN tables.idToToken
  /\ Unambiguous => DecodeOne(x.id, FALSE) = SubSeq(Text, p + 1, q)
  /\ x.source = "added" /\ Unambiguous =>
       /\ input.parseSpecial
       /\ \A c \in Contents : OccursAt(c, p + 1) => Len(c) <= q - p

LEMMA WholePartOfAppend ==
  ASSUME NEW S, NEW s \in Seq(S), NEW x \in S, NEW f \in Nat, f <= Len(s)
  PROVE  SubSeq(Append(s, x), f + 1, Len(s) + 1) = Append(SubSeq(s, f + 1, Len(s)), x)
<1> DEFINE u == Append(s, x)
<1>0. PICK n \in Nat : n = Len(s) /\ f <= n
  BY LenProperties
<1>1. u \in Seq(S) /\ Len(u) = n + 1 /\ u[n + 1] = x /\ \A k \in 1 .. n : u[k] = s[k]
  BY <1>0
<1> HIDE DEF u
<1>2. ASSUME NEW g \in Nat, f <= g, g <= n
      PROVE  /\ SubSeq(s, f + 1, g) \in Seq(S) /\ Len(SubSeq(s, f + 1, g)) = g - f
             /\ \A k \in 1 .. g - f : SubSeq(s, f + 1, g)[k] = s[f + k]
  BY <1>0, <1>2, PartFacts
<1>3. ASSUME NEW g \in Nat, f <= g, g <= n + 1
      PROVE  /\ SubSeq(u, f + 1, g) \in Seq(S) /\ Len(SubSeq(u, f + 1, g)) = g - f
             /\ \A k \in 1 .. g - f : SubSeq(u, f + 1, g)[k] = u[f + k]
  BY <1>0, <1>1, <1>3, PartFacts
<1>4. SubSeq(u, f + 1, n + 1) = Append(SubSeq(s, f + 1, n), x)
  <2>0. n - f \in Nat /\ (n + 1) - f = (n - f) + 1 /\ f + (n - f) = n /\ f + ((n - f) + 1) = n + 1
    BY <1>0
  <2>1. PICK m \in Nat : m = n - f /\ (n + 1) - f = m + 1 /\ f + m = n /\ f + (m + 1) = n + 1
    BY <2>0, Zenon
  <2>2. PICK y \in Seq(S) : /\ y = SubSeq(s, f + 1, n) /\ Len(y) = m
                            /\ \A k \in 1 .. m : y[k] = s[f + k]
    <3>1. n \in Nat /\ f <= n /\ n <= n
      BY <1>0
    <3>2. /\ SubSeq(s, f + 1, n) \in Seq(S) /\ Len(SubSeq(s, f + 1, n)) = m
          /\ \A k \in 1 .. m : SubSeq(s, f + 1, n)[k] = s[f + k]
      BY <1>2, <2>1, <3>1
    <3> QED
      BY <3>2, Zenon
  <2>3. Append(y, x) \in Seq(S) /\ Len(Append(y, x)) = m + 1 /\ Append(y, x)[m + 1] = x
        /\ \A k \in 1 .. m : Append(y, x)[k] = y[k]
    BY <2>2
  <2>4. /\ SubSeq(u, f + 1, n + 1) \in Seq(S) /\ Len(SubSeq(u, f + 1, n + 1)) = m + 1
        /\ \A k \in 1 .. m + 1 : SubSeq(u, f + 1, n + 1)[k] = u[f + k]
    <3>1. n + 1 \in Nat /\ f <= n + 1 /\ n + 1 <= n + 1
      BY <1>0
    <3> QED
      BY <1>3, <2>1, <3>1
  <2>5. ASSUME NEW k \in 1 .. m + 1 PROVE Append(y, x)[k] = u[f + k]
    <3>1. CASE k = m + 1
      BY <1>1, <2>1, <2>3, <3>1
    <3>2. CASE k \in 1 .. m
      <4>1. f + k \in 1 .. n
        BY <2>1, <3>2
      <4> QED
        BY <1>1, <2>2, <2>3, <3>2, <4>1
    <3>3. k = m + 1 \/ k \in 1 .. m
      OBVIOUS
    <3> QED
      BY <3>1, <3>2, <3>3, Zenon
  <2>6. SubSeq(u, f + 1, n + 1) = Append(y, x)
    BY <2>3, <2>4, <2>5, SeqEqual
  <2> QED
    BY <2>2, <2>6
<1> QED
  BY <1>0, <1>4 DEF u

LEMMA PushedTail ==
  ASSUME Tokenizing, Setup, Places, Pushed, Running, NEW x \in Tokens, output' = Append(output, x),
         input' = input
  PROVE  /\ output \in Seq(Tokens) /\ AfterMark \in Seq(Tokens) /\ First' = First
         /\ AfterMark' = Append(AfterMark, x) /\ Len(output') = Len(output) + 1 /\ output'[Len(output) + 1] = x
         /\ \A k \in 1 .. Len(output) : output'[k] = output[k]
         /\ \A k \in First .. Len(output) + 1 : SubSeq(output', First, k - 1) = SubSeq(output, First, k - 1)
         /\ SubSeq(output', First, Len(output)) = AfterMark
<1>1. output \in Seq(Tokens)
  BY DEF Pushed, Active, Running
<1>2. PICK f \in Nat : First = f + 1 /\ f <= Len(output)
  BY FirstFacts
<1>3. PICK n \in Nat : n = Len(output)
  BY <1>1, LenProperties
<1>4. First' = First
  BY DEF First
<1>5. Len(output') = n + 1 /\ output'[n + 1] = x /\ \A k \in 1 .. n : output'[k] = output[k]
  BY <1>1, <1>3
<1>6. /\ SubSeq(output, f + 1, n) \in Seq(Tokens)
      /\ SubSeq(Append(output, x), f + 1, n + 1) = Append(SubSeq(output, f + 1, n), x)
      /\ \A k \in f + 1 .. n + 1 :
           SubSeq(Append(output, x), f + 1, k - 1) = SubSeq(output, f + 1, k - 1)
  <2>1. f <= n
    BY <1>2, <1>3
  <2>2. SubSeq(output, f + 1, n) \in Seq(Tokens)
    BY <1>1, <1>3, <2>1, PartOfAppend
  <2>3. SubSeq(Append(output, x), f + 1, n + 1) = Append(SubSeq(output, f + 1, n), x)
    <3>1. output \in Seq(Tokens) /\ f <= Len(output)
      BY <1>1, <1>3, <2>1
    <3>2. SubSeq(Append(output, x), f + 1, Len(output) + 1) = Append(SubSeq(output, f + 1, Len(output)), x)
      BY <3>1, WholePartOfAppend
    <3> QED
      BY <1>3, <3>2
  <2>4. \A k \in f + 1 .. n + 1 :
           SubSeq(Append(output, x), f + 1, k - 1) = SubSeq(output, f + 1, k - 1)
    BY <1>1, <1>3, <2>1, PartOfAppend
  <2> QED
    BY <2>2, <2>3, <2>4
<1>7. AfterMark \in Seq(Tokens) /\ AfterMark' = Append(AfterMark, x)
  BY <1>2, <1>3, <1>4, <1>5, <1>6 DEF AfterMark
<1>8. SubSeq(output', First, n) = AfterMark
  <2>1. n + 1 \in f + 1 .. n + 1 /\ (n + 1) - 1 = n
    BY <1>2, <1>3
  <2>2. SubSeq(Append(output, x), f + 1, n) = SubSeq(output, f + 1, n)
    BY <1>6, <2>1
  <2> QED
    BY <1>2, <1>3, <2>2 DEF AfterMark
<1>9. \A k \in First .. n + 1 : SubSeq(output', First, k - 1) = SubSeq(output, First, k - 1)
  BY <1>2, <1>6
<1> QED
  BY <1>1, <1>3, <1>4, <1>5, <1>7, <1>8, <1>9

LEMMA PushKeepsPushed ==
  ASSUME Tokenizing, PathInv, NEW x \in Tokens, NEW p \in Nat, NEW q \in Nat, Pushes(x, p, q)
  PROVE  Pushed'
<1>1. Setup /\ Places /\ Pushed /\ Running /\ Active
  BY DEF PathInv, Pushes, Active, Running
<1>2. output' = Append(output, x) /\ input' = input /\ tables' = tables /\ document' = document
  BY DEF Pushes
<1>3. PICK n \in Nat : n = Len(output)
  BY <1>1, LenProperties DEF Pushed
<1>4. /\ output \in Seq(Tokens) /\ First' = First /\ Len(output') = n + 1 /\ output'[n + 1] = x
      /\ \A k \in 1 .. n : output'[k] = output[k]
  BY <1>1, <1>2, <1>3, PushedTail
<1>5. Tokens' = Tokens
  BY <1>2, SameTokenizer
<1>6. output' \in Seq(Tokens')
  BY <1>2, <1>4, <1>5
<1>7. ASSUME NEW k \in 1 .. n + 1, output'[k].source = "bpe"
      PROVE  output'[k].id \in DOMAIN tables.idToToken
  <2>1. CASE k = n + 1
    BY <1>4, <1>7, <2>1 DEF Pushes
  <2>2. CASE k \in 1 .. n
    BY <1>1, <1>3, <1>4, <1>7, <2>2 DEF Pushed
  <2>3. k = n + 1 \/ k \in 1 .. n
    OBVIOUS
  <2> QED
    BY <2>1, <2>2, <2>3, Zenon
<1>8. input.addBos => Marked'
  <2> SUFFICES ASSUME input.addBos PROVE Marked'
    OBVIOUS
  <2>1. Marked
    BY <1>1 DEF Pushed
  <2>2. n >= 1 /\ 1 \in 1 .. n
    BY <1>3, <2>1 DEF Marked
  <2>3. output'[1] = output[1]
    BY <1>4, <2>2
  <2>4. Len(output') >= 1
    BY <1>4, <2>2
  <2> QED
    BY <1>2, <2>1, <2>3, <2>4 DEF Marked
<1>9. n + 1 <= (First - 1) + q
  <2>1. n <= (First - 1) + p /\ p < q
    BY <1>1, <1>3 DEF Pushed, Pushes
  <2>2. First \in Nat
    BY DEF First
  <2> QED
    BY <2>1, <2>2
<1>10. Len(output') <= (First' - 1) + Covered'
  BY <1>4, <1>9 DEF Pushes
<1>11. \A k \in 1 .. Len(output') : output'[k].source = "bpe" => output'[k].id \in DOMAIN tables'.idToToken
  BY <1>2, <1>4, <1>7
<1> QED
  BY <1>2, <1>6, <1>8, <1>10, <1>11 DEF Pushed

LEMMA PushKeepsTiles ==
  ASSUME Tokenizing, PathInv, NEW x \in Tokens, NEW p \in Nat, NEW q \in Nat, Pushes(x, p, q)
  PROVE  Tiles'
<1>1. Setup /\ Places /\ Pushed /\ Tiles /\ Running /\ Active
  BY DEF PathInv, Pushes, Active, Running
<1>2. output' = Append(output, x) /\ input' = input /\ tables' = tables /\ document' = document
  BY DEF Pushes
<1>3. Loaded /\ VocabularyAssumption /\ Text \in Seq(Nat)
  BY <1>1, InputFacts DEF Tokenizing
<1>4. output \in Seq(Tokens) /\ AfterMark \in Seq(Tokens) /\ AfterMark' = Append(AfterMark, x)
      /\ \A k \in 1 .. Len(output) : output'[k] = output[k]
  BY <1>1, <1>2, PushedTail
<1>5. Bos' = Bos
  <2>1. CASE input.addBos
    <3>1. PICK n \in Nat : n = Len(output)
      BY <1>4, LenProperties
    <3>2. 1 \in 1 .. n
      BY <1>1, <2>1, <3>1 DEF Pushed, Marked
    <3>3. output'[1] = output[1]
      BY <1>4, <3>1, <3>2
    <3>4. Decode(<<output[1]>>, FALSE)' = Decode(<<output[1]>>, FALSE)
      BY <1>2, <3>3, SameTokenizer
    <3> QED
      BY <1>2, <2>1, <3>4 DEF Bos
  <2>2. CASE ~input.addBos
    BY <1>2, <2>2 DEF Bos
  <2> QED
    BY <2>1, <2>2
<1>6. SUFFICES ASSUME Unambiguous
               PROVE  /\ Decode(output, FALSE)' = Bos \o SubSeq(Text, 1, q)
                      /\ Decode(AfterMark, FALSE)' = SubSeq(Text, 1, q)
  <2>1. Unambiguous' <=> Unambiguous
    BY <1>2, SameTokenizer
  <2>2. Text' = Text /\ q = Covered'
    BY <1>2 DEF Text, Pushes
  <2> QED
    BY <1>5, <2>1, <2>2 DEF Tiles
<1>7. PICK d \in Seq(Nat) : d = DecodeOne(x.id, FALSE) /\ d = SubSeq(Text, p + 1, q)
  <2>1. DecodeOne(x.id, FALSE) \in Seq(Nat)
    BY <1>3, <1>4, DecodeAppend
  <2> QED
    BY <1>6, <2>1 DEF Pushes
<1>8. PICK t \in Seq(Nat) : t = SubSeq(Text, 1, p) /\ t \o d = SubSeq(Text, 1, q)
  <2>1. p <= q /\ q <= Len(Text)
    BY DEF Pushes
  <2>2. SubSeq(Text, 1, p) \o SubSeq(Text, p + 1, q) = SubSeq(Text, 1, q)
    BY <1>3, <2>1, PartsJoin
  <2>3. SubSeq(Text, 1, p) \in Seq(Nat)
    <3>1. Len(Text) \in Nat
      BY <1>3, LenProperties
    <3>2. p \in 0 .. Len(Text)
      BY <2>1, <3>1
    <3> QED
      BY <1>3, <3>2, CutInTwo
  <2> QED
    BY <1>7, <2>2, <2>3
<1>9. PICK b \in Seq(Nat) : b = Bos
  BY <1>1, BosFacts
<1>10. Decode(output, FALSE) = b \o t /\ Decode(AfterMark, FALSE) = t
  BY <1>1, <1>6, <1>8, <1>9 DEF Tiles, Pushes
<1>11. Decode(Append(output, x), FALSE) = Decode(output, FALSE) \o d
  BY <1>3, <1>4, <1>7, DecodeAppend
<1>12. Decode(Append(AfterMark, x), FALSE) = Decode(AfterMark, FALSE) \o d
  BY <1>3, <1>4, <1>7, DecodeAppend
<1>13. Decode(output, FALSE)' = Decode(Append(output, x), FALSE)
  BY <1>2, SameTokenizer
<1>14. Decode(AfterMark, FALSE)' = Decode(Append(AfterMark, x), FALSE)
  BY <1>2, <1>4, SameTokenizer
<1>15. (b \o t) \o d = b \o (t \o d)
  BY ONLY b \in Seq(Nat), t \in Seq(Nat), d \in Seq(Nat), SMTT(60)
<1> QED
  BY <1>8, <1>9, <1>10, <1>11, <1>12, <1>13, <1>14, <1>15
LEMMA PushKeepsMatched ==
  ASSUME Tokenizing, PathInv, NEW x \in Tokens, NEW p \in Nat, NEW q \in Nat, Pushes(x, p, q)
  PROVE  Matched'
<1>1. Setup /\ Places /\ Pushed /\ Tiles /\ Matched /\ Running /\ Active
  BY DEF PathInv, Pushes, Active, Running
<1>2. output' = Append(output, x) /\ input' = input /\ tables' = tables /\ document' = document
  BY DEF Pushes
<1>3. Loaded /\ VocabularyAssumption /\ Text \in Seq(Nat)
  BY <1>1, InputFacts DEF Tokenizing
<1>4. PICK n \in Nat : n = Len(output)
  BY <1>1, LenProperties DEF Pushed
<1>5. /\ First' = First /\ Len(output') = n + 1 /\ output'[n + 1] = x
      /\ \A k \in 1 .. n : output'[k] = output[k]
      /\ \A k \in First .. n + 1 : SubSeq(output', First, k - 1) = SubSeq(output, First, k - 1)
      /\ SubSeq(output', First, n) = AfterMark
  BY <1>1, <1>2, <1>4, PushedTail
<1>6. SUFFICES ASSUME Unambiguous, NEW k \in First .. n + 1, output'[k].source = "added"
               PROVE  LongestAt(k)'
  <2>1. Unambiguous' <=> Unambiguous
    BY <1>2, SameTokenizer
  <2> QED
    BY <1>5, <2>1 DEF Matched
<1>7. /\ Contents' = Contents
      /\ \A s : Decode(s, FALSE)' = Decode(s, FALSE)
  BY <1>2, SameTokenizer
<1>8. First \in 1 .. 2
  BY DEF First
<1>9. \A c, i : OccursAt(c, i)' <=> OccursAt(c, i)
  BY <1>2 DEF OccursAt, Text
<1>10. StartOf(k)' = StartOf(k)
  <2>1. Decode(SubSeq(output, First, k - 1), FALSE)' =
          Decode(SubSeq(output, First, k - 1), FALSE)
    BY <1>5, <1>7
  <2> QED
    BY <2>1 DEF StartOf
<1>11. CASE k \in First .. n
  <2>1. k \in 1 .. n
    BY <1>8, <1>11
  <2>2. output'[k] = output[k]
    BY <1>5, <2>1
  <2>3. LongestAt(k)
    BY <1>1, <1>4, <1>6, <1>11, <2>2 DEF Matched
  <2>4. Decode(<<output[k]>>, FALSE)' = Decode(<<output[k]>>, FALSE)
    BY <1>7, <2>2
  <2> QED
    BY <1>2, <1>7, <1>9, <1>10, <2>3, <2>4 DEF LongestAt
<1>12. CASE k = n + 1
  <2>1. output'[k] = x
    BY <1>5, <1>12
  <2>2. Decode(<<output[k]>>, FALSE)' = DecodeOne(x.id, FALSE)
    <3>1. Decode(<<output[k]>>, FALSE)' = Decode(<<x>>, FALSE)
      BY <1>7, <2>1
    <3>2. Decode(<<x>>, FALSE) = DecodeOne(x.id, FALSE)
      BY <1>3, DecodeSingle
    <3> QED
      BY <3>1, <3>2
  <2>3. p <= q /\ q <= Len(Text) /\ p = Covered
    BY DEF Pushes
  <2>4. Len(SubSeq(Text, p + 1, q)) = q - p
    BY <1>3, <2>3, PartFacts
  <2>5. Len(Decode(<<output[k]>>, FALSE)') = q - p
    BY <1>6, <2>2, <2>4 DEF Pushes
  <2>6. StartOf(k) = p + 1
    <3>1. k - 1 = n
      BY <1>12
    <3>2. SubSeq(output, First, n) = AfterMark
      BY <1>4 DEF AfterMark
    <3>3. Decode(AfterMark, FALSE) = SubSeq(Text, 1, p)
      BY <1>1, <1>6, <2>3 DEF Tiles
    <3>4. Len(SubSeq(Text, 1, p)) = p
      <4>1. Len(Text) \in Nat
        BY <1>3, LenProperties
      <4>2. p \in 0 .. Len(Text)
        BY <2>3, <4>1
      <4> QED
        BY <1>3, <4>2, CutInTwo
    <3>5. StartOf(k) = 1 + p
      BY <3>1, <3>2, <3>3, <3>4 DEF StartOf
    <3> QED
      BY <3>5
  <2>7. /\ input.parseSpecial
        /\ \A c \in Contents : OccursAt(c, p + 1) => Len(c) <= q - p
    BY <1>6, <2>1 DEF Pushes
  <2> QED
    BY <1>2, <1>7, <1>9, <1>10, <2>5, <2>6, <2>7 DEF LongestAt
<1> QED
  <2>1. k \in First .. n \/ k = n + 1
    BY <1>8
  <2> QED
    BY <1>11, <1>12, <2>1

(* A step that pushes nothing.                                             *)
LEMMA NoPush ==
  ASSUME PathInv, document' = document, tables' = tables, input' = input, output' = output,
         Active, Active', Running' => Running /\ Covered' = Covered
  PROVE  Pushed' /\ Tiles' /\ Matched'
<1>1. Pushed /\ Tiles /\ Matched
  BY DEF PathInv
<1>2. /\ Tokens' = Tokens /\ (Unambiguous' <=> Unambiguous)
      /\ Contents' = Contents
      /\ \A s, skip : Decode(s, skip)' = Decode(s, skip)
  BY SameTokenizer
<1>3. First' = First /\ AfterMark' = AfterMark /\ Text' = Text /\ (Marked' <=> Marked)
  BY DEF First, AfterMark, Text, Marked
<1>4. Pushed'
  BY <1>1, <1>2, <1>3 DEF Pushed
<1>5. Bos' = Bos
  <2>1. Decode(<<output[1]>>, FALSE)' = Decode(<<output[1]>>, FALSE)
    BY <1>2
  <2> QED
    BY <2>1 DEF Bos
<1>6. Tiles'
  <2>1. Decode(output, FALSE)' = Decode(output, FALSE)
    BY <1>2
  <2>2. Decode(AfterMark, FALSE)' = Decode(AfterMark, FALSE)
    BY <1>2, <1>3
  <2> QED
    BY <1>1, <1>2, <1>3, <1>5, <2>1, <2>2 DEF Tiles
<1>7. \A k : LongestAt(k)' <=> LongestAt(k)
  <2> TAKE k
  <2>1. Decode(<<output[k]>>, FALSE)' = Decode(<<output[k]>>, FALSE)
    BY <1>2
  <2>2. Decode(SubSeq(output, First, k - 1), FALSE)' =
          Decode(SubSeq(output, First, k - 1), FALSE)
    BY <1>2, <1>3
  <2>3. StartOf(k)' = StartOf(k)
    BY <2>2 DEF StartOf
  <2>4. \A c, i : OccursAt(c, i)' <=> OccursAt(c, i)
    BY <1>3 DEF OccursAt
  <2> QED
    BY <1>2, <2>1, <2>3, <2>4 DEF LongestAt
<1>8. Matched'
  BY <1>1, <1>2, <1>3, <1>7 DEF Matched
<1> QED
  BY <1>4, <1>6, <1>8
-----------------------------------------------------------------------------
(* The steps of the tokenizer, one by one.                                 *)
Idle == UNCHANGED <<fed, pending, written>>

LEMMA NotStreaming ==
  ASSUME PathInv, Idle, phase' \notin {"encoded", "done"}
  PROVE  Streamed'
BY DEF PathInv, Streamed, Idle

LEMMA LoadKeeps ==
  ASSUME PathInv, LoadTokenizer \/ RefuseTokenizer \/ WriteOutOfBounds, Idle
  PROVE  PathInv'
<1>1. Setup /\ phase = "loading" /\ phase' \in {"begin", "refused", "corrupted"}
  BY DEF PathInv, LoadTokenizer, RefuseTokenizer, WriteOutOfBounds
<1>2. ~Active' /\ ~Active /\ ~Running'
  BY <1>1 DEF Active, Running
<1>3. /\ document' = document /\ pos' = pos /\ chunkStart' = chunkStart /\ rest' = rest
      /\ output' = output
  BY DEF LoadTokenizer, RefuseTokenizer, WriteOutOfBounds, object
<1>4. phase' = "begin" => tables' \in BuildFromJson(Doc)
  BY DEF LoadTokenizer, RefuseTokenizer, WriteOutOfBounds, Doc
<1>5. phase' \notin {"refused", "corrupted"} => Loaded'
  BY <1>1, <1>3, <1>4 DEF Loaded, Setup, Doc
<1>6. Setup'
  BY <1>1, <1>2, <1>3, <1>5 DEF Setup, Idle
<1>7. Streamed'
  BY <1>1, NotStreaming
<1> QED
  BY <1>2, <1>6, <1>7 DEF PathInv, Places, Pushed, Tiles, Scanned, Matched

LEMMA BeginKeeps ==
  ASSUME Tokenizing, PathInv, Begin, Idle
  PROVE  PathInv'
<1>1. /\ Setup /\ phase = "begin" /\ phase' \in {"failed", "scanning"}
      /\ document' = document /\ tables' = tables /\ input' \in Inputs
      /\ input'.document = document
      /\ pos' = pos /\ chunkStart' = chunkStart /\ cursor' = cursor /\ rest' = rest
  BY DEF PathInv, Begin, object
<1>2. Active' /\ ~Active /\ Loaded /\ (Running' <=> phase' = "scanning")
  BY <1>1 DEF Active, Running, Setup
<1>3. pos = 1 /\ chunkStart = 1 /\ rest = << >> /\ output = << >>
  BY <1>1, <1>2 DEF Setup
<1>4. (Loaded' <=> Loaded) /\ Tokens' = Tokens
      /\ \A s, skip : Decode(s, skip)' = Decode(s, skip)
  BY <1>1, SameTokenizer
<1>5. Setup'
  BY <1>1, <1>2, <1>4 DEF Setup, Idle
<1>6. Text' \in Seq(Byte)
  BY <1>1 DEF Tokenizing, InputsAssumption, Text
<1>7. Places'
  <2>1. PICK n \in Nat : n = Len(Text')
    BY <1>6, LenProperties
  <2>2. 1 \in 1 .. n + 1
    BY <2>1
  <2>3. << >> \in Seq(Byte)
    OBVIOUS
  <2> QED
    BY <1>1, <1>3, <2>1, <2>2, <2>3 DEF Places
<1>8. Scanned'
  <2>1. chunkStart' .. pos' - 1 = {}
    BY <1>1, <1>3
  <2> QED
    BY <1>1, <2>1 DEF Scanned
<1>9. Streamed'
  BY <1>1, NotStreaming
<1>10. CASE phase' = "scanning" /\ input'.addBos
  <2>1. output' = <<[source |-> "bos", id |-> tables.bosId]>> /\ ~(tables.bosId < 0)
    BY <1>1, <1>10 DEF Begin
  <2>2. PICK x \in Tokens : x = [source |-> "bos", id |-> tables.bosId]
    <3>1. tables.bosId \in KnownIds
      BY <1>2, <2>1, BosDecodes DEF Tokenizing
    <3> QED
      BY <3>1 DEF Tokens
  <2>3. output' = <<x>> /\ Len(output') = 1 /\ output'[1] = x /\ output' \in Seq(Tokens)
    BY <2>1, <2>2
  <2>4. First' = 2 /\ Covered' = 0
    BY <1>1, <1>3, <1>10 DEF First, Covered
  <2>5. Marked'
    BY <1>1, <2>1, <2>2, <2>3 DEF Marked
  <2>6. Pushed'
    <3>1. x.source # "bpe"
      BY <2>2
    <3>2. \A k \in 1 .. Len(output') : output'[k].source # "bpe"
      BY <2>3, <3>1
    <3>3. Len(output') <= (First' - 1) + Covered'
      BY <2>3, <2>4
    <3> QED
      BY <1>4, <2>3, <2>5, <3>2, <3>3 DEF Pushed
  <2>7. AfterMark' = << >>
    BY <2>3, <2>4 DEF AfterMark
  <2>8. SubSeq(Text', 1, Covered') = << >>
    BY <2>4
  <2>9. Bos' = Decode(<<x>>, FALSE) /\ Decode(output, FALSE)' = Decode(<<x>>, FALSE)
    <3>1. Decode(<<output[1]>>, FALSE)' = Decode(<<x>>, FALSE)
      BY <1>4, <2>3
    <3>2. Decode(output, FALSE)' = Decode(<<x>>, FALSE)
      BY <1>4, <2>3
    <3> QED
      BY <1>10, <3>1, <3>2 DEF Bos
  <2>10. Decode(AfterMark, FALSE)' = << >>
    <3>1. Decode(AfterMark, FALSE)' = Decode(<< >>, FALSE)
      BY <1>4, <2>7
    <3> QED
      BY <1>2, <3>1, DecodeNone DEF Tokenizing
  <2>11. PICK b \in Seq(Nat) : b = Decode(<<x>>, FALSE)
    BY <1>2, <2>3, DecodedBytes DEF Tokenizing
  <2>12. Tiles'
    <3>1. b \o << >> = b
      BY ConcatEmptySeq
    <3> QED
      BY <2>8, <2>9, <2>10, <2>11, <3>1 DEF Tiles
  <2>13. Matched'
    <3>1. First' .. Len(output') = {}
      BY <2>3, <2>4
    <3> QED
      BY <3>1 DEF Matched
  <2> QED
    BY <1>5, <1>7, <1>8, <1>9, <2>6, <2>12, <2>13 DEF PathInv
<1>11. CASE ~(phase' = "scanning" /\ input'.addBos)
  <2>1. output' = << >> /\ Len(output') = 0
    BY <1>1, <1>3, <1>11 DEF Begin
  <2>2. First' \in 1 .. 2
    BY DEF First
  <2>3. Running' => ~input'.addBos /\ First' = 1 /\ Covered' = 0
    BY <1>1, <1>2, <1>3, <1>11 DEF First, Covered
  <2>4. Pushed'
    <3>1. output' \in Seq(Tokens')
      BY <2>1
    <3>2. \A k \in 1 .. Len(output') : FALSE
      BY <2>1
    <3>3. Running' => Len(output') <= (First' - 1) + Covered'
      BY <2>1, <2>3
    <3> QED
      BY <2>3, <3>1, <3>2, <3>3 DEF Pushed
  <2>5. Tiles'
    <3> SUFFICES ASSUME Running' PROVE Tiles'
      BY DEF Tiles
    <3>1. AfterMark' = << >>
      BY <2>1, <2>3 DEF AfterMark
    <3>2. SubSeq(Text', 1, Covered') = << >>
      BY <2>3
    <3>3. Bos' = << >>
      BY <2>3 DEF Bos
    <3>4. Decode(output, FALSE)' = Decode(<< >>, FALSE)
          /\ Decode(AfterMark, FALSE)' = Decode(<< >>, FALSE)
      BY <1>4, <2>1, <3>1
    <3>5. Decode(<< >>, FALSE) = << >>
      BY <1>2, DecodeNone DEF Tokenizing
    <3>6. << >> \o << >> = << >>
      OBVIOUS
    <3> QED
      BY <3>2, <3>3, <3>4, <3>5, <3>6 DEF Tiles
  <2>6. Matched'
    <3>1. First' .. Len(output') = {}
      BY <2>1, <2>2
    <3> QED
      BY <3>1 DEF Matched
  <2> QED
    BY <1>5, <1>7, <1>8, <1>9, <2>4, <2>5, <2>6 DEF PathInv
<1> QED
  BY <1>10, <1>11

LEMMA SkipKeeps ==
  ASSUME Tokenizing, PathInv, SkipByte, Idle
  PROVE  PathInv'
<1>1. /\ Setup /\ Places /\ Scanned /\ phase = "scanning" /\ phase' = "scanning"
      /\ document' = document /\ tables' = tables /\ input' = input
      /\ pos <= Len(Text) /\ pos' = pos + 1 /\ AddedAt(pos) = {}
      /\ chunkStart' = chunkStart /\ rest' = rest /\ output' = output
  BY DEF PathInv, SkipByte, object, text, Text
<1>2. Active /\ Active' /\ Running /\ Running'
  BY <1>1 DEF Active, Running
<1>3. (Loaded' <=> Loaded) /\ Text' = Text
  BY <1>1, SameTokenizer DEF Text
<1>4. Setup'
  BY <1>1, <1>2, <1>3 DEF Setup, Idle
<1>5. PICK n \in Nat : n = Len(Text)
  BY <1>1, <1>2, CoveredFacts
<1>6. chunkStart \in 1 .. n + 1 /\ pos \in chunkStart .. n + 1 /\ pos <= n
  BY <1>1, <1>2, <1>5 DEF Places
<1>7. Places'
  <2>1. pos + 1 \in chunkStart .. n + 1
    BY <1>6
  <2> QED
    BY <1>1, <1>2, <1>3, <1>5, <1>6, <2>1 DEF Places
<1>8. Covered' = Covered
  BY <1>1 DEF Covered
<1>9. Scanned'
  <2>1. \A p : AddedAt(p)' = AddedAt(p)
    BY <1>1, SameScan
  <2>2. ASSUME NEW p \in chunkStart .. (pos + 1) - 1, input.parseSpecial PROVE AddedAt(p) = {}
    <3>1. p \in chunkStart .. pos - 1 \/ p = pos
      BY <1>6
    <3> QED
      BY <1>1, <1>2, <2>2, <3>1 DEF Scanned
  <2> QED
    BY <1>1, <2>1, <2>2 DEF Scanned
<1>10. Pushed' /\ Tiles' /\ Matched'
  BY <1>1, <1>2, <1>8, NoPush
<1>11. Streamed'
  BY <1>1, NotStreaming
<1> QED
  BY <1>4, <1>7, <1>9, <1>10, <1>11 DEF PathInv

LEMMA FlushKeeps ==
  ASSUME Tokenizing, PathInv, Flush, Idle
  PROVE  PathInv'
<1>1. /\ Setup /\ Places /\ Scanned /\ phase = "scanning" /\ phase' = "splitting"
      /\ document' = document /\ tables' = tables /\ input' = input
      /\ pos <= Len(Text) => AddedAt(pos) # {}
      /\ pos' = pos /\ chunkStart' = chunkStart /\ rest' = rest /\ output' = output /\ cursor' = 1
  BY DEF PathInv, Flush, object, text, Text
<1>2. Active /\ Active' /\ Running /\ Running'
  BY <1>1 DEF Active, Running
<1>3. (Loaded' <=> Loaded) /\ Text' = Text /\ Chunk' = Chunk
      /\ Codepoints' = Codepoints
  BY <1>1, SameTokenizer DEF Text, Chunk, text, Codepoints
<1>4. Setup'
  BY <1>1, <1>2, <1>3 DEF Setup, Idle
<1>5. rest = << >> /\ Len(rest) = 0
  BY <1>1, <1>2 DEF Places
<1>6. PICK a \in Nat : a = chunkStart - 1 /\ pos - 1 \in Nat
  <2>1. PICK n \in Nat : n = Len(Text)
    BY <1>1, <1>2, CoveredFacts
  <2>2. chunkStart \in 1 .. n + 1 /\ pos \in chunkStart .. n + 1
    BY <1>1, <1>2, <2>1 DEF Places
  <2> QED
    BY <2>2
<1>7. Chunk \in Seq(Nat)
  BY <1>1, <1>2, <1>6, ChunkFacts
<1>8. PICK m \in Nat : m = Len(Codepoints) /\ ByteEnd(Chunk, 1) = 0
  <2>1. PICK m : m = Len(DecodeUtf8(Chunk))
    OBVIOUS
  <2>2. m \in Nat /\ ByteEnd(Chunk, 1) = 0
    BY <1>7, <2>1, ByteEndFacts
  <2> QED
    BY <2>1, <2>2 DEF Codepoints
<1>9. ByteEnd(Chunk, cursor)' = 0
  BY <1>1, <1>3, <1>8 DEF ByteEnd
<1>10. Covered' = a /\ Covered = a
  BY <1>1, <1>5, <1>6, <1>9 DEF Covered
<1>11. Places'
  <2>1. SubSeq(Text, a + 1, a + 0) = << >>
    BY <1>6
  <2>2. 1 \in 1 .. m + 1
    OBVIOUS
  <2> QED
    BY <1>1, <1>2, <1>3, <1>5, <1>8, <1>9, <1>10, <2>1, <2>2 DEF Places
<1>12. Scanned'
  <2>1. \A p : AddedAt(p)' = AddedAt(p)
    BY <1>1, SameScan
  <2>2. AddedAt(pos)' = AddedAt(pos)
    BY <1>1, <2>1
  <2> QED
    BY <1>1, <1>2, <1>3, <2>1, <2>2 DEF Scanned
<1>13. Pushed' /\ Tiles' /\ Matched'
  BY <1>1, <1>2, <1>10, NoPush
<1>14. Streamed'
  BY <1>1, NotStreaming
<1> QED
  BY <1>4, <1>11, <1>12, <1>13, <1>14 DEF PathInv
LEMMA ScanStays ==
  ASSUME Scanned, Active, tables' = tables, input' = input, pos' = pos, chunkStart' = chunkStart,
         phase' = "splitting" => phase = "splitting"
  PROVE  Scanned'
<1>1. Text' = Text
  BY DEF Text
<1>2. \A p : AddedAt(p)' = AddedAt(p)
  BY SameScan
<1>3. AddedAt(pos)' = AddedAt(pos)
  BY <1>2
<1> QED
  BY <1>1, <1>2, <1>3 DEF Scanned

LEMMA KnownPiece ==
  ASSUME Tokenizing, Loaded, NEW raw \in Seq(Byte), Known(raw)
  PROVE  /\ Piece(raw) \in Tokens /\ Piece(raw).source = "bpe"
         /\ Piece(raw).id \in DOMAIN tables.idToToken
         /\ Unambiguous => DecodeOne(Piece(raw).id, FALSE) = raw
<1>1. tables.tokenToId = Doc.vocab
  BY TablesAre
<1>2. ByteLevelEncode(raw) \in DOMAIN Doc.vocab
  BY <1>1 DEF Known
<1>3. Piece(raw) = [source |-> "bpe", id |-> Doc.vocab[ByteLevelEncode(raw)]]
  BY <1>1 DEF Piece
<1>4. Doc.vocab[ByteLevelEncode(raw)] \in DOMAIN tables.idToToken
  BY <1>2, EntryIds
<1>5. Piece(raw) \in Tokens
  BY <1>3, <1>4 DEF Tokens, KnownIds
<1>6. Unambiguous => DecodeOne(Doc.vocab[ByteLevelEncode(raw)], FALSE) = raw
  BY <1>2, EntryDecodes DEF Tokenizing
<1>7. Piece(raw).source = "bpe" /\ Piece(raw).id = Doc.vocab[ByteLevelEncode(raw)]
  BY <1>3
<1>8. Piece(raw).id \in DOMAIN tables.idToToken
  BY <1>4, <1>7, Zenon
<1>9. Unambiguous => DecodeOne(Piece(raw).id, FALSE) = raw
  BY <1>6, <1>7, Zenon
<1> QED
  BY <1>5, <1>7, <1>8, <1>9, Zenon

(* The bytes before the chunk, and before the cursor in it.                *)
LEMMA SplittingFacts ==
  ASSUME Tokenizing, PathInv, phase = "splitting"
  PROVE  \E a \in Nat, b \in Nat, n \in Nat, e \in Nat, r \in Nat :
           /\ a = chunkStart - 1 /\ chunkStart = a + 1 /\ b = pos - 1 /\ pos = b + 1
           /\ n = Len(Codepoints) /\ r = Len(rest) /\ e = ByteEnd(Chunk, cursor)
           /\ a <= b /\ b <= Len(Text) /\ cursor \in 1 .. n + 1
           /\ r <= e /\ a + e <= b /\ Covered = (a + e) - r /\ Covered + r = a + e
           /\ rest = SubSeq(Text, Covered + 1, Covered + r)
           /\ Chunk = SubSeq(Text, a + 1, b) /\ Chunk \in Seq(Nat)
           /\ Len(Chunk) = b - a /\ Covered \in Nat /\ Len(Text) \in Nat
<1>1. Setup /\ Places /\ Active /\ Running
  BY DEF PathInv, Active, Running
<1>2. PICK t \in Nat : t = Len(Text) /\ Covered \in Nat
  BY <1>1, CoveredFacts
<1>3. chunkStart \in 1 .. t + 1 /\ pos \in chunkStart .. t + 1
  BY <1>1, <1>2 DEF Places
<1>4. PICK a \in Nat : a = chunkStart - 1 /\ chunkStart = a + 1
  <2>1. chunkStart - 1 \in Nat /\ chunkStart = (chunkStart - 1) + 1
    BY <1>3
  <2> QED
    BY <2>1
<1>5. PICK b \in Nat : b = pos - 1 /\ pos = b + 1
  <2>1. pos - 1 \in Nat /\ pos = (pos - 1) + 1
    BY <1>3
  <2> QED
    BY <2>1
<1>6. /\ a <= b /\ b <= Len(Text) /\ Chunk = SubSeq(Text, a + 1, b)
      /\ Chunk \in Seq(Nat) /\ Len(Chunk) = b - a
  BY <1>1, <1>4, <1>5, ChunkFacts
<1>7. PICK n : n = Len(DecodeUtf8(Chunk))
  OBVIOUS
<1>8. n \in Nat /\ \A k \in 1 .. n + 1 : ByteEnd(Chunk, k) \in 0 .. Len(Chunk)
  BY <1>6, <1>7, ByteEndFacts
<1>9. n = Len(Codepoints)
  BY <1>7 DEF Codepoints
<1>10. /\ cursor \in 1 .. n + 1 /\ Len(rest) <= ByteEnd(Chunk, cursor)
       /\ rest = SubSeq(Text, Covered + 1, Covered + Len(rest))
  BY <1>1, <1>9 DEF Places
<1>11. PICK e \in Nat : e = ByteEnd(Chunk, cursor) /\ e <= b - a
  BY <1>6, <1>8, <1>10
<1>12. PICK r \in Nat : r = Len(rest)
  BY <1>1, CoveredFacts
<1>13. r <= e
  BY <1>10, <1>11, <1>12
<1>14. Covered = (a + e) - r
  BY <1>4, <1>11, <1>12 DEF Covered
<1>15. Covered + r = a + e /\ a + e <= b
  BY <1>6, <1>11, <1>13, <1>14
<1>16. rest = SubSeq(Text, Covered + 1, Covered + r) /\ cursor \in 1 .. n + 1
  BY <1>10, <1>12
<1>17. n \in Nat /\ e = ByteEnd(Chunk, cursor)
  BY <1>8, <1>11
<1> QED
  BY <1>2, <1>4, <1>5, <1>6, <1>9, <1>12, <1>13, <1>14, <1>15, <1>16, <1>17, Zenon

LEMMA PretokenFacts ==
  ASSUME NEW chunk \in Seq(Nat), chunk = Chunk, NEW n \in Nat, n = Len(Codepoints),
         cursor \in 1 .. n, NEW taken, taken = Taken(Codepoints, cursor)
  PROVE  /\ cursor + taken \in 1 .. n + 1
         /\ ByteEnd(chunk, cursor) \in Nat /\ ByteEnd(chunk, cursor + taken) \in Nat
         /\ ByteEnd(chunk, cursor) < ByteEnd(chunk, cursor + taken)
         /\ ByteEnd(chunk, cursor + taken) <= Len(chunk)
         /\ PretokenFrom(taken) =
              SubSeq(chunk, ByteEnd(chunk, cursor) + 1, ByteEnd(chunk, cursor + taken))
<1>1. n = Len(DecodeUtf8(chunk)) /\ Codepoints = DecodeUtf8(chunk)
  BY DEF Codepoints
<1>2. /\ \A k \in 1 .. n + 1 : ByteEnd(chunk, k) \in 0 .. Len(chunk)
      /\ \A k \in 1 .. n : DecodeUtf8(chunk)[k].offset = ByteEnd(chunk, k) + 1
      /\ \A j, k \in 1 .. n + 1 : j < k => ByteEnd(chunk, j) < ByteEnd(chunk, k)
  BY <1>1, ByteEndFacts
<1>3. taken \in 1 .. (n + 1) - cursor
  <2>1. Taken(Codepoints, cursor) \in 1 .. n + 1 - cursor
    BY TakenBounded
  <2> QED
    BY <2>1
<1>4. PICK k \in 1 .. n + 1 : k = cursor + taken /\ cursor < k /\ cursor \in 1 .. n + 1
  BY <1>3
<1>5. PICK m \in Nat : m = Len(chunk)
  BY LenProperties
<1>6. PICK e \in 0 .. m : e = ByteEnd(chunk, cursor)
  BY <1>2, <1>4, <1>5
<1>7. PICK g \in 0 .. m : g = ByteEnd(chunk, k)
  BY <1>2, <1>5
<1>8. e < g
  BY <1>2, <1>4, <1>6, <1>7
<1>9. PretokenFrom(taken) = SubSeq(chunk, DecodeUtf8(chunk)[cursor].offset,
        IF cursor + taken <= n THEN DecodeUtf8(chunk)[cursor + taken].offset - 1
                               ELSE Len(chunk))
  BY <1>1 DEF PretokenFrom
<1>10. (IF cursor + taken <= n THEN DecodeUtf8(chunk)[cursor + taken].offset - 1
                               ELSE Len(chunk)) = g
  BY <1>1, <1>4, <1>7 DEF ByteEnd
<1>11. PretokenFrom(taken) = SubSeq(chunk, e + 1, g)
  BY <1>2, <1>6, <1>9, <1>10
<1> QED
  BY <1>4, <1>5, <1>6, <1>7, <1>8, <1>11
(* The text that rest' stands in, while the chunk stays.                   *)
LEMMA ChunkStays ==
  ASSUME input' = input, pos' = pos, chunkStart' = chunkStart
  PROVE  /\ Text' = Text /\ Chunk' = Chunk /\ Codepoints' = Codepoints
         /\ ByteEnd(Chunk, cursor)' = ByteEnd(Chunk, cursor')
<1>1. Text' = Text /\ Chunk' = Chunk
  BY DEF Text, Chunk, text
<1>2. Codepoints' = Codepoints
  BY <1>1 DEF Codepoints
<1>3. ByteEnd(Chunk, cursor)' = ByteEnd(Chunk, cursor')
  BY <1>1 DEF ByteEnd
<1> QED
  BY <1>1, <1>2, <1>3

LEMMA PlacesInChunk ==
  ASSUME Tokenizing, PathInv, phase = "splitting", phase' = "splitting",
         input' = input, pos' = pos, chunkStart' = chunkStart,
         cursor' \in 1 .. Len(Codepoints) + 1,
         NEW r \in Nat, r = Len(rest'), r <= ByteEnd(Chunk, cursor'),
         NEW c, c = Covered', rest' = SubSeq(Text, c + 1, c + r), rest' \in Seq(Byte)
  PROVE  Places'
<1>1. Active /\ Places
  BY DEF Active, PathInv
<1>2. /\ Text' = Text /\ Codepoints' = Codepoints
      /\ ByteEnd(Chunk, cursor)' = ByteEnd(Chunk, cursor')
  BY ChunkStays
<1> QED
  BY <1>1, <1>2 DEF Places

LEMMA SplitPlaces ==
  ASSUME NEW a \in Nat, NEW b \in Nat, NEW t \in Nat, NEW e \in Nat, NEW g \in Nat,
         a <= b, b <= t, e < g, g <= b - a
  PROVE  /\ e <= g /\ a + g <= b /\ a + e <= a + g /\ a + g <= t /\ a + e < a + g
         /\ (a + g) - (a + e) = g - e /\ (a + g) - (g - e) = a + e
         /\ \E m \in Nat : m = g - e /\ m <= g /\ (a + e) + m = a + g
<1>1. /\ e <= g /\ a + g <= b /\ a + e <= a + g /\ a + g <= t /\ a + e < a + g
      /\ (a + g) - (a + e) = g - e /\ (a + g) - (g - e) = a + e
  OBVIOUS
<1>2. g - e \in Nat /\ g - e <= g /\ (a + e) + (g - e) = a + g
  OBVIOUS
<1> QED
  BY <1>1, <1>2

LEMMA PiecePlaces ==
  ASSUME NEW a \in Nat, NEW b \in Nat, NEW t \in Nat, NEW e \in Nat, NEW r \in Nat,
         NEW p \in Nat, NEW m \in 1 .. r,
         a + e <= b, b <= t, r <= e, p + r = a + e
  PROVE  /\ p + r <= t /\ p + m <= p + r /\ p <= p + r /\ p < p + m /\ p + m <= t
         /\ r - m \in Nat /\ (p + m) + (r - m) = p + r /\ r - m <= e
         /\ (a + e) - (r - m) = p + m
OBVIOUS

LEMMA SplitKeeps ==
  ASSUME Tokenizing, PathInv, Split, Idle
  PROVE  PathInv'
<1>1. /\ Setup /\ Places /\ Scanned /\ phase = "splitting" /\ phase' = "splitting"
      /\ document' = document /\ tables' = tables /\ input' = input
      /\ pos' = pos /\ chunkStart' = chunkStart /\ rest = << >>
      /\ cursor <= Len(Codepoints)
  BY DEF PathInv, Split, object
<1>2. Active /\ Active' /\ Running /\ Running'
  BY <1>1 DEF Active, Running
<1>3. Loaded /\ Text \in Seq(Byte) /\ Text \in Seq(Nat)
  BY <1>1, <1>2, InputFacts
<1>4. PICK a \in Nat, b \in Nat, n \in Nat, e \in Nat, r \in Nat :
           /\ a = chunkStart - 1 /\ chunkStart = a + 1 /\ b = pos - 1 /\ pos = b + 1
           /\ n = Len(Codepoints) /\ r = Len(rest) /\ e = ByteEnd(Chunk, cursor)
           /\ a <= b /\ b <= Len(Text) /\ cursor \in 1 .. n + 1
           /\ r <= e /\ a + e <= b /\ Covered = (a + e) - r /\ Covered + r = a + e
           /\ rest = SubSeq(Text, Covered + 1, Covered + r)
           /\ Chunk = SubSeq(Text, a + 1, b) /\ Chunk \in Seq(Nat)
           /\ Len(Chunk) = b - a /\ Covered \in Nat /\ Len(Text) \in Nat
  BY <1>1, SplittingFacts
<1>4a. PICK t \in Nat : t = Len(Text) /\ a <= b /\ b <= t
  BY <1>4
<1>5. r = 0 /\ Covered = a + e /\ cursor \in 1 .. n
  <2>1. r = 0
    BY <1>1, <1>4
  <2> QED
    BY <1>1, <1>4, <2>1
<1>6. PICK taken : taken = Taken(Codepoints, cursor)
  OBVIOUS
<1>7. PICK g \in Nat : /\ g = ByteEnd(Chunk, cursor + taken) /\ e < g /\ g <= b - a
                       /\ cursor + taken \in 1 .. n + 1
                       /\ PretokenFrom(taken) = SubSeq(Chunk, e + 1, g)
  <2>1. PICK chunk \in Seq(Nat) : chunk = Chunk
    BY <1>4
  <2>2. /\ cursor + taken \in 1 .. n + 1
        /\ ByteEnd(chunk, cursor + taken) \in Nat
        /\ ByteEnd(chunk, cursor) < ByteEnd(chunk, cursor + taken)
        /\ ByteEnd(chunk, cursor + taken) <= Len(chunk)
        /\ PretokenFrom(taken) =
             SubSeq(chunk, ByteEnd(chunk, cursor) + 1, ByteEnd(chunk, cursor + taken))
    <3>1. n = Len(Codepoints)
      BY <1>4
    <3> QED
      BY <1>5, <1>6, <2>1, <3>1, PretokenFacts
  <2>3. Len(chunk) = b - a /\ ByteEnd(chunk, cursor) = e
    BY <1>4, <2>1
  <2> QED
    BY <2>1, <2>2, <2>3, Zenon
<1>7a. /\ e <= g /\ a + g <= b /\ a + e <= a + g /\ a + g <= t /\ a + e < a + g
       /\ (a + g) - (a + e) = g - e /\ (a + g) - (g - e) = a + e
       /\ \E m \in Nat : m = g - e /\ m <= g /\ (a + e) + m = a + g
  <2>1. e < g /\ g <= b - a /\ a <= b /\ b <= t
    BY <1>4a, <1>7
  <2> QED
    BY <2>1, SplitPlaces
<1>8. PICK pretoken \in Seq(Byte) :
        /\ pretoken = PretokenFrom(taken) /\ Len(pretoken) = g - e
        /\ pretoken = SubSeq(Text, (a + e) + 1, a + g)
  <2>1. e <= g /\ a + g <= b /\ a + e <= a + g /\ a + g <= Len(Text)
        /\ a + e \in Nat /\ a + g \in Nat /\ (a + g) - (a + e) = g - e
    BY <1>4a, <1>7a
  <2>2. SubSeq(SubSeq(Text, a + 1, b), e + 1, g) = SubSeq(Text, (a + e) + 1, a + g)
    <3>1. a <= b /\ b <= Len(Text)
      BY <1>4a
    <3> QED
      BY <1>3, <2>1, <3>1, PartOfPart
  <2>3. /\ SubSeq(Text, (a + e) + 1, a + g) \in Seq(Byte)
        /\ Len(SubSeq(Text, (a + e) + 1, a + g)) = (a + g) - (a + e)
    BY <1>3, <2>1, PartFacts
  <2> QED
    BY <1>4, <1>7, <2>1, <2>2, <2>3
<1>9. /\ cursor' = cursor + taken
      /\ \/ /\ Known(pretoken)
            /\ output' = Append(output, Piece(pretoken)) /\ rest' = rest
         \/ rest' = pretoken /\ output' = output
  BY <1>6, <1>8 DEF Split
<1>10. ByteEnd(Chunk, cursor)' = g /\ ByteEnd(Chunk, cursor') = g
  BY <1>1, <1>7, <1>9, ChunkStays
<1>11. Setup'
  BY <1>1, <1>2, SameTokenizer DEF Setup, Idle
<1>12. Scanned'
  BY <1>1, <1>2, ScanStays
<1>13. Streamed'
  BY <1>1, NotStreaming
<1>14. CASE Known(pretoken) /\ output' = Append(output, Piece(pretoken)) /\ rest' = rest
  <2>1. PICK x \in Tokens : /\ x = Piece(pretoken) /\ x.source = "bpe"
                            /\ x.id \in DOMAIN tables.idToToken
                            /\ Unambiguous => DecodeOne(x.id, FALSE) = pretoken
    <3>1. /\ Piece(pretoken) \in Tokens /\ Piece(pretoken).source = "bpe"
          /\ Piece(pretoken).id \in DOMAIN tables.idToToken
          /\ Unambiguous => DecodeOne(Piece(pretoken).id, FALSE) = pretoken
      BY <1>3, <1>14, KnownPiece
    <3> QED
      BY <3>1, Zenon
  <2>2. PICK p \in Nat : p = a + e
    OBVIOUS
  <2>3. PICK q \in Nat : q = a + g /\ p < q /\ q <= Len(Text)
    BY <1>4a, <1>7a, <2>2
  <2>4. Covered' = q
    <3>1. Len(rest') = 0
      BY <1>1, <1>14
    <3>2. Covered' = ((chunkStart - 1) + g) - 0
      BY <1>1, <1>10, <3>1 DEF Covered
    <3> QED
      BY <1>4, <2>3, <3>2
  <2>5. Pushes(x, p, q)
    <3>1. x.source # "added"
      BY <2>1
    <3>2. pretoken = SubSeq(Text, p + 1, q)
      BY <1>8, <2>2, <2>3
    <3>3. p = Covered /\ q = Covered'
      BY <1>5, <2>2, <2>4
    <3> QED
      BY <1>1, <1>2, <1>14, <2>1, <2>3, <3>1, <3>2, <3>3 DEF Pushes
  <2>6. Places'
    <3>1. cursor' \in 1 .. Len(Codepoints) + 1
      BY <1>4, <1>7, <1>9
    <3>2. Len(rest') = 0 /\ 0 <= ByteEnd(Chunk, cursor') /\ rest' \in Seq(Byte)
      BY <1>1, <1>10, <1>14
    <3>3. rest' = SubSeq(Text, q + 1, q + 0)
      BY <1>1, <1>14, <2>3
    <3> QED
      BY <1>1, <2>4, <3>1, <3>2, <3>3, PlacesInChunk
  <2>7. Pushed' /\ Tiles' /\ Matched'
    BY <2>5, PushKeepsPushed, PushKeepsTiles, PushKeepsMatched
  <2> QED
    BY <1>11, <1>12, <1>13, <2>6, <2>7 DEF PathInv
<1>15. CASE rest' = pretoken /\ output' = output
  <2>1. Len(rest') = g - e
    BY <1>8, <1>15
  <2>2. Covered' = Covered /\ Covered' = a + e
    <3>1. Covered' = ((chunkStart - 1) + g) - (g - e)
      BY <1>1, <1>10, <2>1 DEF Covered
    <3>2. chunkStart - 1 = a
      BY <1>4
    <3> QED
      BY <1>5, <1>7a, <3>1, <3>2
  <2>3. Places'
    <3>1. cursor' \in 1 .. Len(Codepoints) + 1
      BY <1>4, <1>7, <1>9
    <3>2. PICK m \in Nat : m = g - e /\ m <= g /\ (a + e) + m = a + g
      BY <1>7a
    <3>3. PICK c \in Nat : c = a + e /\ c = Covered'
      BY <2>2
    <3>4. rest' = SubSeq(Text, c + 1, c + m)
      BY <1>8, <1>15, <3>2, <3>3
    <3>5. m = Len(rest') /\ m <= ByteEnd(Chunk, cursor') /\ rest' \in Seq(Byte)
      BY <1>8, <1>10, <1>15, <2>1, <3>2
    <3> QED
      BY <1>1, <3>1, <3>3, <3>4, <3>5, PlacesInChunk
  <2>4. Pushed' /\ Tiles' /\ Matched'
    BY <1>1, <1>2, <1>15, <2>2, NoPush
  <2> QED
    BY <1>11, <1>12, <1>13, <2>3, <2>4 DEF PathInv
<1> QED
  BY <1>9, <1>14, <1>15

LEMMA BpeTokenKeeps ==
  ASSUME Tokenizing, PathInv, BpeToken, Idle
  PROVE  PathInv'
<1>1. /\ Setup /\ Places /\ Scanned /\ phase = "splitting" /\ phase' = "splitting"
      /\ document' = document /\ tables' = tables /\ input' = input
      /\ pos' = pos /\ chunkStart' = chunkStart /\ cursor' = cursor
  BY DEF PathInv, BpeToken, object
<1>2. Active /\ Active' /\ Running /\ Running'
  BY <1>1 DEF Active, Running
<1>3. Loaded /\ Text \in Seq(Byte) /\ Text \in Seq(Nat) /\ rest \in Seq(Byte)
  BY <1>1, <1>2, InputFacts DEF Places
<1>4. PICK a \in Nat, b \in Nat, n \in Nat, e \in Nat, r \in Nat :
           /\ a = chunkStart - 1 /\ chunkStart = a + 1 /\ b = pos - 1 /\ pos = b + 1
           /\ n = Len(Codepoints) /\ r = Len(rest) /\ e = ByteEnd(Chunk, cursor)
           /\ a <= b /\ b <= Len(Text) /\ cursor \in 1 .. n + 1
           /\ r <= e /\ a + e <= b /\ Covered = (a + e) - r /\ Covered + r = a + e
           /\ rest = SubSeq(Text, Covered + 1, Covered + r)
           /\ Chunk = SubSeq(Text, a + 1, b) /\ Chunk \in Seq(Nat)
           /\ Len(Chunk) = b - a /\ Covered \in Nat /\ Len(Text) \in Nat
  BY <1>1, SplittingFacts
<1>5. PICK m \in 1 .. r : /\ Known(SubSeq(rest, 1, m))
                          /\ output' = Append(output, Piece(SubSeq(rest, 1, m)))
                          /\ rest' = SubSeq(rest, Len(SubSeq(rest, 1, m)) + 1, r)
  <2>1. PICK piece \in Pieces : /\ Known(piece) /\ output' = Append(output, Piece(piece))
                                     /\ rest' = SubSeq(rest, Len(piece) + 1, r)
    BY <1>4 DEF BpeToken
  <2>2. PICK m \in 1 .. r : piece = SubSeq(rest, 1, m)
    BY <1>4, <2>1 DEF Pieces
  <2> QED
    BY <2>1, <2>2
<1>6. m \in 0 .. r /\ m \in Nat /\ m <= r /\ 0 <= m
  BY <1>5
<1>6a. PICK p \in Nat, t \in Nat : p = Covered /\ t = Len(Text) /\ p + r = a + e
  BY <1>4
<1>6b. /\ p + r <= t /\ p + m <= p + r /\ p <= p + r /\ p < p + m /\ p + m <= t
       /\ r - m \in Nat /\ (p + m) + (r - m) = p + r /\ r - m <= e
       /\ (a + e) - (r - m) = p + m
  <2>1. a + e <= b /\ b <= t /\ r <= e
    BY <1>4, <1>6a
  <2> QED
    BY <1>6a, <2>1, PiecePlaces
<1>7. p = Covered /\ p + r <= Len(Text) /\ p + m <= p + r /\ p <= p + r
  BY <1>6a, <1>6b
<1>8. PICK q \in Nat : q = p + m /\ p < q /\ q <= Len(Text)
  BY <1>6, <1>6a, <1>6b
<1>9. /\ SubSeq(rest, 1, m) \in Seq(Byte) /\ Len(SubSeq(rest, 1, m)) = m
      /\ SubSeq(rest, m + 1, r) \in Seq(Byte) /\ Len(SubSeq(rest, m + 1, r)) = r - m
  BY <1>3, <1>4, <1>6, CutInTwo
<1>10. SubSeq(rest, 1, m) = SubSeq(Text, p + 1, q)
  <2>1. SubSeq(SubSeq(Text, p + 1, p + r), 0 + 1, m) = SubSeq(Text, (p + 0) + 1, p + m)
    BY <1>3, <1>6, <1>7, PartOfPart
  <2>2. 0 + 1 = 1 /\ p + 0 = p
    OBVIOUS
  <2> QED
    BY <1>4, <1>7, <1>8, <2>1, <2>2
<1>11. SubSeq(rest, m + 1, r) = SubSeq(Text, q + 1, p + r)
  <2>1. SubSeq(SubSeq(Text, p + 1, p + r), m + 1, r) = SubSeq(Text, (p + m) + 1, p + r)
    BY <1>3, <1>6, <1>7, PartOfPart
  <2> QED
    BY <1>4, <1>7, <1>8, <2>1
<1>12. PICK s \in Nat : s = r - m /\ q + s = p + r /\ s <= e
  <2>1. r - m \in Nat /\ q + (r - m) = p + r /\ r - m <= e
    BY <1>6b, <1>8
  <2> QED
    BY <2>1
<1>13. rest' = SubSeq(Text, q + 1, q + s) /\ Len(rest') = s /\ rest' \in Seq(Byte)
  BY <1>5, <1>9, <1>11, <1>12
<1>14. ByteEnd(Chunk, cursor)' = e /\ ByteEnd(Chunk, cursor') = e
  BY <1>1, <1>4, ChunkStays
<1>15. Covered' = q
  <2>1. Covered' = ((chunkStart - 1) + e) - s
    BY <1>1, <1>13, <1>14 DEF Covered
  <2>2. (a + e) - s = q
    BY <1>6b, <1>8, <1>12
  <2> QED
    BY <1>4, <2>1, <2>2
<1>16. PICK raw \in Seq(Byte) : raw = SubSeq(rest, 1, m)
  BY <1>9
<1>17. PICK x \in Tokens : /\ x = Piece(raw) /\ x.source = "bpe"
                           /\ x.id \in DOMAIN tables.idToToken
                           /\ Unambiguous => DecodeOne(x.id, FALSE) = raw
  <2>1. Known(raw)
    BY <1>5, <1>16
  <2>2. /\ Piece(raw) \in Tokens /\ Piece(raw).source = "bpe"
        /\ Piece(raw).id \in DOMAIN tables.idToToken
        /\ Unambiguous => DecodeOne(Piece(raw).id, FALSE) = raw
    BY <1>3, <2>1, KnownPiece
  <2> QED
    BY <2>2, Zenon
<1>18. Pushes(x, p, q)
  <2>1. x.source # "added"
    BY <1>17
  <2> QED
    BY <1>1, <1>2, <1>5, <1>7, <1>8, <1>10, <1>15, <1>16, <1>17, <2>1 DEF Pushes
<1>19. Setup'
  BY <1>1, <1>2, SameTokenizer DEF Setup, Idle
<1>20. Places'
  BY <1>1, <1>4, <1>12, <1>13, <1>14, <1>15, PlacesInChunk
<1>21. Scanned'
  BY <1>1, <1>2, ScanStays
<1>22. Streamed'
  BY <1>1, NotStreaming
<1>23. Pushed' /\ Tiles' /\ Matched'
  BY <1>18, PushKeepsPushed, PushKeepsTiles, PushKeepsMatched
<1> QED
  BY <1>19, <1>20, <1>21, <1>22, <1>23 DEF PathInv

LEMMA ThrowKeeps ==
  ASSUME Tokenizing, PathInv, BpeThrows, Idle
  PROVE  PathInv'
<1>1. /\ Setup /\ Places /\ Scanned /\ phase = "splitting" /\ phase' = "failed"
      /\ document' = document /\ tables' = tables /\ input' = input /\ rest' = rest
      /\ pos' = pos /\ chunkStart' = chunkStart /\ cursor' = cursor /\ output' = output
  BY DEF PathInv, BpeThrows, object
<1>2. Active /\ Active' /\ Running /\ ~Running'
  BY <1>1 DEF Active, Running
<1>3. Text' = Text
  BY <1>1 DEF Text
<1>4. Setup'
  BY <1>1, <1>2, SameTokenizer DEF Setup, Idle
<1>5. Places'
  BY <1>1, <1>2, <1>3 DEF Places
<1>6. Scanned'
  BY <1>1, <1>2, ScanStays
<1>7. Pushed' /\ Tiles' /\ Matched'
  BY <1>1, <1>2, NoPush
<1>8. Streamed'
  BY <1>1, NotStreaming
<1> QED
  BY <1>4, <1>5, <1>6, <1>7, <1>8 DEF PathInv
(* What occurs somewhere matches there, and what matches occurs.           *)
LEMMA OccursIsMatched ==
  ASSUME Tokenizing, Loaded, Text \in Seq(Nat),
         NEW p \in 1 .. Len(Text), NEW c \in Contents, OccursAt(c, p)
  PROVE  c \in MatchesAt(p) /\ text[p] \in FirstBytes
<1>1. c \in Seq(Nat) /\ c # << >>
  BY ContentIds DEF Tokenizing, Contents, OccursAt
<1>2. PICK m \in Nat : m = Len(c)
  BY <1>1, LenProperties
<1>3. PICK n \in Nat : n = Len(Text)
  BY LenProperties
<1>4. 0 < m
  BY <1>1, <1>2, EmptySeq
<1>5. PICK a \in Nat : p = a + 1 /\ a <= n
  <2>1. p - 1 \in Nat /\ p = (p - 1) + 1 /\ p - 1 <= n
    BY <1>3
  <2> QED
    BY <2>1
<1>6. SubSeq(Text, a + 1, n) \in Seq(Nat) /\ Len(SubSeq(Text, a + 1, n)) = n - a
  BY <1>3, <1>5, PartFacts
<1>7. m <= n - a /\ SubSeq(c, 1, m) = SubSeq(SubSeq(Text, a + 1, n), 1, m)
  BY <1>2, <1>3, <1>5, <1>6 DEF OccursAt, IsPrefix
<1>8. SubSeq(c, 1, m) = c
  BY <1>1, <1>2, SubSeqFull
<1>9. a + m <= n /\ a + 0 = a /\ 0 + 1 = 1 /\ (a + 1) + m - 1 = a + m
  BY <1>7
<1>10. SubSeq(SubSeq(Text, a + 1, n), 0 + 1, m) = SubSeq(Text, (a + 0) + 1, a + m)
  BY <1>3, <1>5, <1>9, PartOfPart
<1>11. c = SubSeq(Text, a + 1, a + m)
  BY <1>7, <1>8, <1>9, <1>10
<1>12. Text[a + 1] = c[1]
  <2>1. \A k \in 1 .. (a + m) - a : SubSeq(Text, a + 1, a + m)[k] = Text[a + k]
    <3>1. a <= a + m /\ a + m <= Len(Text) /\ a + m \in Nat
      BY <1>3, <1>9
    <3> QED
      BY <3>1, PartFacts
  <2>2. 1 \in 1 .. (a + m) - a
    BY <1>4
  <2> QED
    BY <1>11, <2>1, <2>2
<1>13. Text[p] \in FirstBytes
  <2>1. Head(c) = c[1]
    BY <1>1
  <2>2. Head(c) \in FirstBytes
    BY <1>1 DEF FirstBytes
  <2> QED
    BY <1>5, <1>12, <2>1, <2>2
<1>14. c \in MatchesAt(p)
  <2>1. Len(c) \in Lengths
    BY <1>1 DEF Lengths
  <2>2. p + Len(c) - 1 = a + m
    BY <1>2, <1>5, <1>9
  <2> QED
    BY <1>3, <1>5, <1>9, <1>11, <2>1, <2>2 DEF MatchesAt, text, Text
<1> QED
  BY <1>13, <1>14 DEF text, Text

LEMMA MatchFacts ==
  ASSUME Tokenizing, Loaded, Text \in Seq(Nat), NEW p \in 1 .. Len(Text),
         NEW c \in MatchesAt(p)
  PROVE  /\ c \in Contents /\ c \in Seq(Nat) /\ Len(c) \in Nat
         /\ 0 < Len(c) /\ p + Len(c) - 1 <= Len(Text)
         /\ c = SubSeq(Text, p, p + Len(c) - 1)
<1>1. /\ c \in Contents /\ Len(c) \in Lengths /\ p + Len(c) - 1 <= Len(Text)
      /\ c = SubSeq(Text, p, p + Len(c) - 1)
  BY DEF MatchesAt, text, Text
<1>2. c \in Seq(Nat)
  BY <1>1, ContentIds DEF Tokenizing, Contents
<1>3. PICK d \in Contents \ {<< >>} : Len(c) = Len(d)
  BY <1>1 DEF Lengths
<1>4. d \in Seq(Nat) /\ d # << >>
  BY <1>3, ContentIds DEF Tokenizing, Contents
<1>5. Len(d) \in Nat /\ Len(d) # 0
  BY <1>4, LenProperties, EmptySeq
<1> QED
  BY <1>1, <1>2, <1>3, <1>5

LEMMA MatchOccurs ==
  ASSUME Tokenizing, Loaded, Text \in Seq(Nat), NEW p \in 1 .. Len(Text),
         NEW c \in MatchesAt(p)
  PROVE  OccursAt(c, p)
<1>1. /\ c \in Seq(Nat) /\ Len(c) \in Nat /\ 0 < Len(c) /\ p + Len(c) - 1 <= Len(Text)
      /\ c = SubSeq(Text, p, p + Len(c) - 1)
  BY MatchFacts
<1>2. PICK m \in Nat : m = Len(c) /\ 0 < m
  BY <1>1
<1>3. PICK n \in Nat : n = Len(Text)
  BY LenProperties
<1>4. PICK a \in Nat : p = a + 1 /\ a <= n
  <2>1. p - 1 \in Nat /\ p = (p - 1) + 1 /\ p - 1 <= n
    BY <1>3
  <2> QED
    BY <2>1
<1>5. a + m <= n /\ m <= n - a /\ (a + 1) + m - 1 = a + m /\ a + 0 = a /\ 0 + 1 = 1
  BY <1>1, <1>2, <1>3, <1>4
<1>6. SubSeq(Text, a + 1, n) \in Seq(Nat) /\ Len(SubSeq(Text, a + 1, n)) = n - a
  BY <1>3, <1>4, PartFacts
<1>7. SubSeq(SubSeq(Text, a + 1, n), 0 + 1, m) = SubSeq(Text, (a + 0) + 1, a + m)
  BY <1>3, <1>4, <1>5, PartOfPart
<1>8. SubSeq(c, 1, m) = c
  BY <1>1, <1>2, SubSeqFull
<1>9. SubSeq(c, 1, m) = SubSeq(SubSeq(Text, a + 1, n), 1, m)
  BY <1>1, <1>2, <1>4, <1>5, <1>7, <1>8
<1>10. c # << >>
  BY <1>1, EmptySeq
<1> QED
  BY <1>2, <1>3, <1>4, <1>5, <1>6, <1>9, <1>10 DEF OccursAt, IsPrefix

LEMMA LongestMatch ==
  ASSUME Tokenizing, Loaded, Text \in Seq(Nat), NEW p \in 1 .. Len(Text),
         MatchesAt(p) # {}
  PROVE  /\ Longest(MatchesAt(p)) \in MatchesAt(p)
         /\ \A c \in MatchesAt(p) : Len(c) <= Len(Longest(MatchesAt(p)))
<1> DEFINE Sizes == {Len(c) : c \in MatchesAt(p)}
<1>1. PICK n \in Nat : n = Len(Text)
  BY LenProperties
<1>2. ASSUME NEW c \in MatchesAt(p) PROVE Len(c) \in Nat /\ Len(c) <= n
  <2>1. Len(c) \in Nat /\ p + Len(c) - 1 <= n
    BY <1>1, MatchFacts
  <2>2. PICK m \in Nat : m = Len(c) /\ p + m - 1 <= n
    BY <2>1
  <2>3. m <= n
    BY <1>1, <2>2
  <2> QED
    BY <2>2, <2>3
<1>3. Sizes \in SUBSET Nat /\ Sizes # {} /\ \A y \in Sizes : y <= n
  BY <1>2
<1> HIDE DEF Sizes
<1>4. PICK x \in Sizes : \A y \in Sizes : y <= x
  BY <1>3, GreatestNat
<1>5. \E c \in MatchesAt(p) : \A d \in MatchesAt(p) : Len(d) <= Len(c)
  BY <1>4 DEF Sizes
<1> QED
  BY <1>5 DEF Longest

LEMMA FlushedFacts ==
  ASSUME Tokenizing, PathInv, Flushed
  PROVE  Covered = pos - 1 /\ pos - 1 \in Nat /\ pos \in Nat
<1>1. phase = "splitting" /\ rest = << >> /\ cursor > Len(Codepoints)
  BY DEF Flushed
<1>2. PICK a \in Nat, b \in Nat, n \in Nat, e \in Nat, r \in Nat :
           /\ a = chunkStart - 1 /\ chunkStart = a + 1 /\ b = pos - 1 /\ pos = b + 1
           /\ n = Len(Codepoints) /\ r = Len(rest) /\ e = ByteEnd(Chunk, cursor)
           /\ a <= b /\ b <= Len(Text) /\ cursor \in 1 .. n + 1
           /\ r <= e /\ a + e <= b /\ Covered = (a + e) - r /\ Covered + r = a + e
           /\ rest = SubSeq(Text, Covered + 1, Covered + r)
           /\ Chunk = SubSeq(Text, a + 1, b) /\ Chunk \in Seq(Nat)
           /\ Len(Chunk) = b - a /\ Covered \in Nat /\ Len(Text) \in Nat
  BY <1>1, SplittingFacts
<1>3. r = 0 /\ cursor = n + 1
  BY <1>1, <1>2
<1>4. n = Len(DecodeUtf8(Chunk))
  BY <1>2 DEF Codepoints
<1>5. ByteEnd(Chunk, n + 1) = Len(Chunk)
  BY <1>2, <1>4, ByteEndFacts
<1>6. e = b - a
  BY <1>2, <1>3, <1>5
<1>7. Covered = b
  <2>1. Covered = (a + e) - r /\ a <= b
    BY <1>2
  <2>2. (a + (b - a)) - 0 = b
    OBVIOUS
  <2> QED
    BY <1>3, <1>6, <2>1, <2>2
<1>8. b = pos - 1 /\ pos = b + 1
  BY <1>2
<1> QED
  BY <1>7, <1>8

LEMMA PushAddedKeeps ==
  ASSUME Tokenizing, PathInv, PushAdded, Idle
  PROVE  PathInv'
<1> DEFINE content == Longest(AddedAt(pos))
<1>1. /\ Setup /\ Places /\ Scanned /\ phase = "splitting" /\ phase' = "scanning"
      /\ document' = document /\ tables' = tables /\ input' = input
      /\ rest' = rest /\ rest = << >> /\ pos <= Len(Text)
      /\ output' = Append(output, Added(content)) /\ pos' = pos + Len(content)
      /\ chunkStart' = pos' /\ Flushed
  BY DEF PathInv, PushAdded, Flushed, object, text, Text
<1>2. Active /\ Active' /\ Running /\ Running'
  BY <1>1 DEF Active, Running
<1>3. Loaded /\ Text \in Seq(Nat)
  BY <1>1, <1>2, InputFacts
<1>4. PICK n \in Nat : n = Len(Text)
  BY <1>3, LenProperties
<1>5. PICK p \in Nat : p = Covered /\ pos = p + 1 /\ p < n
  <2>1. Covered = pos - 1 /\ pos - 1 \in Nat /\ pos \in Nat
    BY <1>1, FlushedFacts
  <2>2. pos = (pos - 1) + 1 /\ pos - 1 < n
    BY <1>1, <1>4, <2>1
  <2> QED
    BY <2>1, <2>2
<1>6. pos \in 1 .. Len(Text) /\ AddedAt(pos) # {}
  BY <1>1, <1>2, <1>4, <1>5 DEF Scanned
<1>7. /\ input.parseSpecial /\ content \in MatchesAt(pos)
      /\ \A c \in MatchesAt(pos) : Len(c) <= Len(content)
  <2>1. input.parseSpecial /\ AddedAt(pos) = MatchesAt(pos) /\ MatchesAt(pos) # {}
    BY <1>6 DEF AddedAt
  <2> QED
    BY <1>3, <1>6, <2>1, LongestMatch
<1> HIDE DEF content
<1>8. /\ input.parseSpecial /\ content \in Contents /\ content \in Seq(Nat)
      /\ Len(content) \in Nat /\ 0 < Len(content) /\ pos + Len(content) - 1 <= Len(Text)
      /\ content = SubSeq(Text, pos, pos + Len(content) - 1)
  BY <1>3, <1>6, <1>7, MatchFacts
<1>9. PICK m \in Nat : m = Len(content) /\ 0 < m
  BY <1>8
<1>10. PICK q \in Nat : q = p + m /\ p < q /\ q <= n /\ pos + m - 1 = q /\ pos + m = q + 1
                        /\ q - p = m
  <2>1. (p + 1) + m - 1 <= n
    BY <1>4, <1>5, <1>8, <1>9
  <2>2. p < p + m /\ p + m <= n /\ (p + 1) + m - 1 = p + m /\ (p + 1) + m = (p + m) + 1
        /\ (p + m) - p = m
    BY <1>9, <2>1
  <2> QED
    BY <1>5, <2>2
<1>11. content = SubSeq(Text, p + 1, q)
  BY <1>5, <1>8, <1>9, <1>10
<1>12. pos' = q + 1 /\ chunkStart' = q + 1 /\ Covered' = q
  <2>1. pos' = q + 1 /\ chunkStart' = q + 1
    BY <1>1, <1>9, <1>10
  <2>2. (q + 1) - 1 = q
    OBVIOUS
  <2> QED
    BY <1>1, <2>1, <2>2 DEF Covered
<1>13. PICK x \in Tokens : x = Added(content) /\ x.source = "added"
                           /\ x.id = tables.addedByContent[content]
  <2>1. tables.addedByContent[content] \in DOMAIN tables.addedById
    BY <1>3, <1>8, ContentIds DEF Tokenizing, Contents
  <2>2. Added(content) = [source |-> "added", id |-> tables.addedByContent[content]]
    BY DEF Added
  <2>3. Added(content) \in Tokens
    BY <2>1, <2>2 DEF Tokens, KnownIds
  <2> QED
    BY <2>2, <2>3
<1>14. Unambiguous => DecodeOne(x.id, FALSE) = content
  BY <1>3, <1>8, <1>13, ContentDecodes DEF Tokenizing, Contents
<1>15. \A c \in Contents : OccursAt(c, p + 1) => Len(c) <= q - p
  <2> TAKE c \in Contents
  <2> HAVE OccursAt(c, p + 1)
  <2>1. c \in MatchesAt(pos)
    BY <1>3, <1>5, <1>6, OccursIsMatched
  <2> QED
    BY <1>7, <1>9, <1>10, <2>1
<1>16. Pushes(x, p, q)
  <2>1. x.source # "bpe"
    BY <1>13
  <2> QED
    BY <1>1, <1>2, <1>4, <1>5, <1>8, <1>10, <1>11, <1>12, <1>13, <1>14, <1>15, <2>1 DEF Pushes
<1>17. Setup'
  BY <1>1, <1>2, SameTokenizer DEF Setup, Idle
<1>18. Places'
  <2>1. Text' = Text
    BY <1>1 DEF Text
  <2>2. q + 1 \in 1 .. n + 1 /\ q + 1 \in q + 1 .. n + 1
    BY <1>10
  <2>3. << >> \in Seq(Byte)
    OBVIOUS
  <2> QED
    BY <1>1, <1>4, <1>12, <2>1, <2>2, <2>3 DEF Places
<1>19. Scanned'
  <2>1. chunkStart' .. pos' - 1 = {}
    BY <1>12
  <2> QED
    BY <1>1, <2>1 DEF Scanned
<1>20. Streamed'
  BY <1>1, NotStreaming
<1>21. Pushed' /\ Tiles' /\ Matched'
  BY <1>16, PushKeepsPushed, PushKeepsTiles, PushKeepsMatched
<1> QED
  BY <1>17, <1>18, <1>19, <1>20, <1>21 DEF PathInv
(* The marker is printable.                                                *)
LEMMA BosIsName ==
  ASSUME Tokenizing, PathInv, Running, Unambiguous
  PROVE  /\ Bos \in Seq(Nat) /\ Whole(Bos)
         /\ input.addBos => /\ Bos # << >>
                            /\ \E k \in DOMAIN BosNames : Bos = BosNames[k]
<1>1. Setup /\ Places /\ Pushed /\ Active
  BY DEF PathInv, Active, Running
<1>2. Loaded /\ output \in Seq(Tokens)
  BY <1>1, InputFacts DEF Pushed
<1>3. Bos \in Seq(Nat)
  BY <1>1, BosFacts
<1>4. CASE input.addBos
  <2>1. Marked
    BY <1>1, <1>4 DEF Pushed
  <2>2. output[1] = [source |-> "bos", id |-> tables.bosId] /\ ~(tables.bosId < 0)
    BY <2>1 DEF Marked
  <2>3. output[1].id = tables.bosId
    BY <2>2
  <2>4. output[1] \in Tokens
    <3>1. PICK n \in Nat : n = Len(output)
      BY <1>2, LenProperties
    <3>2. 1 \in 1 .. n
      BY <2>1, <3>1 DEF Marked
    <3> QED
      BY <1>2, <3>1, <3>2, ElementOfSeq
  <2>5. Bos = DecodeOne(tables.bosId, FALSE)
    <3>1. PICK x \in Tokens : x = output[1]
      BY <2>4
    <3>2. Decode(<<x>>, FALSE) = DecodeOne(x.id, FALSE)
      BY <1>2, DecodeSingle DEF Tokenizing
    <3> QED
      BY <1>4, <2>3, <3>1, <3>2 DEF Bos
  <2>6. PICK k \in DOMAIN BosNames : /\ DecodeOne(tables.bosId, FALSE) = BosNames[k]
                                     /\ BosNames[k] \in Seq(Nat) /\ BosNames[k] # << >>
    BY <1>2, <2>2, BosDecodes DEF Tokenizing
  <2>7. BosNames[k] \in Seq(33 .. 126)
    <3>1. BosNames \in Seq(Seq(33 .. 126) \ {<< >>})
      BY DEF Tokenizing, VocabularyAssumption
    <3>2. PICK n \in Nat : n = Len(BosNames) /\ DOMAIN BosNames = 1 .. n
      BY <3>1, LenProperties
    <3>3. BosNames[k] \in Seq(33 .. 126) \ {<< >>}
      BY <3>1, <3>2, ElementOfSeq
    <3> QED
      BY <3>3
  <2>8. \A i \in 1 .. Len(BosNames[k]) : BosNames[k][i] \in 33 .. 126
    BY <2>7, ElementOfSeq
  <2>9. Whole(BosNames[k])
    BY <2>6, <2>8, AsciiWhole
  <2> QED
    BY <1>3, <2>5, <2>6, <2>9
<1>5. CASE ~input.addBos
  <2>1. Bos = << >>
    BY <1>5 DEF Bos
  <2>2. << >> \in Seq(Nat) /\ \A k \in 1 .. Len(<< >>) : << >>[k] \in 33 .. 126
    OBVIOUS
  <2>3. Whole(<< >>)
    BY <2>2, AsciiWhole
  <2> QED
    BY <1>3, <1>5, <2>1, <2>3
<1> QED
  BY <1>4, <1>5

LEMMA OutputWhole ==
  ASSUME Tokenizing, PathInv, Running, Covered = Len(Text), Unambiguous, Whole(Text)
  PROVE  Whole(Decode(output, input.skipSpecial))
<1>1. Setup /\ Places /\ Pushed /\ Tiles /\ Active
  BY DEF PathInv, Active, Running
<1>2. Loaded /\ Text \in Seq(Nat) /\ output \in Seq(Tokens) /\ input.skipSpecial \in BOOLEAN
  BY <1>1, InputFacts DEF Pushed
<1>3. Bos \in Seq(Nat) /\ Whole(Bos)
  BY BosIsName
<1>4. SubSeq(Text, 1, Len(Text)) = Text
  BY <1>2, SubSeqFull
<1>5. Decode(output, FALSE) = Bos \o Text
  BY <1>1, <1>4 DEF Tiles
<1>6. Whole(Bos \o Text)
  BY <1>2, <1>3, JoinWhole
<1>7. Whole(Decode(output, FALSE))
  BY <1>5, <1>6
<1>8. Whole(Decode(output, TRUE))
  BY <1>2, <1>7, SkippedWhole DEF Tokenizing
<1>9. input.skipSpecial = TRUE \/ input.skipSpecial = FALSE
  BY <1>2
<1> QED
  BY <1>7, <1>8, <1>9

LEMMA EndKeeps ==
  ASSUME Tokenizing, PathInv, EndOfText, Idle
  PROVE  PathInv'
<1>1. /\ Setup /\ Places /\ Scanned /\ Streamed /\ phase = "splitting" /\ phase' = "encoded"
      /\ document' = document /\ tables' = tables /\ input' = input
      /\ rest' = rest /\ rest = << >> /\ pos > Len(Text) /\ pos' = pos
      /\ chunkStart' = chunkStart /\ output' = output /\ Flushed
  BY DEF PathInv, EndOfText, Flushed, object, text, Text
<1>2. Active /\ Active' /\ Running /\ Running'
  BY <1>1 DEF Active, Running
<1>3. Loaded /\ Text \in Seq(Nat) /\ output \in Seq(Tokens)
  <2>1. Pushed
    BY DEF PathInv
  <2> QED
    BY <1>1, <1>2, <2>1, InputFacts DEF Pushed
<1>4. PICK n \in Nat : n = Len(Text)
  BY <1>3, LenProperties
<1>5. Text' = Text
  BY <1>1 DEF Text
<1>6. Covered = n /\ Covered' = Covered
  <2>1. Covered = pos - 1 /\ pos \in Nat
    BY <1>1, FlushedFacts
  <2>2. pos \in chunkStart .. n + 1 /\ chunkStart \in 1 .. n + 1
    BY <1>1, <1>2, <1>4 DEF Places
  <2>3. Covered = n
    BY <1>1, <1>4, <2>1, <2>2
  <2>4. Covered' = n
    BY <1>1, <1>4, <1>5 DEF Covered
  <2> QED
    BY <2>3, <2>4
<1>7. Setup'
  BY <1>1, <1>2, SameTokenizer DEF Setup, Idle
<1>8. Places'
  BY <1>1, <1>2, <1>5 DEF Places
<1>9. Scanned'
  BY <1>1, <1>2, ScanStays
<1>10. Pushed' /\ Tiles' /\ Matched'
  BY <1>1, <1>2, <1>6, NoPush
<1>11. /\ fed' = 0 /\ pending' = << >> /\ written' = << >>
  BY <1>1 DEF Setup, Idle
<1>12. Decode(SubSeq(output, 1, fed), input.skipSpecial)' = << >>
  <2>1. SubSeq(output', 1, fed') = << >>
    BY <1>11
  <2>2. Decode(SubSeq(output, 1, fed), input.skipSpecial)' = Decode(<< >>, input.skipSpecial)
    BY <1>1, <2>1, SameTokenizer
  <2>3. input.skipSpecial \in BOOLEAN
    BY <1>1, <1>2, InputFacts
  <2> QED
    BY <1>3, <2>2, <2>3, DecodeNone DEF Tokenizing
<1>13. ASSUME Unambiguous, Whole(Text) PROVE InCharacters'
  <2>1. Whole(Decode(output, input.skipSpecial))
    BY <1>2, <1>4, <1>6, <1>13, OutputWhole
  <2>2. PICK B \in SUBSET Nat : Bounded(Decode(output, input.skipSpecial), B)
    BY <2>1 DEF Whole
  <2>3. 0 \in B
    BY <2>2 DEF Bounded
  <2>4. Decode(output, input.skipSpecial)' = Decode(output, input.skipSpecial)
    BY <1>1, SameTokenizer
  <2>5. Len(written') = 0
    BY <1>11
  <2> QED
    BY <2>2, <2>3, <2>4, <2>5 DEF InCharacters
<1>14. Streamed'
  <2>1. Unambiguous' <=> Unambiguous
    BY <1>1, SameTokenizer
  <2>2. << >> \o << >> = << >> /\ << >> \in Seq(Nat)
    OBVIOUS
  <2>3. Len(output') \in Nat
    BY <1>1, <1>3, LenProperties
  <2> QED
    BY <1>1, <1>5, <1>11, <1>12, <1>13, <2>1, <2>2, <2>3 DEF Streamed
<1> QED
  BY <1>7, <1>8, <1>9, <1>10, <1>14 DEF PathInv

-----------------------------------------------------------------------------
(* The streamer.                                                           *)
LEMMA StreamingKeeps ==
  ASSUME Tokenizing, PathInv, phase = "encoded", phase' \in {"encoded", "done"},
         UNCHANGED <<document, tables, input, pos, chunkStart, cursor, rest, output>>
  PROVE  Setup' /\ Places' /\ Pushed' /\ Tiles' /\ Scanned' /\ Matched'
<1>1. Setup /\ Places /\ Scanned
  BY DEF PathInv
<1>2. Active /\ Active' /\ Running /\ Running'
  BY DEF Active, Running
<1>3. Text' = Text /\ Covered = Len(Text) /\ Covered' = Len(Text)
  BY DEF Text, Covered
<1>4. Setup'
  BY <1>1, <1>2, SameTokenizer DEF Setup
<1>5. Places'
  BY <1>1, <1>2, <1>3 DEF Places
<1>6. Scanned'
  BY <1>1, <1>2, ScanStays
<1>7. Pushed' /\ Tiles' /\ Matched'
  BY <1>2, <1>3, NoPush
<1> QED
  BY <1>4, <1>5, <1>6, <1>7

LEMMA FeedKeeps ==
  ASSUME Tokenizing, PathInv, Feed
  PROVE  PathInv'
<1> DEFINE skip == input.skipSpecial
           d == DecodeOne(output[fed + 1].id, skip)
           bytes == pending \o d
<1>1. /\ Setup /\ Streamed /\ Pushed /\ phase = "encoded" /\ phase' = "encoded" /\ fed < Len(output)
      /\ UNCHANGED <<document, tables, input, pos, chunkStart, cursor, rest, output>>
      /\ fed' = fed + 1
      /\ written' = written \o SubSeq(bytes, 1, CompletePrefixLength(bytes))
      /\ pending' = SubSeq(bytes, CompletePrefixLength(bytes) + 1, Len(bytes))
  BY DEF PathInv, Feed, encodeVars
<1>2. Active
  BY <1>1 DEF Active
<1>3. Loaded /\ output \in Seq(Tokens) /\ skip \in BOOLEAN
  BY <1>1, <1>2, InputFacts DEF Pushed
<1>4. /\ fed \in Nat /\ fed <= Len(output) /\ written \in Seq(Nat) /\ pending \in Seq(Nat)
      /\ written \o pending = Decode(SubSeq(output, 1, fed), skip)
      /\ Unambiguous /\ Whole(Text) => InCharacters
  BY <1>1 DEF Streamed
<1>5. PICK n \in Nat : n = Len(output) /\ fed + 1 <= n
  <2>1. PICK n \in Nat : n = Len(output)
    BY <1>3, LenProperties
  <2>2. fed \in Nat /\ fed < n
    BY <1>1, <1>4, <2>1, Zenon
  <2>3. fed + 1 <= n
    BY ONLY <2>2, n \in Nat, SMT
  <2> QED
    BY <2>1, <2>3, Zenon
<1>6. PICK x \in Tokens : /\ x = output[fed + 1] /\ SubSeq(output, 1, fed) \in Seq(Tokens)
                          /\ SubSeq(output, 1, fed + 1) = Append(SubSeq(output, 1, fed), x)
  BY <1>3, <1>4, <1>5, PrefixGrows
<1>7. /\ d \in Seq(Nat)
      /\ Decode(SubSeq(output, 1, fed + 1), skip) = Decode(SubSeq(output, 1, fed), skip) \o d
  BY <1>3, <1>6, DecodeAppend DEF Tokenizing
<1> HIDE DEF d
<1>8. bytes \in Seq(Nat)
  BY <1>4, <1>7
<1>9. written' = written \o Complete(bytes) /\ pending' = HeldBack(bytes)
  BY <1>1 DEF Complete, HeldBack
<1> HIDE DEF bytes, skip
<1>10. /\ Complete(bytes) \in Seq(Nat) /\ HeldBack(bytes) \in Seq(Nat)
       /\ Len(Complete(bytes)) = CompletePrefixLength(bytes)
       /\ Complete(bytes) \o HeldBack(bytes) = bytes
       /\ HeldBack(bytes) # << >> => Len(HeldBack(bytes)) < Width(HeldBack(bytes)[1])
  BY <1>8, StreamStep
<1>11. PICK c \in Seq(Nat) : c = Complete(bytes)
  BY <1>10
<1>12. PICK h \in Seq(Nat) : h = HeldBack(bytes)
  BY <1>10
<1>13. PICK e \in Seq(Nat) : e = d
  BY <1>7
<1>14. bytes = pending \o e /\ c \o h = bytes
  BY <1>10, <1>11, <1>12, <1>13 DEF bytes
<1>15. written \o bytes = Decode(SubSeq(output, 1, fed + 1), skip)
  <2>1. written \in Seq(Nat) /\ pending \in Seq(Nat)
    BY <1>4
  <2>2. (written \o pending) \o e = written \o (pending \o e)
    BY ONLY <2>1, e \in Seq(Nat), SMTT(60)
  <2> QED
    BY <1>4, <1>7, <1>13, <1>14, <2>2
<1>16. (written \o c) \o h = written \o bytes /\ written \o c \in Seq(Nat)
       /\ Len(written \o c) = Len(written) + Len(c)
  <2>1. written \in Seq(Nat)
    BY <1>4
  <2>2. (written \o c) \o h = written \o (c \o h)
    BY ONLY <2>1, c \in Seq(Nat), h \in Seq(Nat), SMTT(60)
  <2>3. written \o c \in Seq(Nat) /\ Len(written \o c) = Len(written) + Len(c)
    BY ONLY <2>1, c \in Seq(Nat), SMTT(60)
  <2> QED
    BY <1>14, <2>2, <2>3
<1>17. written' = written \o c /\ pending' = h
  BY <1>9, <1>11, <1>12
<1>18. Decode(SubSeq(output, 1, fed), input.skipSpecial)' =
         Decode(SubSeq(output, 1, fed + 1), skip)
  BY <1>1, SameTokenizer DEF skip
<1>19. Decode(output, input.skipSpecial)' = Decode(output, skip)
  BY <1>1, SameTokenizer DEF skip
<1>20. ASSUME Unambiguous, Whole(Text) PROVE InCharacters'
  <2>1. PICK B \in SUBSET Nat : Bounded(Decode(output, skip), B) /\ Len(written) \in B
    BY <1>4, <1>20 DEF InCharacters, skip
  <2>2. PICK f \in Nat : f = fed + 1 /\ f <= Len(output)
    BY <1>4, <1>5
  <2>3. \E z \in Seq(Nat) : Decode(output, skip) = Decode(SubSeq(output, 1, f), skip) \o z
    BY <1>3, <2>2, DecodePrefix DEF Tokenizing
  <2>4. PICK z \in Seq(Nat) : Decode(output, skip) = (written \o bytes) \o z
    BY <1>15, <2>2, <2>3
  <2>5. Bounded((written \o bytes) \o z, B)
    BY <2>1, <2>4
  <2>6. Len(written) + CompletePrefixLength(bytes) \in B
    BY <1>4, <1>8, <2>1, <2>5, StreamWhole
  <2>7. Len(written') \in B
    BY <1>10, <1>11, <1>16, <1>17, <2>6
  <2> QED
    BY <1>19, <2>1, <2>7 DEF InCharacters
<1>21. Streamed'
  <2>1. (Unambiguous' <=> Unambiguous) /\ Text' = Text
    BY <1>1, SameTokenizer DEF Text
  <2>2. fed' \in Nat /\ fed' <= Len(output')
    BY <1>1, <1>4, <1>5
  <2>3. written' \o pending' = Decode(SubSeq(output, 1, fed), input.skipSpecial)'
    BY <1>15, <1>16, <1>17, <1>18
  <2>4. pending' # << >> => Len(pending') < Width(pending'[1])
    BY <1>9, <1>10
  <2>5. written' \in Seq(Nat) /\ pending' \in Seq(Nat)
    BY <1>16, <1>17
  <2> QED
    BY <1>1, <1>20, <2>1, <2>2, <2>3, <2>4, <2>5 DEF Streamed
<1> QED
  BY <1>1, <1>21, StreamingKeeps DEF PathInv

LEMMA FlushStreamKeeps ==
  ASSUME Tokenizing, PathInv, FlushStream
  PROVE  PathInv'
<1>1. /\ Setup /\ Streamed /\ Pushed /\ phase = "encoded" /\ phase' = "done" /\ fed = Len(output)
      /\ UNCHANGED <<document, tables, input, pos, chunkStart, cursor, rest, output>>
      /\ fed' = fed /\ written' = written \o pending /\ pending' = << >>
  BY DEF PathInv, FlushStream, object
<1>2. Active
  BY <1>1 DEF Active
<1>3. Loaded /\ output \in Seq(Tokens)
  BY <1>1, <1>2, InputFacts DEF Pushed
<1>4. /\ fed \in Nat /\ written \in Seq(Nat) /\ pending \in Seq(Nat)
      /\ written \o pending = Decode(SubSeq(output, 1, fed), input.skipSpecial)
      /\ Unambiguous /\ Whole(Text) => InCharacters
  BY <1>1 DEF Streamed
<1>5. SubSeq(output, 1, fed) = output
  BY <1>1, <1>3, SubSeqFull
<1>6. Decode(SubSeq(output, 1, fed), input.skipSpecial)' = Decode(output, input.skipSpecial)
  BY <1>1, <1>5, SameTokenizer
<1>7. PICK w \in Seq(Nat) : w = written \o pending
  <2>1. written \in Seq(Nat) /\ pending \in Seq(Nat)
    BY <1>4
  <2>2. written \o pending \in Seq(Nat)
    BY ONLY <2>1, SMTT(60)
  <2> QED
    BY <2>2, Zenon
<1>8. w \o << >> = w
  BY ConcatEmptySeq
<1>9. ASSUME Unambiguous, Whole(Text) PROVE Whole(written')
  <2>1. PICK B \in SUBSET Nat : Bounded(Decode(output, input.skipSpecial), B)
    BY <1>4, <1>9 DEF InCharacters
  <2>2. written' = Decode(output, input.skipSpecial)
    BY <1>1, <1>4, <1>5
  <2> QED
    BY <2>1, <2>2 DEF Whole
<1>10. Streamed'
  <2>1. (Unambiguous' <=> Unambiguous) /\ Text' = Text
    BY <1>1, SameTokenizer DEF Text
  <2>2. written' \o pending' = Decode(SubSeq(output, 1, fed), input.skipSpecial)'
    BY <1>1, <1>4, <1>5, <1>6, <1>7, <1>8
  <2>3. << >> \in Seq(Nat) /\ written' \in Seq(Nat) /\ fed' <= Len(output')
    BY <1>1, <1>4, <1>7
  <2> QED
    BY <1>1, <1>4, <1>9, <2>1, <2>2, <2>3 DEF Streamed
<1> QED
  BY <1>1, <1>10, StreamingKeeps DEF PathInv
-----------------------------------------------------------------------------
(* The invariant is inductive.                                             *)
LEMMA StillKeeps ==
  ASSUME PathInv, UNCHANGED vars
  PROVE  PathInv'
<1>1. UNCHANGED <<document, tables, input, pos, chunkStart, cursor, rest, output, phase,
                  fed, pending, written>>
  BY DEF vars, encodeVars
<1>2. (Active' <=> Active) /\ (Running' <=> Running) /\ Text' = Text /\ Covered' = Covered
      /\ First' = First
  <2>1. (Active' <=> Active) /\ (Running' <=> Running) /\ Text' = Text /\ First' = First
    BY <1>1 DEF Active, Running, Text, First
  <2>2. ByteEnd(Chunk, cursor)' = ByteEnd(Chunk, cursor)
    BY <1>1 DEF ByteEnd, Chunk, text
  <2>3. Covered' = Covered
    BY <1>1, <2>1, <2>2 DEF Covered
  <2> QED
    BY <2>1, <2>3
<1>3. Setup'
  BY <1>1, <1>2, SameTokenizer DEF PathInv, Setup
<1>4. Places'
  <2>1. Codepoints' = Codepoints /\ ByteEnd(Chunk, cursor)' = ByteEnd(Chunk, cursor)
    BY <1>1 DEF ByteEnd, Codepoints, Chunk, text
  <2> QED
    BY <1>1, <1>2, <2>1 DEF PathInv, Places
<1>5. ASSUME Active PROVE Pushed' /\ Tiles' /\ Matched' /\ Scanned'
  <2>1. Pushed' /\ Tiles' /\ Matched'
    BY <1>1, <1>2, <1>5, NoPush
  <2>2. Scanned'
    <3>1. Scanned
      BY DEF PathInv
    <3> QED
      BY <1>1, <1>5, <3>1, ScanStays
  <2> QED
    BY <2>1, <2>2
<1>6. ASSUME ~Active PROVE Pushed' /\ Tiles' /\ Matched' /\ Scanned'
  <2>1. ~Active' /\ ~Running'
    BY <1>2, <1>6 DEF Active, Running
  <2>2. Pushed' /\ Scanned'
    BY <2>1 DEF Pushed, Scanned
  <2>3. Tiles' /\ Matched'
    BY <2>1 DEF Tiles, Matched
  <2> QED
    BY <2>2, <2>3
<1>7. Pushed' /\ Tiles' /\ Matched' /\ Scanned'
  BY <1>5, <1>6, Zenon
<1>8. Streamed'
  <2>1. Decode(SubSeq(output, 1, fed), input.skipSpecial)' =
          Decode(SubSeq(output, 1, fed), input.skipSpecial)
    BY <1>1, SameTokenizer
  <2>2. Decode(output, input.skipSpecial)' = Decode(output, input.skipSpecial)
    BY <1>1, SameTokenizer
  <2>3. InCharacters => InCharacters'
    BY <1>1, <2>2 DEF InCharacters
  <2>4. Unambiguous' <=> Unambiguous
    BY <1>1, SameTokenizer
  <2> QED
    BY <1>1, <1>2, <2>1, <2>3, <2>4 DEF PathInv, Streamed
<1> QED
  BY <1>3, <1>4, <1>7, <1>8 DEF PathInv

LEMMA PathStep ==
  ASSUME Tokenizing, PathInv, [Next]_(vars)
  PROVE  PathInv'
<1>1. CASE NextEncode /\ UNCHANGED <<fed, pending, written>>
  <2>1. Idle
    BY <1>1 DEF Idle
  <2>2. CASE LoadTokenizer \/ RefuseTokenizer \/ WriteOutOfBounds
    BY <2>1, <2>2, LoadKeeps
  <2>3. CASE Begin
    BY <2>1, <2>3, BeginKeeps
  <2>4. CASE SkipByte
    BY <2>1, <2>4, SkipKeeps
  <2>5. CASE Flush
    BY <2>1, <2>5, FlushKeeps
  <2>6. CASE Split
    BY <2>1, <2>6, SplitKeeps
  <2>7. CASE BpeToken
    BY <2>1, <2>7, BpeTokenKeeps
  <2>8. CASE BpeThrows
    BY <2>1, <2>8, ThrowKeeps
  <2>9. CASE PushAdded
    BY <2>1, <2>9, PushAddedKeeps
  <2>10. CASE EndOfText
    BY <2>1, <2>10, EndKeeps
  <2> QED
    BY <1>1, <2>2, <2>3, <2>4, <2>5, <2>6, <2>7, <2>8, <2>9, <2>10 DEF NextEncode
<1>2. CASE Feed
  BY <1>2, FeedKeeps
<1>3. CASE FlushStream
  BY <1>3, FlushStreamKeeps
<1>4. CASE Stopped
  BY <1>4, StillKeeps DEF Stopped
<1>5. CASE UNCHANGED vars
  BY <1>5, StillKeeps
<1> QED
  BY <1>1, <1>2, <1>3, <1>4, <1>5 DEF Next

-----------------------------------------------------------------------------
(* What the invariant says of the run's properties.                        *)
LEMMA PrefixOfJoin ==
  ASSUME NEW S, NEW a \in Seq(S), NEW z \in Seq(S)
  PROVE  /\ a \o z \in Seq(S) /\ IsPrefix(a, a \o z)
         /\ SubSeq(a \o z, 1, Len(a)) = a /\ Len(a) <= Len(a \o z)
<1>1. PICK n \in Nat : n = Len(a)
  BY LenProperties
<1>2. PICK m \in Nat : m = Len(z)
  BY LenProperties
<1>3. a \o z \in Seq(S) /\ Len(a \o z) = n + m
  BY <1>1, <1>2
<1>4. PICK y \in Seq(S) : y = a \o z /\ Len(y) = n + m
  BY <1>3, Zenon
<1>5. \A k \in 1 .. n : y[k] = a[k]
  BY <1>1, <1>2, <1>4
<1>6. n \in 0 .. Len(y)
  BY <1>4
<1>7. SubSeq(y, 1, n) \in Seq(S) /\ Len(SubSeq(y, 1, n)) = n
  BY <1>6, CutInTwo
<1>8. \A k \in 1 .. n : SubSeq(y, 1, n)[k] = y[k]
  BY <1>4
<1>9. SubSeq(y, 1, n) = a
  BY <1>1, <1>5, <1>7, <1>8, SeqEqual
<1>10. SubSeq(a, 1, n) = a
  BY <1>1, SubSeqFull
<1>11. n <= Len(y)
  BY <1>4
<1> QED
  BY <1>1, <1>3, <1>4, <1>9, <1>10, <1>11 DEF IsPrefix
LEMMA InvWhole ==
  ASSUME Tokenizing, PathInv
  PROVE  WholeCharacters
<1>1. Setup /\ Streamed /\ Pushed
  BY DEF PathInv
<1>2. ASSUME phase \in {"encoded", "done"}, Unambiguous, WellFormed(Text)
      PROVE  WellFormed(written)
  <2>1. Active
    BY <1>2 DEF Active
  <2>2. Loaded /\ Text \in Seq(Nat) /\ output \in Seq(Tokens) /\ input.skipSpecial \in BOOLEAN
    BY <1>1, <2>1, InputFacts DEF Pushed
  <2>3. Whole(Text)
    BY <1>2, <2>2, WellFormedIsWhole
  <2>4. written \in Seq(Nat) /\ pending \in Seq(Nat) /\ fed \in Nat /\ fed <= Len(output)
        /\ written \o pending = Decode(SubSeq(output, 1, fed), input.skipSpecial)
    BY <1>1, <1>2 DEF Streamed
  <2>5. CASE phase = "done"
    <3>1. Whole(written)
      BY <1>1, <1>2, <2>3, <2>5 DEF Streamed
    <3> QED
      BY <2>4, <3>1, WellFormedIsWhole
  <2>6. CASE phase = "encoded"
    <3>1. InCharacters
      BY <1>1, <1>2, <2>3, <2>6 DEF Streamed
    <3>2. PICK B \in SUBSET Nat : /\ Bounded(Decode(output, input.skipSpecial), B)
                                  /\ Len(written) \in B
      BY <3>1 DEF InCharacters
    <3>3. \E z \in Seq(Nat) : Decode(output, input.skipSpecial) =
                                Decode(SubSeq(output, 1, fed), input.skipSpecial) \o z
      BY <2>2, <2>4, DecodePrefix DEF Tokenizing
    <3>4. PICK z \in Seq(Nat) : Decode(output, input.skipSpecial) = (written \o pending) \o z
      BY <2>4, <3>3, Zenon
    <3>5. SubSeq((written \o pending) \o z, 1, Len(written)) = written
          /\ (written \o pending) \o z \in Seq(Nat)
      <4>1. written \in Seq(Nat) /\ pending \in Seq(Nat)
        BY <2>4
      <4>2. pending \o z \in Seq(Nat)
        BY ONLY <4>1, z \in Seq(Nat), SMTT(60)
      <4>3. (written \o pending) \o z = written \o (pending \o z)
        BY ONLY <4>1, z \in Seq(Nat), SMTT(60)
      <4>4. PICK y \in Seq(Nat) : y = pending \o z
        BY <4>2, Zenon
      <4>5. SubSeq(written \o y, 1, Len(written)) = written /\ written \o y \in Seq(Nat)
        BY <4>1, PrefixOfJoin
      <4> QED
        BY <4>3, <4>4, <4>5, Zenon
    <3>6. Bounded(written, {j \in B : j <= Len(written)})
      <4>1. PICK t \in Seq(Nat) : t = (written \o pending) \o z
        BY <3>5, Zenon
      <4>2. Bounded(t, B) /\ SubSeq(t, 1, Len(written)) = written
        BY <3>2, <3>4, <3>5, <4>1, Zenon
      <4>3. Bounded(SubSeq(t, 1, Len(written)), {j \in B : j <= Len(written)})
        BY <3>2, <4>2, BeforeBoundary
      <4> QED
        BY <4>2, <4>3
    <3>7. Whole(written)
      BY <3>2, <3>6 DEF Whole
    <3> QED
      BY <2>4, <3>7, WellFormedIsWhole
  <2> QED
    BY <1>2, <2>5, <2>6
<1>3. pending # << >> => Len(pending) < Width(pending[1])
  BY <1>1 DEF Streamed
<1> QED
  BY <1>2, <1>3 DEF WholeCharacters, Text, text
LEMMA InvMatched ==
  ASSUME Tokenizing, PathInv
  PROVE  AddedLeftmostLongest
<1>1. SUFFICES ASSUME phase \notin {"loading", "begin", "refused", "corrupted"}, Unambiguous
               PROVE  /\ input.parseSpecial =>
                           \A p \in chunkStart .. pos - 1 : \A c \in Contents : OccursAt(c, p) =>
                             \E d \in Contents : /\ OccursAt(d, p) /\ Len(c) <= Len(d)
                                                 /\ tables.addedByContent[d] < 0
                      /\ \A k \in First .. Len(output) : output[k].source = "added" => LongestAt(k)
  BY DEF AddedLeftmostLongest, OccursAt, LongestAt, StartOf, First, Text, text
<1>2. Setup /\ Places /\ Scanned /\ Matched /\ Active
  BY <1>1 DEF PathInv, Active
<1>3. Loaded /\ Text \in Seq(Nat)
  BY <1>2, InputFacts
<1>4. ASSUME input.parseSpecial, NEW p \in chunkStart .. pos - 1, NEW c \in Contents,
             OccursAt(c, p)
      PROVE  \E d \in Contents : /\ OccursAt(d, p) /\ Len(c) <= Len(d)
                                 /\ tables.addedByContent[d] < 0
  <2>1. PICK n \in Nat : n = Len(Text)
    BY <1>3, LenProperties
  <2>2. chunkStart \in 1 .. n + 1 /\ pos \in chunkStart .. n + 1
    BY <1>2, <2>1 DEF Places
  <2>3. p \in 1 .. n
    BY <1>4, <2>2
  <2>4. p \in 1 .. Len(Text) /\ c \in MatchesAt(p) /\ text[p] \in FirstBytes
    BY <1>3, <1>4, <2>1, <2>3, OccursIsMatched
  <2>5. AddedAt(p) = {}
    BY <1>2, <1>4 DEF Scanned
  <2>6. Shadowed(MatchesAt(p))
    BY <1>4, <2>4, <2>5 DEF AddedAt
  <2>7. PICK d \in MatchesAt(p) : Len(c) <= Len(d) /\ tables.addedByContent[d] < 0
    BY <1>3, <2>4, <2>6, LongestMatch DEF Shadowed
  <2>8. d \in Contents /\ OccursAt(d, p)
    BY <1>3, <2>4, <2>7, MatchFacts, MatchOccurs
  <2> QED
    BY <2>7, <2>8
<1>5. \A k \in First .. Len(output) : output[k].source = "added" => LongestAt(k)
  BY <1>1, <1>2 DEF Matched
<1> QED
  BY <1>4, <1>5

LEMMA InvRound ==
  ASSUME Tokenizing, PathInv
  PROVE  RoundTrip
<1> DEFINE done == Decode(output, FALSE) \o rest
           Written(k) == IF input.skipSpecial /\ output[k].source # "bpe"
                           THEN DecodeOne(output[k].id, TRUE) ELSE DecodeOne(output[k].id, FALSE)
<1>1. SUFFICES ASSUME phase \notin {"loading", "begin", "refused", "corrupted", "failed"},
                      Unambiguous
               PROVE  /\ input.addBos => Bos \in ToSet(BosNames)
                      /\ IsPrefix(done, Bos \o Text)
                      /\ Len(output) <= Len(Bos) + Len(Text)
                      /\ phase \in {"encoded", "done"} => done = Bos \o Text
                      /\ phase = "done" => written = FlattenSeq([k \in DOMAIN output |-> Written(k)])
  BY DEF RoundTrip, Text, text
<1>2. Setup /\ Places /\ Pushed /\ Tiles /\ Streamed /\ Running
  BY <1>1 DEF PathInv, Setup, Running
<1>3. Active /\ Covered \in Nat
  BY <1>2, CoveredFacts
<1>4. Loaded /\ Text \in Seq(Nat) /\ output \in Seq(Tokens) /\ input.skipSpecial \in BOOLEAN
      /\ input.addBos \in BOOLEAN
  BY <1>2, <1>3, InputFacts DEF Pushed
<1>5. Bos \in Seq(Nat) /\ (input.addBos => Bos # << >>
                                /\ \E k \in DOMAIN BosNames : Bos = BosNames[k])
  BY <1>1, <1>2, BosIsName
<1>6. PICK t \in Nat, r \in Nat, c \in Nat, b \in Nat :
        t = Len(Text) /\ r = Len(rest) /\ c = Covered /\ b = Len(Bos) /\ c + r <= t
  <2>1. Len(rest) \in Nat /\ Len(Text) \in Nat /\ Covered + Len(rest) <= Len(Text)
    BY <1>2, CoveredFacts
  <2>2. Len(Bos) \in Nat
    BY <1>5, LenProperties
  <2> QED
    BY <1>3, <2>1, <2>2, Zenon
<1>7. rest = SubSeq(Text, c + 1, c + r)
  <2>1. CASE phase = "splitting"
    BY <1>2, <1>3, <1>6, <2>1 DEF Places
  <2>2. CASE phase # "splitting"
    <3>1. rest = << >>
      BY <1>2, <1>3, <2>2 DEF Places, Running
    <3>2. r = 0
      BY <1>6, <3>1
    <3>3. SubSeq(Text, c + 1, c + r) = << >>
      BY <1>4, <1>6, <3>2
    <3> QED
      BY <3>1, <3>3
  <2> QED
    BY <2>1, <2>2
<1>8. PICK x \in Seq(Nat), y \in Seq(Nat), z \in Seq(Nat) :
        /\ x = SubSeq(Text, 1, c) /\ y = SubSeq(Text, c + 1, c + r)
        /\ z = SubSeq(Text, (c + r) + 1, t)
        /\ x \o y = SubSeq(Text, 1, c + r) /\ (x \o y) \o z = Text
  <2>1. PICK d \in Nat : d = c + r /\ c <= d /\ c <= t /\ d <= t
    BY <1>6
  <2>2. PICK s \in Seq(Nat) : s = Text /\ Len(s) = t
    BY <1>4, <1>6, Zenon
  <2> HIDE DEF done, Written
  <2>3. SubSeq(s, 1, c) \o SubSeq(s, c + 1, d) = SubSeq(s, 1, d)
    BY <2>1, <2>2, PartsJoin
  <2>4. SubSeq(s, 1, d) \o SubSeq(s, d + 1, t) = SubSeq(s, 1, t)
    <3>1. t <= Len(s)
      BY <2>2
    <3> QED
      BY <2>1, <3>1, PartsJoin
  <2>5. SubSeq(s, 1, t) = s
    BY <2>2, SubSeqFull
  <2>6. SubSeq(s, 1, c) \in Seq(Nat) /\ SubSeq(s, c + 1, d) \in Seq(Nat)
        /\ SubSeq(s, d + 1, t) \in Seq(Nat)
    <3>1. \A a, e \in Nat : a <= e /\ e <= t => SubSeq(s, a + 1, e) \in Seq(Nat)
      BY <2>2, PartFacts
    <3>2. \A a \in 0 .. t : SubSeq(s, 1, a) \in Seq(Nat)
      BY <2>2, CutInTwo
    <3>3. t <= t /\ c \in 0 .. t
      BY <2>1
    <3> QED
      BY <2>1, <3>1, <3>2, <3>3
  <2>7. c + r = d /\ Text = s
    BY <2>1, <2>2
  <2>8. /\ SubSeq(s, 1, c) = SubSeq(Text, 1, c) /\ SubSeq(s, c + 1, d) = SubSeq(Text, c + 1, c + r)
        /\ SubSeq(s, d + 1, t) = SubSeq(Text, (c + r) + 1, t)
        /\ SubSeq(s, 1, d) = SubSeq(Text, 1, c + r)
    BY <2>7
  <2>9. (SubSeq(s, 1, c) \o SubSeq(s, c + 1, d)) \o SubSeq(s, d + 1, t) = Text
    BY <2>3, <2>4, <2>5, <2>7
  <2>10. SubSeq(s, 1, c) \o SubSeq(s, c + 1, d) = SubSeq(Text, 1, c + r)
    BY <2>3, <2>8
  <2> USE <2>6
  <2> WITNESS SubSeq(s, 1, c) \in Seq(Nat), SubSeq(s, c + 1, d) \in Seq(Nat),
              SubSeq(s, d + 1, t) \in Seq(Nat)
  <2> QED
    BY <2>8, <2>9, <2>10
<1>9. PICK bos \in Seq(Nat) : bos = Bos
  BY <1>5, Zenon
<1>10. done = bos \o (x \o y)
  <2>1. Decode(output, FALSE) = bos \o x
    BY <1>1, <1>2, <1>6, <1>8, <1>9 DEF Tiles
  <2>2. (bos \o x) \o y = bos \o (x \o y)
    BY ONLY bos \in Seq(Nat), x \in Seq(Nat), y \in Seq(Nat), SMTT(60)
  <2> QED
    BY <1>7, <1>8, <2>1, <2>2
<1> HIDE DEF done
<1>11. PICK w \in Seq(Nat) : w = x \o y
  <2>1. x \o y \in Seq(Nat)
    BY ONLY x \in Seq(Nat), y \in Seq(Nat), SMTT(60)
  <2> QED
    BY <2>1, Zenon
<1>12. PICK v \in Seq(Nat) : v = bos \o w /\ v = done
  <2>1. bos \o w \in Seq(Nat)
    BY ONLY bos \in Seq(Nat), w \in Seq(Nat), SMTT(60)
  <2> QED
    BY <1>10, <1>11, <2>1, Zenon
<1>13. Bos \o Text = v \o z
  <2>1. (bos \o w) \o z = bos \o (w \o z)
    BY ONLY bos \in Seq(Nat), w \in Seq(Nat), z \in Seq(Nat), SMTT(60)
  <2> QED
    BY <1>8, <1>9, <1>11, <1>12, <2>1, Zenon
<1>14. IsPrefix(done, Bos \o Text)
  <2>1. IsPrefix(v, v \o z)
    BY PrefixOfJoin
  <2> QED
    BY <1>12, <1>13, <2>1, Zenon
<1>15. input.addBos => Bos \in ToSet(BosNames)
  BY <1>5 DEF ToSet
<1>16. Len(output) <= Len(Bos) + Len(Text)
  <2>1. PICK f \in Nat : /\ Len(output) <= f + Covered /\ Len(output) \in Nat
                         /\ (input.addBos => f = 1) /\ (~input.addBos => f = 0)
    BY <1>2, FirstFacts
  <2>2. f <= b
    <3>1. CASE input.addBos
      <4>1. bos # << >> /\ Len(bos) = b
        BY <1>5, <1>6, <1>9, <3>1
      <4>2. b # 0
        BY <4>1, EmptySeq
      <4> QED
        BY <2>1, <3>1, <4>2
    <3>2. CASE ~input.addBos
      BY <2>1, <3>2
    <3> QED
      BY <3>1, <3>2
  <2>3. PICK m \in Nat : m = Len(output) /\ m <= f + c
    BY <1>6, <2>1
  <2>4. m <= b + t
    BY ONLY <2>2, <2>3, f \in Nat, b \in Nat, t \in Nat, c \in Nat, r \in Nat, m \in Nat, <1>6, SMT
  <2> QED
    BY <1>6, <2>3, <2>4
<1>17. ASSUME phase \in {"encoded", "done"} PROVE done = Bos \o Text
  <2>1. c = t
    BY <1>6, <1>17 DEF Covered
  <2>2. SubSeq(Text, 1, c) = Text
    BY <1>4, <1>6, <2>1, SubSeqFull
  <2>3. rest = << >>
    BY <1>2, <1>3, <1>17 DEF Places
  <2>4. Decode(output, FALSE) = Bos \o Text
    BY <1>1, <1>2, <1>6, <2>2 DEF Tiles
  <2>5. Decode(output, FALSE) \in Seq(Nat)
    BY <1>4, DecodedBytes DEF Tokenizing
  <2>6. Decode(output, FALSE) \o << >> = Decode(output, FALSE)
    BY <2>5, ConcatEmptySeq
  <2> QED
    BY <2>3, <2>4, <2>6 DEF done
<1>18. ASSUME phase = "done" PROVE written = FlattenSeq([k \in DOMAIN output |-> Written(k)])
  <2>1. /\ written \o pending = Decode(SubSeq(output, 1, fed), input.skipSpecial)
        /\ fed = Len(output) /\ pending = << >> /\ written \in Seq(Nat)
    BY <1>2, <1>18 DEF Streamed
  <2>2. SubSeq(output, 1, Len(output)) = output
    BY <1>4, SubSeqFull
  <2>3. written = Decode(output, input.skipSpecial)
    <3>1. written \o << >> = written
      BY <2>1, ConcatEmptySeq
    <3> QED
      BY <2>1, <2>2, <3>1
  <2>4. PICK n \in Nat : n = Len(output) /\ DOMAIN output = 1 .. n
    BY <1>4, LenProperties
  <2>5. ASSUME NEW k \in DOMAIN output
        PROVE  DecodeOne(output[k].id, input.skipSpecial) = Written(k)
    <3>1. CASE output[k].source = "bpe"
      <4>1. output[k].id \in DOMAIN tables.idToToken
        BY <1>2, <1>3, <2>4, <3>1 DEF Pushed
      <4>2. DecodeOne(output[k].id, TRUE) = DecodeOne(output[k].id, FALSE)
        BY <1>1, <1>4, <4>1, EntryIsOrdinary DEF Tokenizing
      <4>3. input.skipSpecial = TRUE \/ input.skipSpecial = FALSE
        BY <1>4
      <4> QED
        BY <3>1, <4>2, <4>3, Zenon
    <3>2. CASE output[k].source # "bpe"
      <4>1. input.skipSpecial = TRUE \/ input.skipSpecial = FALSE
        BY <1>4
      <4> QED
        BY <3>2, <4>1, Zenon
    <3> QED
      BY <3>1, <3>2, Zenon
  <2>6. [k \in DOMAIN output |-> DecodeOne(output[k].id, input.skipSpecial)]
          = [k \in DOMAIN output |-> Written(k)]
    BY <2>5, Zenon
  <2> QED
    BY <2>3, <2>6, Zenon DEF Decode
<1> QED
  BY <1>14, <1>15, <1>16, <1>17, <1>18

LEMMA PathInvariant == Spec => []PathInv
<1>1. Tokenizing
  BY VocabularyAssumption, InputsAssumption DEF Tokenizing
<1>2. Init => PathInv
  BY PathInit
<1>3. PathInv /\ [Next]_vars => PathInv'
  BY <1>1, PathStep
<1> QED
  BY <1>2, <1>3, PTL DEF Spec

(* Whatever bytes a text is made of, what the ids pushed so far stand for  *)
(* is the text up to where encode has come, behind the marker if one was   *)
(* asked for; and all of it, but skipped special tokens, is written.  (Not *)
(* if the loader wrote out of bounds for a negative id and did harm.)      *)
THEOREM TextSurvives == Spec => []RoundTrip
<1>1. PathInv => RoundTrip
  <2>1. Tokenizing
    BY VocabularyAssumption, InputsAssumption DEF Tokenizing
  <2> QED
    BY <2>1, InvRound
<1>2. Spec => []PathInv
  BY PathInvariant
<1> QED
  BY <1>1, <1>2, PTL

(* An added token is found wherever it occurs first, unless one that is no *)
(* shorter has a negative id, and the longest that occurs there is the one *)
(* pushed, for every text and tokenizer.json that loaded without harm.     *)
THEOREM AddedTokensAreFound == Spec => []AddedLeftmostLongest
<1>1. PathInv => AddedLeftmostLongest
  <2>1. Tokenizing
    BY VocabularyAssumption, InputsAssumption DEF Tokenizing
  <2> QED
    BY <2>1, InvMatched
<1>2. Spec => []PathInv
  BY PathInvariant
<1> QED
  BY <1>1, <1>2, PTL

(* The streamer writes whole characters of a well-formed text, wherever    *)
(* its tokens end, and holds no complete character back.                   *)
THEOREM CharactersStayWhole == Spec => []WholeCharacters
<1>1. PathInv => WholeCharacters
  <2>1. Tokenizing
    BY VocabularyAssumption, InputsAssumption DEF Tokenizing
  <2> QED
    BY <2>1, InvWhole
<1>2. Spec => []PathInv
  BY PathInvariant
<1> QED
  BY <1>1, <1>2, PTL

=============================================================================
