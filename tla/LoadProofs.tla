------------------------------ MODULE LoadProofs ------------------------------
(***************************************************************************)
(* For every checkpoint, every option and every alignment: the plan of     *)
(* Model::allocate_arena suffices for the allocations after it, the        *)
(* buffers are disjoint and hold every pass; loading leaves no file open   *)
(* but one that is too small; it succeeds exactly for the checkpoints a    *)
(* model can be made from; and every byte of every tensor then lies where  *)
(* the kernels read it, in reading order.                                  *)
(***************************************************************************)
EXTENDS Load, FiniteSetTheorems, TLAPS

-----------------------------------------------------------------------------
(* A set of natural numbers has a least member.                            *)
LEMMA LeastNat ==
  ASSUME NEW S \in SUBSET Nat, S # {}
  PROVE  \E x \in S : \A y \in S : x <= y
<1>1. PICK x \in S : \A y \in S : ~ (<<y, x>> \in OpToRel(<, Nat))
  BY NatLessThanWellFounded, WFMin
<1>2. \A y \in S : ~ (y < x)
  BY <1>1 DEF OpToRel
<1> QED
  BY <1>2

(* Induction: a set closed under successor is everything.                  *)
LEMMA Induct ==
  ASSUME NEW S \in SUBSET Nat, 0 \in S, \A n \in S : n + 1 \in S
  PROVE  S = Nat
<1> SUFFICES ASSUME Nat \ S # {} PROVE FALSE
  OBVIOUS
<1>1. PICK x \in Nat \ S : \A y \in Nat \ S : x <= y
  BY LeastNat
<1>2. x - 1 \in Nat /\ x - 1 \notin Nat \ S
  BY <1>1
<1> QED
  BY <1>1, <1>2

(* The functions on 0 .. k that start at x and step by F.                  *)
Runs(x, F, S, k) ==
  {g \in [0 .. k -> S] : g[0] = x /\ \A i \in 0 .. k - 1 : g[i + 1] = F[<<i, g[i]>>]}

LEMMA RunExists ==
  ASSUME NEW S, NEW x \in S, NEW F \in [Nat \X S -> S], NEW k \in Nat
  PROVE  Runs(x, F, S, k) # {}
<1> DEFINE D == {n \in Nat : Runs(x, F, S, n) # {}}
<1>1. 0 \in D
  <2>1. [i \in 0 .. 0 |-> x] \in Runs(x, F, S, 0)
    BY DEF Runs
  <2> QED
    BY <2>1
<1>2. ASSUME NEW n \in D PROVE n + 1 \in D
  <2>1. PICK g \in [0 .. n -> S] : g[0] = x /\ \A i \in 0 .. n - 1 : g[i + 1] = F[<<i, g[i]>>]
    BY DEF Runs
  <2> DEFINE h == [i \in 0 .. n + 1 |-> IF i = n + 1 THEN F[<<n, g[n]>>] ELSE g[i]]
  <2>2. h \in [0 .. n + 1 -> S]
    BY <2>1
  <2>3. h[0] = x
    BY <2>1
  <2>4. \A i \in 0 .. (n + 1) - 1 : h[i + 1] = F[<<i, h[i]>>]
    <3> TAKE i \in 0 .. (n + 1) - 1
    <3>1. CASE i = n
      <4>1. i + 1 = n + 1 /\ n + 1 \in 0 .. n + 1 /\ n \in 0 .. n + 1 /\ n # n + 1
        BY <3>1
      <4>2. h[n + 1] = F[<<n, g[n]>>] /\ h[n] = g[n]
        BY <4>1
      <4> QED
        BY <3>1, <4>2
    <3>2. CASE i # n
      <4>1. i \in 0 .. n - 1 /\ i + 1 \in 0 .. n + 1 /\ i + 1 # n + 1 /\ i # n + 1 /\ i \in 0 .. n + 1
        BY <3>2
      <4> QED
        BY <2>1, <4>1
    <3> QED
      BY <3>1, <3>2
  <2>5. n + 1 \in Nat
    OBVIOUS
  <2>6. h \in Runs(x, F, S, n + 1)
    BY <2>2, <2>3, <2>4 DEF Runs
  <2> QED
    BY <2>5, <2>6
<1>3. D = Nat
  <2> HIDE DEF D
  <2>1. D \in SUBSET Nat
    BY DEF D
  <2> QED
    BY <1>1, <1>2, <2>1, Induct
<1> QED
  BY <1>3

-----------------------------------------------------------------------------
(* Rounding up to the alignment.                                           *)
LEMMA AlignUpBounds ==
  ASSUME NEW v \in Nat
  PROVE  AlignUp(v) \in Nat /\ v <= AlignUp(v) /\ AlignUp(v) < v + Alignment
BY ArenaAssumption DEF AlignUp

(* ... is monotone.                                                        *)
LEMMA AlignUpMonotone ==
  ASSUME NEW v \in Nat, NEW w \in Nat, v <= w
  PROVE  AlignUp(v) <= AlignUp(w)
<1> DEFINE x == (v + Alignment - 1) \div Alignment
           y == (w + Alignment - 1) \div Alignment
<1>1. Alignment \in Nat \ {0}
  BY ArenaAssumption
<1>2. x \in Nat /\ y \in Nat
  BY <1>1
<1>3. x * Alignment < v + Alignment /\ y * Alignment >= w
  BY <1>1
<1>4. x * Alignment < (y + 1) * Alignment
  BY <1>1, <1>2, <1>3
<1> HIDE DEF x, y
<1>5. x < y + 1
  BY <1>1, <1>2, <1>4
<1>6. x * Alignment <= y * Alignment
  BY <1>1, <1>2, <1>5
<1> QED
  BY <1>6 DEF x, y, AlignUp

(* Dividing and multiplying back never adds.                               *)
LEMMA WholeBounds ==
  ASSUME NEW bytes \in Nat, NEW unit \in Nat \ {0}
  PROVE  Whole(bytes, unit) \in Nat /\ Whole(bytes, unit) <= bytes
BY DEF Whole

(* A division that has no remainder to lose.                               *)
LEMMA CountOfWhole ==
  ASSUME NEW n \in Nat, NEW unit \in Nat \ {0}
  PROVE  (n * unit) \div unit = n
<1> DEFINE q == (n * unit) \div unit
<1>1. q \in Nat /\ q * unit <= n * unit /\ n * unit < (q + 1) * unit
  OBVIOUS
<1> HIDE DEF q
<1>2. q < n + 1 /\ n < q + 1
  BY <1>1
<1> QED
  BY <1>1, <1>2 DEF q

LEMMA ProductInNat ==
  ASSUME NEW a \in Nat, NEW b \in Nat
  PROVE  a * b \in Nat
OBVIOUS

-----------------------------------------------------------------------------
(* What stages after "config" know of the sizes.                           *)
Positive == Nat \ {0}

SaneConfig ==
  /\ config.hidden \in Positive /\ config.ffn \in Positive
  /\ config.heads \in Positive /\ config.kvHeads \in Positive
  /\ config.headDim \in Positive /\ config.vocab \in Positive
  /\ config.layers \in Positive

SaneOptions == options.maxSeq \in Positive /\ options.chunk \in Positive

LEMMA ConfigSane ==
  ASSUME NEW input \in Inputs, dir = input.dir, FieldsReadable(dir.config),
         Validate(ConfigOf(dir.config, dir.generation))
  PROVE  LET c == ConfigOf(dir.config, dir.generation)
         IN  /\ c.hidden \in Positive /\ c.ffn \in Positive
             /\ c.heads \in Positive /\ c.kvHeads \in Positive
             /\ c.headDim \in Positive /\ c.vocab \in Positive
             /\ c.layers \in Positive
<1> DEFINE doc == dir.config
           c   == ConfigOf(doc, dir.generation)
<1>1. \A f \in NumberFields : doc[f] \in Int \cup {Absent, Text}
  BY InputsAssumption
<1>2. /\ doc.hidden_size \in Int /\ doc.intermediate_size \in Int
      /\ doc.num_attention_heads \in Int /\ doc.vocab_size \in Int
      /\ doc.num_hidden_layers \in Int
  BY <1>1 DEF FieldsReadable, IsNumber, NumberFields, IntegerFields
<1>3. doc.num_key_value_heads \in Int \cup {Absent}
  BY <1>1 DEF FieldsReadable, NumberFields
<1>4. doc.head_dim \in Int \cup {Absent, Text}
  BY <1>1 DEF NumberFields
<1> HIDE DEF doc
<1>5. c.hidden = doc.hidden_size /\ c.ffn = doc.intermediate_size
      /\ c.heads = doc.num_attention_heads /\ c.vocab = doc.vocab_size
      /\ c.layers = doc.num_hidden_layers
      /\ c.kvHeads = Or(doc.num_key_value_heads, doc.num_attention_heads)
      /\ c.headDim = IF ImpliesHeadDim(doc)
                       THEN Quotient(doc.hidden_size, doc.num_attention_heads)
                       ELSE doc.head_dim
  BY DEF ConfigOf
<1>6. c.hidden > 0 /\ c.ffn > 0 /\ c.heads > 0 /\ c.kvHeads > 0 /\ c.headDim > 0
      /\ c.vocab > 0 /\ c.layers > 0
  BY DEF Validate, doc
<1> HIDE DEF c
<1>7. c.hidden \in Positive /\ c.ffn \in Positive /\ c.heads \in Positive
      /\ c.vocab \in Positive /\ c.layers \in Positive
  BY <1>2, <1>5, <1>6 DEF Positive
<1>8. c.kvHeads \in Positive
  BY <1>2, <1>3, <1>5, <1>6 DEF Or, Positive
<1>9. c.headDim \in Int
  <2>1. CASE ImpliesHeadDim(doc)
    <3>1. doc.hidden_size > 0 /\ doc.num_attention_heads > 0
      BY <1>5, <1>6
    <3>2. doc.hidden_size \div doc.num_attention_heads \in Int
      BY <1>2, <3>1
    <3> QED
      BY <2>1, <1>2, <1>5, <3>1, <3>2 DEF Quotient, Size
  <2>2. CASE ~ImpliesHeadDim(doc)
    BY <2>2, <1>4, <1>5 DEF ImpliesHeadDim, IsNumber
  <2> QED
    BY <2>1, <2>2
<1> QED
  BY <1>6, <1>7, <1>8, <1>9 DEF Positive, c, doc

-----------------------------------------------------------------------------
(* Each allocation of allocate_arena asks for no more than its size in the *)
(* plan: in spite of the division, the maximum with one and the skipping.  *)
LEMMA CarvingsFitSizes ==
  ASSUME SaneConfig, SaneOptions, NEW k \in 1 .. 17
  PROVE  /\ Sizes[k] \in Nat
         /\ Carvings[k].bytes \in Nat
         /\ Carvings[k].bytes <= Sizes[k]
<1>1. /\ ElemBytes \in Positive /\ FloatBytes \in Positive /\ IdBytes \in Positive
      /\ MaxSplits \in Positive
  BY LoadAssumption DEF Positive
<1>2. Tokens \in Positive
  BY DEF Tokens, MaxTokens, SaneOptions, Positive
<1>3. QDim(config) \in Nat /\ KvDim(config) \in Nat
  BY ProductInNat DEF QDim, KvDim, SaneConfig, Positive
<1>4. Residual \in Nat /\ QBuffer \in Nat /\ FfnBuffer \in Nat
  BY <1>1, <1>2, <1>3, ProductInNat
  DEF Residual, QBuffer, FfnBuffer, SaneConfig, Positive
<1>5. QkvBuffer \in Nat
  <2>1. QDim(config) + 2 * KvDim(config) \in Nat
    BY <1>3
  <2>2. Tokens * (QDim(config) + 2 * KvDim(config)) \in Nat
    BY <1>2, <2>1, ProductInNat DEF Positive
  <2> QED
    BY <1>1, <2>2, ProductInNat DEF QkvBuffer, Positive
<1>6. GateUpBuffer \in Nat
  BY <1>1, <1>2, ProductInNat DEF GateUpBuffer, SaneConfig, Positive
<1>7. ScoreCount \in Nat
  BY <1>2, ProductInNat DEF ScoreCount, SaneConfig, SaneOptions, Positive
<1>8. /\ ScoreCount * FloatBytes \in Nat /\ ScoreCount * ElemBytes \in Nat
      /\ config.vocab * FloatBytes \in Nat /\ Tokens * IdBytes \in Nat
  BY <1>1, <1>2, <1>7, ProductInNat DEF SaneConfig, Positive
<1>9. Gathered \in Nat
  BY <1>1, ProductInNat DEF Gathered, SaneConfig, SaneOptions, Positive
<1>10. ScratchFloats \in Nat /\ ScratchFloats >= 1
  <2>1. config.heads * MaxSplits \in Positive
    BY <1>1 DEF SaneConfig, Positive
  <2>2. 2 + config.headDim \in Positive
    BY DEF SaneConfig, Positive
  <2> QED
    BY <2>1, <2>2 DEF ScratchFloats, Positive
<1>11. ScratchFloats * FloatBytes \in Nat
  BY <1>1, <1>10, ProductInNat DEF Positive
<1>12. Larger(1, (ScratchFloats * FloatBytes) \div FloatBytes) = ScratchFloats
  BY <1>1, <1>10, CountOfWhole DEF Larger, Positive
<1>13. \A bytes \in Nat : /\ Whole(bytes, ElemBytes) \in Nat
                          /\ Whole(bytes, ElemBytes) <= bytes
                          /\ Whole(bytes, FloatBytes) \in Nat
                          /\ Whole(bytes, FloatBytes) <= bytes
  BY <1>1, WholeBounds DEF Positive
<1> DEFINE scoreFloats == ScoreCount * FloatBytes
           scoreElems == ScoreCount * ElemBytes
           logitBytes == config.vocab * FloatBytes
           scratchBytes == ScratchFloats * FloatBytes
           idBytes == Tokens * IdBytes
<1>14. Sizes[k] = << Residual, Residual, Residual, QkvBuffer, QBuffer, QBuffer,
           QBuffer, GateUpBuffer, FfnBuffer, scoreFloats, scoreElems, logitBytes,
           scratchBytes, Gathered, Gathered, idBytes, IdBytes >>[k]
  BY DEF Sizes
<1>15. Carvings[k].bytes =
         << Whole(Residual, ElemBytes), Whole(Residual, ElemBytes),
            Whole(Residual, ElemBytes), Whole(QkvBuffer, ElemBytes),
            Whole(QBuffer, ElemBytes), Whole(QBuffer, ElemBytes),
            Whole(QBuffer, ElemBytes), Whole(GateUpBuffer, ElemBytes),
            Whole(FfnBuffer, ElemBytes), Whole(scoreFloats, FloatBytes),
            Whole(scoreElems, ElemBytes), Whole(logitBytes, FloatBytes),
            scratchBytes, Whole(Gathered, ElemBytes), Whole(Gathered, ElemBytes),
            idBytes, IdBytes >>[k]
  BY <1>12 DEF Carvings, Carving
<1>16. scoreFloats \in Nat /\ scoreElems \in Nat /\ logitBytes \in Nat
       /\ scratchBytes \in Nat /\ idBytes \in Nat /\ IdBytes \in Nat
  BY <1>1, <1>8, <1>11 DEF Positive
<1> HIDE DEF scoreFloats, scoreElems, logitBytes, scratchBytes, idBytes
<1> QED
  BY <1>4, <1>5, <1>6, <1>9, <1>13, <1>14, <1>15, <1>16

-----------------------------------------------------------------------------
(* The running total of the plan, which bounds the arena's use below.      *)
Before(k) == IF k = 1 THEN 0 ELSE planned[k - 1]

PlannedUpTo(n) ==
  /\ n \in 0 .. 17
  /\ planned \in Seq(Nat) /\ Len(planned) = n
  /\ \A k \in 1 .. n : planned[k] \in Nat
  /\ \A k \in 1 .. n : planned[k] = AlignUp(Before(k)) + Sizes[k]
  /\ \A j, k \in 1 .. n : j <= k => planned[j] <= planned[k]

Early == {"config", "options", "open", "weights", "upload", "cache"}

ArenaInv ==
  /\ \E input \in Inputs : dir = input.dir /\ options = input.options
  /\ stage # "config" => SaneConfig
  /\ stage \notin {"config", "options"} => SaneOptions
  /\ stage \in Early => planned = << >>
  /\ stage = "plan" => \E n \in 0 .. 17 : at = n + 1 /\ PlannedUpTo(n)
  /\ stage = "carve" =>
       /\ at \in 1 .. 18 /\ PlannedUpTo(17)
       /\ capacity = planned[17] + Slack
       /\ used \in Nat /\ used <= Before(at)
  /\ stage \in Early \cup {"plan", "carve"}

(* What the invariant of the other variables leaves alone.                 *)
LEMMA SizesKept ==
  ASSUME config' = config, options' = options
  PROVE  Sizes' = Sizes /\ (SaneConfig => SaneConfig') /\ (SaneOptions => SaneOptions')
BY DEF Sizes, Residual, QkvBuffer, QBuffer, GateUpBuffer, FfnBuffer, ScoreCount,
       ScratchFloats, Gathered, Tokens, MaxTokens, SaneConfig, SaneOptions, QDim, KvDim

LEMMA PlannedKept ==
  ASSUME config' = config, options' = options, planned' = planned,
         NEW n, PlannedUpTo(n)
  PROVE  PlannedUpTo(n)'
BY SizesKept DEF PlannedUpTo, Before, AlignUp

(* Each step of the plan appends a total above all earlier ones.           *)
LEMMA PlanExtends ==
  ASSUME SaneConfig, SaneOptions, NEW n \in 0 .. 16, PlannedUpTo(n),
         planned' = Append(planned, PlanAfter(n + 1)),
         config' = config, options' = options
  PROVE  PlannedUpTo(n + 1)'
<1> DEFINE sum == PlanAfter(n + 1)
<1>1. Sizes' = Sizes /\ Sizes[n + 1] \in Nat
  <2>1. n + 1 \in 1 .. 17
    OBVIOUS
  <2> QED
    BY ONLY <2>1, SizesKept, CarvingsFitSizes, SaneConfig, SaneOptions,
            config' = config, options' = options
<1>2. PlannedSoFar = Before(n + 1) /\ Before(n + 1) \in Nat
  BY DEF PlannedUpTo, PlannedSoFar, Before
<1>3. AlignUp(PlannedSoFar) \in Nat /\ PlannedSoFar <= AlignUp(PlannedSoFar)
  BY <1>2, AlignUpBounds
<1>4. sum \in Nat /\ sum >= PlannedSoFar /\ sum = AlignUp(Before(n + 1)) + Sizes[n + 1]
  BY <1>1, <1>2, <1>3 DEF PlanAfter
<1> HIDE DEF sum
<1>5. /\ planned' \in Seq(Nat) /\ Len(planned') = n + 1
      /\ planned'[n + 1] = sum
      /\ \A k \in 1 .. n : planned'[k] = planned[k]
  <2>1. planned' = Append(planned, sum)
    BY DEF sum
  <2> QED
    BY <2>1, <1>4 DEF PlannedUpTo
<1>6. \A k \in 1 .. n + 1 : Before(k)' = Before(k)
  BY <1>5 DEF Before
<1>7. \A k \in 1 .. n + 1 : planned'[k] = AlignUp(Before(k)) + Sizes[k]
  BY <1>4, <1>5 DEF PlannedUpTo
<1>8. \A k \in 1 .. n + 1 : planned'[k] = (AlignUp(Before(k)) + Sizes[k])'
  BY <1>1, <1>6, <1>7 DEF AlignUp
<1>9. \A j \in 1 .. n : planned[j] <= sum
  <2> SUFFICES ASSUME NEW j \in 1 .. n PROVE planned[j] <= sum
    OBVIOUS
  <2>1. planned[j] <= planned[n] /\ planned[j] \in Nat /\ planned[n] \in Nat
    BY DEF PlannedUpTo
  <2>2. PlannedSoFar = planned[n]
    BY <1>2 DEF Before
  <2> QED
    BY <2>1, <2>2, <1>4
<1>10. \A j, k \in 1 .. n + 1 : j <= k => planned'[j] <= planned'[k]
  <2> SUFFICES ASSUME NEW j \in 1 .. n + 1, NEW k \in 1 .. n + 1, j <= k
               PROVE  planned'[j] <= planned'[k]
    OBVIOUS
  <2>1. CASE k = n + 1
    BY <2>1, <1>4, <1>5, <1>9
  <2>2. CASE k # n + 1
    BY <2>2, <1>5 DEF PlannedUpTo
  <2> QED
    BY <2>1, <2>2
<1>11. \A k \in 1 .. n + 1 : planned'[k] \in Nat
  BY <1>4, <1>5 DEF PlannedUpTo
<1> QED
  BY <1>5, <1>8, <1>10, <1>11 DEF PlannedUpTo

(* What the invariant says of an allocation.                               *)
LEMMA CarvingHasRoom ==
  ASSUME ArenaInv, stage = "carve", at \in 1 .. 17
  PROVE  /\ AlignUp(used) + Carvings[at].bytes <= planned[at]
         /\ AlignUp(used) + Carvings[at].bytes \in Nat
         /\ planned[at] \in Nat
         /\ planned[at] <= planned[17]
         /\ Before(at) <= planned[at]
         /\ HasRoom(Carvings[at].bytes)
<1>1. SaneConfig /\ SaneOptions /\ PlannedUpTo(17)
  BY DEF ArenaInv
<1>2. /\ Sizes[at] \in Nat /\ Carvings[at].bytes \in Nat
      /\ Carvings[at].bytes <= Sizes[at]
  BY <1>1, CarvingsFitSizes
<1>3. used \in Nat /\ Before(at) \in Nat /\ used <= Before(at)
  <2>1. used \in Nat /\ used <= Before(at)
    BY DEF ArenaInv
  <2>2. \A k \in 1 .. 17 : planned[k] \in Nat
    BY <1>1 DEF PlannedUpTo
  <2>3. at - 1 \in 1 .. 17 \/ at = 1
    OBVIOUS
  <2> QED
    BY <2>1, <2>2, <2>3 DEF Before
<1>4. /\ AlignUp(used) \in Nat /\ AlignUp(Before(at)) \in Nat
      /\ AlignUp(used) <= AlignUp(Before(at)) /\ Before(at) <= AlignUp(Before(at))
  BY <1>3, AlignUpBounds, AlignUpMonotone
<1>5. planned[at] = AlignUp(Before(at)) + Sizes[at]
  BY <1>1 DEF PlannedUpTo
<1>6. planned[at] \in Nat /\ planned[17] \in Nat /\ planned[at] <= planned[17]
  <2>1. \A k \in 1 .. 17 : planned[k] \in Nat
    BY <1>1 DEF PlannedUpTo
  <2>2. \A j, k \in 1 .. 17 : j <= k => planned[j] <= planned[k]
    BY <1>1 DEF PlannedUpTo
  <2> QED
    BY <2>1, <2>2
<1>7. capacity = planned[17] + Slack /\ Slack \in Nat
  BY LoadAssumption DEF ArenaInv
<1> QED
  BY <1>2, <1>3, <1>4, <1>5, <1>6, <1>7 DEF HasRoom

LEMMA ArenaInit == Init => ArenaInv
BY DEF Init, ArenaInv, Early

-----------------------------------------------------------------------------
(* The early stages leave the arena alone and the plan empty.              *)
LEMMA EarlyStep ==
  ASSUME ArenaInv, stage \in Early \ {"config"},
         stage' \in (Early \ {"config", "options"}) \cup {stage},
         stage = "options" /\ stage' # "options" => options.maxSeq > 0 /\ options.chunk > 0,
         dir' = dir, options' = options, config' = config, planned' = planned
  PROVE  ArenaInv'
<1>1. \E input \in Inputs : dir' = input.dir /\ options' = input.options
  BY DEF ArenaInv
<1>2. SaneConfig'
  BY SizesKept DEF ArenaInv
<1>3. stage' \notin {"config", "options"} => SaneOptions'
  <2>1. CASE stage = "options"
    BY <2>1, <1>1, InputsAssumption DEF SaneOptions, Positive
  <2>2. CASE stage # "options"
    BY <2>2, SizesKept DEF ArenaInv, Early
  <2> QED
    BY <2>1, <2>2
<1>4. planned' = << >> /\ stage' \in Early
  BY DEF ArenaInv, Early
<1> QED
  BY <1>1, <1>2, <1>3, <1>4 DEF ArenaInv, Early

LEMMA ArenaStep == ArenaInv /\ [Next]_vars => ArenaInv'
<1> SUFFICES ASSUME ArenaInv, [Next]_vars
             PROVE  ArenaInv'
  OBVIOUS
<1> USE DEF Loading
<1>1. CASE ReadConfig
  <2>1. dir' = dir /\ options' = options /\ planned' = planned /\ stage = "config"
    BY <1>1 DEF ReadConfig, inputVars, arenaVars
  <2>2. \E input \in Inputs : dir = input.dir /\ options = input.options
    BY DEF ArenaInv
  <2>3. CASE stage' = "config"
    BY <2>1, <2>2, <2>3 DEF ArenaInv, Early
  <2>4. CASE stage' # "config"
    <3>1. /\ stage' = "options" /\ config' = ConfigOf(dir.config, dir.generation)
          /\ FieldsReadable(dir.config)
          /\ Validate(ConfigOf(dir.config, dir.generation))
      BY <1>1, <2>1, <2>4 DEF ReadConfig, Leave, Goto
    <3>2. SaneConfig'
      BY <2>2, <3>1, ConfigSane DEF SaneConfig
    <3> QED
      BY <2>1, <2>2, <3>1, <3>2 DEF ArenaInv, Early
  <2> QED
    BY <2>3, <2>4
<1>2. CASE CheckOptions
  BY <1>2, EarlyStep DEF CheckOptions, Goto, Leave, Early, inputVars, arenaVars
<1>3. CASE OpenFile
  BY <1>3, EarlyStep DEF OpenFile, Again, Leave, Early, inputVars, arenaVars
<1>4. CASE ArchiveOpen
  BY <1>4, EarlyStep DEF ArchiveOpen, Goto, Leave, Early, inputVars, arenaVars
<1>5. CASE PlanBlock
  BY <1>5, EarlyStep DEF PlanBlock, Again, Leave, Early, inputVars, arenaVars
<1>6. CASE AllocateWeights
  BY <1>6, EarlyStep DEF AllocateWeights, Goto, Leave, Early, inputVars, arenaVars
<1>7. CASE UploadBlock
  BY <1>7, EarlyStep DEF UploadBlock, Again, Early, inputVars, arenaVars
<1>8. CASE TieHead
  BY <1>8, EarlyStep DEF TieHead, Goto, Early, inputVars, arenaVars
<1>9. CASE BuildCache
  <2>1. dir' = dir /\ options' = options /\ config' = config /\ planned' = planned
    BY <1>9 DEF BuildCache, inputVars, arenaVars
  <2>2. CASE stage' = stage
    BY <1>9, <2>1, <2>2, EarlyStep DEF BuildCache, Early
  <2>3. CASE stage' # stage
    <3>1. stage' = "plan" /\ at' = 1 /\ stage = "cache" /\ planned = << >>
      BY <1>9, <2>3 DEF BuildCache, Goto, Leave, ArenaInv, Early
    <3>2. PlannedUpTo(0)'
      BY <2>1, <3>1 DEF PlannedUpTo
    <3>3. SaneConfig' /\ SaneOptions'
      BY <2>1, <3>1, SizesKept DEF ArenaInv
    <3>4. \E input \in Inputs : dir' = input.dir /\ options' = input.options
      BY <2>1 DEF ArenaInv
    <3> QED
      BY <3>1, <3>2, <3>3, <3>4 DEF ArenaInv, Early
  <2> QED
    BY <2>2, <2>3
<1>10. CASE PlanBuffer
  <2>1. /\ dir' = dir /\ options' = options /\ config' = config
        /\ stage = "plan" /\ stage' = "plan" /\ at' = at + 1 /\ at \in 1 .. 17
        /\ planned' = Append(planned, PlanAfter(at))
    BY <1>10 DEF PlanBuffer, Again, inputVars
  <2>2. SaneConfig /\ SaneOptions
    BY <2>1 DEF ArenaInv
  <2>3. PICK n \in 0 .. 17 : at = n + 1 /\ PlannedUpTo(n)
    BY <2>1 DEF ArenaInv
  <2>4. n \in 0 .. 16
    BY <2>1, <2>3
  <2>5. PlannedUpTo(n + 1)'
    BY <2>1, <2>2, <2>3, <2>4, PlanExtends
  <2>6. n + 1 \in 0 .. 17 /\ at' = (n + 1) + 1
    BY <2>1, <2>3, <2>4
  <2>7. SaneConfig' /\ SaneOptions'
    BY <2>1, <2>2, SizesKept
  <2>8. \E input \in Inputs : dir' = input.dir /\ options' = input.options
    BY <2>1 DEF ArenaInv
  <2>9. \E k \in 0 .. 17 : at' = k + 1 /\ PlannedUpTo(k)'
    BY <2>5, <2>6
  <2> QED
    BY <2>1, <2>7, <2>8, <2>9 DEF ArenaInv, Early
<1>11. CASE ReserveArena
  <2>1. /\ dir' = dir /\ options' = options /\ config' = config /\ planned' = planned
        /\ stage = "plan" /\ at = 18 /\ stage' = "carve" /\ at' = 1
        /\ capacity' = PlannedSoFar + Slack /\ used' = 0
    BY <1>11 DEF ReserveArena, Goto, Reserve, inputVars
  <2>2. SaneConfig /\ SaneOptions /\ PlannedUpTo(17)
    <3>1. PICK n \in 0 .. 17 : at = n + 1 /\ PlannedUpTo(n)
      BY <2>1 DEF ArenaInv
    <3>2. n = 17
      BY <2>1, <3>1
    <3> QED
      BY <2>1, <3>1, <3>2 DEF ArenaInv
  <2>3. PlannedUpTo(17)'
    BY <2>1, <2>2, PlannedKept
  <2>4. PlannedSoFar = planned[17]
    <3>1. Len(planned) = 17
      BY <2>2 DEF PlannedUpTo
    <3>2. planned # << >>
      <4>1. Len(<< >>) = 0
        OBVIOUS
      <4> QED
        BY <3>1, <4>1
    <3> QED
      BY <3>1, <3>2 DEF PlannedSoFar
  <2>5. SaneConfig' /\ SaneOptions'
    BY <2>1, <2>2, SizesKept
  <2>6. \E input \in Inputs : dir' = input.dir /\ options' = input.options
    BY <2>1 DEF ArenaInv
  <2>7. used' \in Nat /\ used' <= Before(at)' /\ capacity' = planned'[17] + Slack
    BY <2>1, <2>4 DEF Before
  <2> QED
    BY <2>1, <2>3, <2>5, <2>6, <2>7 DEF ArenaInv, Early
<1>12. CASE Loading("carve") /\ at \in 1 .. 17 /\ config' = config /\ planned' = planned
            /\ dir' = dir /\ options' = options /\ capacity' = capacity
            /\ stage' = stage /\ at' = at + 1
            /\ (used' = used \/ used' = AlignUp(used) + Carvings[at].bytes)
  <2>1. used' \in Nat /\ used' <= planned[at]
    <3>1. used \in Nat /\ used <= Before(at)
      BY <1>12 DEF ArenaInv
    <3>2. /\ AlignUp(used) + Carvings[at].bytes <= planned[at]
          /\ AlignUp(used) + Carvings[at].bytes \in Nat
          /\ planned[at] \in Nat /\ Before(at) <= planned[at]
      BY <1>12, CarvingHasRoom
    <3>3. Before(at) \in Nat
      <4>1. \A k \in 1 .. 17 : planned[k] \in Nat
        BY <1>12 DEF ArenaInv, PlannedUpTo
      <4>2. at = 1 \/ at - 1 \in 1 .. 17
        BY <1>12
      <4> QED
        BY <4>1, <4>2 DEF Before
    <3> QED
      BY <1>12, <3>1, <3>2, <3>3
  <2>2. at' \in 1 .. 18 /\ Before(at)' = planned[at]
    BY <1>12 DEF Before
  <2>3. PlannedUpTo(17)'
    BY <1>12, PlannedKept DEF ArenaInv
  <2>4. SaneConfig' /\ SaneOptions' /\ capacity' = planned'[17] + Slack
    BY <1>12, SizesKept DEF ArenaInv
  <2>5. \E input \in Inputs : dir' = input.dir /\ options' = input.options
    BY <1>12 DEF ArenaInv
  <2> QED
    BY <1>12, <2>1, <2>2, <2>3, <2>4, <2>5 DEF ArenaInv, Early
<1>13. CASE UNCHANGED <<dir, options, config, planned, stage, at, capacity, used>>
  <2>1. Sizes' = Sizes /\ SaneConfig' = SaneConfig /\ SaneOptions' = SaneOptions
    BY <1>13, SizesKept DEF SaneConfig, SaneOptions
  <2>2. \A n : PlannedUpTo(n) => PlannedUpTo(n)'
    BY <1>13, PlannedKept
  <2>3. Before(at)' = Before(at)
    BY <1>13 DEF Before
  <2>4. stage = "plan" => \E n \in 0 .. 17 : at' = n + 1 /\ PlannedUpTo(n)'
    <3> SUFFICES ASSUME stage = "plan"
                 PROVE  \E n \in 0 .. 17 : at' = n + 1 /\ PlannedUpTo(n)'
      OBVIOUS
    <3>1. PICK n \in 0 .. 17 : at = n + 1 /\ PlannedUpTo(n)
      BY DEF ArenaInv
    <3>2. PlannedUpTo(n)'
      BY <2>2, <3>1
    <3> QED
      BY <1>13, <3>1, <3>2
  <2> QED
    BY <1>13, <2>1, <2>2, <2>3, <2>4 DEF ArenaInv
<1>14. CASE CarveBuffer
  <2>1. CASE HasRoom(Carvings[at].bytes)
    BY <1>14, <2>1, <1>12 DEF CarveBuffer, Allocate, Again, inputVars
  <2>2. CASE ~HasRoom(Carvings[at].bytes)
    BY <1>14, <2>2, <1>13 DEF CarveBuffer, Leave, inputVars
  <2> QED
    BY <2>1, <2>2
<1>15. CASE SkipGathered
  BY <1>15, <1>12 DEF SkipGathered, Again, inputVars, arenaVars
<1>16. CASE Return
  BY <1>16, <1>13 DEF Return, Leave, inputVars, arenaVars
<1>17. CASE SystemFails
  BY <1>17, <1>13 DEF SystemFails, Leave, inputVars, arenaVars
<1>18. CASE Stopped
  BY <1>18, <1>13 DEF Stopped, vars, inputVars, arenaVars
<1>19. CASE UNCHANGED vars
  BY <1>19, <1>13 DEF vars, inputVars, arenaVars
<1> QED
  BY <1>1, <1>2, <1>3, <1>4, <1>5, <1>6, <1>7, <1>8, <1>9, <1>10, <1>11, <1>14,
     <1>15, <1>16, <1>17, <1>18, <1>19 DEF Next

(* Model::allocate_arena: whatever the shape of the model, the options and *)
(* the alignment, the list of allocations fits the block its plan sized.   *)
THEOREM ArenaAlwaysSuffices == Spec => []ArenaNeverFull
<1>1. ArenaInv => ArenaNeverFull
  BY CarvingHasRoom DEF ArenaNeverFull, Loading
<1> QED
  BY <1>1, ArenaInit, ArenaStep, PTL DEF Spec

-----------------------------------------------------------------------------
(***************************************************************************)
(* Where the buffers lie, and that every pass stays inside of them.        *)
(***************************************************************************)
LEMMA Grows ==
  ASSUME NEW a \in Nat, NEW b \in Nat, a <= b, NEW c \in Nat
  PROVE  a * c <= b * c /\ c * a <= c * b /\ a * c \in Nat /\ b * c \in Nat
<1>1. PICK d \in Nat : b = a + d
  <2>1. b - a \in Nat /\ b = a + (b - a)
    OBVIOUS
  <2> QED
    BY <2>1
<1>2. (a + d) * c = a * c + d * c /\ d * c \in Nat /\ a * c \in Nat
  OBVIOUS
<1>3. b * c \in Nat /\ c * a = a * c /\ c * b = b * c
  OBVIOUS
<1> QED
  BY <1>1, <1>2, <1>3

LEMMA GrowsTwice ==
  ASSUME NEW a \in Nat, NEW b \in Nat, a <= b, NEW c \in Nat, NEW d \in Nat
  PROVE  a * c * d <= b * c * d
<1>1. a * c \in Nat /\ b * c \in Nat /\ a * c <= b * c
  BY Grows
<1> QED
  BY <1>1, Grows

LEMMA WholeOfProduct ==
  ASSUME NEW n \in Nat, NEW unit \in Nat \ {0}
  PROVE  Whole(n * unit, unit) = n * unit
BY CountOfWhole DEF Whole

(* What a kernel touches, against the count of elements it was given.      *)
LEMMA RowsFit ==
  ASSUME NEW t \in Nat, NEW most \in Nat, t <= most, NEW n \in Nat, NEW e \in Positive
  PROVE  t * n * e <= Whole(most * n * e, e)
<1>1. most * n \in Nat
  BY ProductInNat
<1>2. Whole((most * n) * e, e) = most * n * e
  BY <1>1, WholeOfProduct DEF Positive
<1> QED
  BY <1>2, GrowsTwice DEF Positive

LEMMA HeadsFit ==
  ASSUME NEW t \in Nat, NEW most \in Nat, t <= most, NEW e \in Positive,
         NEW heads \in Nat, NEW kv \in Positive, NEW dim \in Nat
  PROVE  /\ heads * t * dim * e <= Whole(most * (heads * dim) * e, e)
         /\ t * heads * dim * e <= Whole(most * (heads * dim) * e, e)
         /\ kv * (heads \div kv) * t * dim * e <= Whole(most * (heads * dim) * e, e)
<1>1. heads * dim \in Nat
  BY ProductInNat
<1>2. t * (heads * dim) * e <= Whole(most * (heads * dim) * e, e)
  BY <1>1, RowsFit
<1>3. heads * t * dim = t * (heads * dim) /\ t * heads * dim = t * (heads * dim)
  OBVIOUS
<1>4. kv * (heads \div kv) * t * dim * e <= heads * t * dim * e
  <2> DEFINE g == kv * (heads \div kv)
  <2>1. g \in Nat /\ g <= heads
    <3>1. heads \div kv \in Nat /\ kv * (heads \div kv) <= heads
      BY DEF Positive
    <3> QED
      BY <3>1, ProductInNat DEF Positive
  <2> HIDE DEF g
  <2>2. g * t \in Nat /\ heads * t \in Nat /\ g * t <= heads * t
    BY <2>1, Grows
  <2>3. g * t * dim * e <= heads * t * dim * e
    BY <2>2, GrowsTwice DEF Positive
  <2> QED
    BY <2>3 DEF g
<1>5. kv * (heads \div kv) * t * dim * e \in Int /\ heads * t * dim * e \in Int
      /\ Whole(most * (heads * dim) * e, e) \in Int
  <2>1. most * (heads * dim) \in Nat
    BY <1>1, ProductInNat
  <2>2. Whole((most * (heads * dim)) * e, e) = most * (heads * dim) * e
    BY <2>1, WholeOfProduct DEF Positive
  <2>3. heads \div kv \in Int
    BY DEF Positive
  <2> QED
    BY <2>1, <2>2, <2>3 DEF Positive
<1> QED
  BY <1>2, <1>3, <1>4, <1>5

LEMMA ScoresFit ==
  ASSUME NEW t \in Nat, NEW most \in Nat, t <= most, NEW e \in Positive,
         NEW heads \in Nat, NEW kv \in Positive,
         NEW keys \in Nat, NEW longest \in Nat, keys <= longest
  PROVE  kv * (heads \div kv) * t * keys * e <= Whole(heads * most * longest * e, e)
<1> DEFINE g == kv * (heads \div kv)
<1>1. g \in Nat /\ g <= heads
  <2>1. heads \div kv \in Nat /\ kv * (heads \div kv) <= heads
    BY DEF Positive
  <2> QED
    BY <2>1, ProductInNat DEF Positive
<1> HIDE DEF g
<1>2. g * t \in Nat /\ heads * t \in Nat /\ heads * most \in Nat
      /\ g * t <= heads * t /\ heads * t <= heads * most
  BY <1>1, Grows
<1>3. g * t * keys <= heads * most * keys /\ heads * most * keys <= heads * most * longest
      /\ g * t * keys \in Nat /\ heads * most * keys \in Nat /\ heads * most * longest \in Nat
  <2>1. g * t <= heads * most
    BY <1>2
  <2> QED
    BY <1>2, <2>1, Grows
<1>4. g * t * keys <= heads * most * longest
  BY <1>3
<1>5. g * t * keys * e <= heads * most * longest * e
  BY <1>3, <1>4, Grows DEF Positive
<1>6. Whole((heads * most * longest) * e, e) = heads * most * longest * e
  BY <1>3, WholeOfProduct DEF Positive
<1> QED
  BY <1>5, <1>6 DEF g

LEMMA GatheredFits ==
  ASSUME NEW kv \in Nat, NEW keys \in Nat, NEW longest \in Nat, keys <= longest,
         NEW dim \in Nat, NEW e \in Positive
  PROVE  kv * keys * dim * e <= Whole(kv * longest * dim * e, e)
<1>1. kv * keys \in Nat /\ kv * longest \in Nat /\ kv * keys <= kv * longest
  BY Grows
<1> QED
  BY <1>1, RowsFit

LEMMA ScratchFits ==
  ASSUME NEW heads \in Positive, NEW splits \in Nat, NEW keys \in Nat, splits > 1,
         NEW dim \in Nat, NEW e \in Positive
  PROVE  /\ heads * (IF keys < splits THEN keys ELSE splits) * (2 + dim) * e
              <= heads * splits * (2 + dim) * e
         /\ 2 * e <= heads * splits * (2 + dim) * e
<1> DEFINE m == IF keys < splits THEN keys ELSE splits
           w == 2 + dim
<1>1. m \in Nat /\ m <= splits /\ w \in Nat /\ w >= 2
  OBVIOUS
<1> HIDE DEF m, w
<1>2. heads * m \in Nat /\ heads * splits \in Nat /\ heads * m <= heads * splits
  BY <1>1, Grows DEF Positive
<1>3. heads * m * w * e <= heads * splits * w * e
  BY <1>1, <1>2, GrowsTwice DEF Positive
<1>4. 1 * 1 <= heads * splits
  <2>1. heads \in Nat /\ heads >= 1
    BY DEF Positive
  <2>2. 1 * splits <= heads * splits
    BY <2>1, Grows
  <2> QED
    BY <1>2, <2>2
<1>5. 2 * e <= heads * splits * w * e
  <2>1. 1 * w <= heads * splits * w /\ heads * splits * w \in Nat
    BY <1>1, <1>2, <1>4, Grows
  <2>2. 2 <= heads * splits * w
    BY <1>1, <2>1
  <2> QED
    BY <2>1, <2>2, Grows DEF Positive
<1> QED
  BY <1>3, <1>5 DEF m, w

Names ==
  << "x", "normed", "proj_out", "qkv", "q_heads", "attn_heads", "attn_out", "gate_up",
     "act", "scores", "probs", "logits", "attention_scratch", "gathered_keys",
     "gathered_values", "token_ids", "sampled_id" >>

LEMMA NamesDistinct ==
  ASSUME NEW j \in 1 .. 17, NEW k \in 1 .. 17, j # k
  PROVE  Names[j] # Names[k]
BY DEF Names

LEMMA CarvingNames ==
  ASSUME NEW k \in 1 .. 17
  PROVE  Carvings[k].buffer = Names[k]
BY DEF Carvings, Carving, Names

(* The buffers carved so far lie one behind the other below `used'.        *)
Disjoint(a, b) ==
  \/ buffers[a].from + buffers[a].bytes <= buffers[b].from
  \/ buffers[b].from + buffers[b].bytes <= buffers[a].from

Placed ==
  /\ used <= capacity
  /\ DOMAIN buffers = {Names[k] : k \in {j \in 1 .. at - 1 : ~Skipped(j)}}
  /\ \A b \in DOMAIN buffers :
       /\ buffers[b].from \in Nat /\ buffers[b].bytes \in Nat
       /\ buffers[b].from + buffers[b].bytes <= used
  /\ \A a, b \in DOMAIN buffers : a # b => Disjoint(a, b)
  /\ \A k \in 1 .. at - 1 : ~Skipped(k) => buffers[Names[k]].bytes = Carvings[k].bytes

BuffersInv ==
  /\ stage # "carve" => buffers = << >>
  /\ stage = "carve" => Placed
  /\ status = "ready" => stage = "carve" /\ at = 18

LEMMA EarlyBuffers ==
  ASSUME BuffersInv, stage # "carve", stage' # "carve", buffers' = buffers, status' # "ready"
  PROVE  BuffersInv'
BY DEF BuffersInv

LEMMA CarvingsKept ==
  ASSUME config' = config, options' = options
  PROVE  Carvings' = Carvings /\ \A k : Skipped(k)' = Skipped(k)
BY DEF Carvings, Carving, Skipped, Whole, Residual, QkvBuffer, QBuffer, GateUpBuffer, FfnBuffer,
       ScoreCount, ScratchFloats, Gathered, Tokens, MaxTokens, QDim, KvDim

LEMMA CarveStep ==
  ASSUME ArenaInv, BuffersInv, CarveBuffer, HasRoom(Carvings[at].bytes)
  PROVE  BuffersInv'
<1> DEFINE c    == Carvings[at]
           name == Names[at]
           slot == [from |-> AlignUp(used), bytes |-> c.bytes]
<1>1. /\ stage = "carve" /\ stage' = "carve" /\ status' = status /\ status = "loading"
      /\ at \in 1 .. 17 /\ ~Skipped(at) /\ at' = at + 1
      /\ used' = AlignUp(used) + c.bytes /\ capacity' = capacity
      /\ AlignUp(used) + c.bytes <= capacity
      /\ buffers' = [b \in DOMAIN buffers \cup {c.buffer} |->
                       IF b = c.buffer THEN slot ELSE buffers[b]]
      /\ config' = config /\ options' = options
  BY DEF CarveBuffer, Loading, Again, Allocate, HasRoom, inputVars
<1>2. c.buffer = name
  BY <1>1, CarvingNames
<1>3. c.bytes \in Nat
  BY <1>1, CarvingsFitSizes DEF ArenaInv
<1>4. used \in Nat /\ AlignUp(used) \in Nat /\ used <= AlignUp(used) /\ capacity \in Int
  <2>1. used \in Nat /\ capacity = planned[17] + Slack /\ planned[17] \in Nat
    BY <1>1 DEF ArenaInv, PlannedUpTo
  <2> QED
    BY <2>1, AlignUpBounds, LoadAssumption
<1>5. Placed
  BY <1>1 DEF BuffersInv
<1>6. name \notin DOMAIN buffers
  <2>1. \A k \in 1 .. at - 1 : Names[k] # name
    BY <1>1, NamesDistinct
  <2> QED
    BY <1>5, <2>1 DEF Placed
<1> HIDE DEF c, name
<1>7. buffers' = [b \in DOMAIN buffers \cup {name} |-> IF b = name THEN slot ELSE buffers[b]]
  BY <1>1, <1>2
<1>8. /\ DOMAIN buffers' = DOMAIN buffers \cup {name}
      /\ buffers'[name] = slot
      /\ \A b \in DOMAIN buffers : buffers'[b] = buffers[b] /\ b # name
  BY <1>6, <1>7
<1>9. slot.from = AlignUp(used) /\ slot.bytes = c.bytes
  OBVIOUS
<1> HIDE DEF slot
<1>10. DOMAIN buffers' = {Names[k] : k \in {j \in 1 .. at' - 1 : ~Skipped(j)'}}
  <2>1. {j \in 1 .. at' - 1 : ~Skipped(j)'} = {j \in 1 .. at - 1 : ~Skipped(j)} \cup {at}
    <3>1. \A j : j \in 1 .. at' - 1 <=> (j \in 1 .. at - 1 \/ j = at)
      BY <1>1
    <3>2. \A j : Skipped(j)' = Skipped(j)
      BY <1>1, CarvingsKept
    <3> QED
      BY <1>1, <3>1, <3>2
  <2>2. DOMAIN buffers = {Names[k] : k \in {j \in 1 .. at - 1 : ~Skipped(j)}}
    BY <1>5 DEF Placed
  <2>3. name = Names[at]
    BY DEF name
  <2> QED
    BY <1>8, <2>1, <2>2, <2>3
<1>11. \A b \in DOMAIN buffers' :
         /\ buffers'[b].from \in Nat /\ buffers'[b].bytes \in Nat
         /\ buffers'[b].from + buffers'[b].bytes <= used'
  <2> SUFFICES ASSUME NEW b \in DOMAIN buffers'
               PROVE  /\ buffers'[b].from \in Nat /\ buffers'[b].bytes \in Nat
                      /\ buffers'[b].from + buffers'[b].bytes <= used'
    OBVIOUS
  <2>1. CASE b = name
    BY <1>1, <1>3, <1>4, <1>8, <1>9, <2>1
  <2>2. CASE b # name
    <3>1. /\ buffers'[b] = buffers[b]
          /\ buffers[b].from \in Nat /\ buffers[b].bytes \in Nat
          /\ buffers[b].from + buffers[b].bytes <= used
      BY <1>5, <1>8, <2>2 DEF Placed
    <3> QED
      BY <1>1, <1>3, <1>4, <3>1
  <2> QED
    BY <2>1, <2>2
<1>12. \A a, b \in DOMAIN buffers' : a # b => Disjoint(a, b)'
  <2> SUFFICES ASSUME NEW a \in DOMAIN buffers', NEW b \in DOMAIN buffers', a # b
               PROVE  \/ buffers'[a].from + buffers'[a].bytes <= buffers'[b].from
                      \/ buffers'[b].from + buffers'[b].bytes <= buffers'[a].from
    BY DEF Disjoint
  <2>1. ASSUME NEW d \in DOMAIN buffers
        PROVE  buffers'[d].from + buffers'[d].bytes <= buffers'[name].from
    <3>1. /\ buffers'[d] = buffers[d]
          /\ buffers[d].from \in Nat /\ buffers[d].bytes \in Nat
          /\ buffers[d].from + buffers[d].bytes <= used
      BY <1>5, <1>8 DEF Placed
    <3> QED
      BY <1>4, <1>8, <1>9, <3>1
  <2>2. CASE a = name \/ b = name
    BY <1>8, <2>1, <2>2
  <2>3. CASE a # name /\ b # name
    <3>1. a \in DOMAIN buffers /\ b \in DOMAIN buffers
      BY <1>8, <2>3
    <3>2. Disjoint(a, b)
      BY <1>5, <3>1 DEF Placed
    <3> QED
      BY <1>8, <3>1, <3>2 DEF Disjoint
  <2> QED
    BY <2>2, <2>3
<1>13. \A k \in 1 .. at' - 1 : ~Skipped(k)' => buffers'[Names[k]].bytes = Carvings'[k].bytes
  <2> SUFFICES ASSUME NEW k \in 1 .. at' - 1, ~Skipped(k)
               PROVE  buffers'[Names[k]].bytes = Carvings[k].bytes
    BY <1>1, CarvingsKept
  <2>1. CASE k = at
    BY <1>8, <1>9, <2>1 DEF name, c
  <2>2. CASE k # at
    <3>1. k \in 1 .. at - 1
      BY <1>1, <2>2
    <3>2. Names[k] \in DOMAIN buffers /\ buffers[Names[k]].bytes = Carvings[k].bytes
      BY <1>5, <3>1 DEF Placed
    <3> QED
      BY <1>8, <3>2
  <2> QED
    BY <2>1, <2>2
<1>14. used' <= capacity'
  BY <1>1
<1>15. Placed'
  BY <1>10, <1>11, <1>12, <1>13, <1>14 DEF Placed
<1> QED
  BY <1>1, <1>15 DEF BuffersInv

LEMMA BuffersInit == Init => BuffersInv
BY DEF Init, BuffersInv

LEMMA BuffersStep == ArenaInv /\ BuffersInv /\ [Next]_vars => BuffersInv'
<1> SUFFICES ASSUME ArenaInv, BuffersInv, [Next]_vars PROVE BuffersInv'
  OBVIOUS
<1> USE DEF Loading, Goto, Again, Leave, arenaVars
<1>1. CASE ReadConfig \/ CheckOptions
  BY <1>1, EarlyBuffers DEF ReadConfig, CheckOptions
<1>2. CASE OpenFile \/ ArchiveOpen
  BY <1>2, EarlyBuffers DEF OpenFile, ArchiveOpen
<1>3. CASE PlanBlock \/ AllocateWeights
  BY <1>3, EarlyBuffers DEF PlanBlock, AllocateWeights
<1>4. CASE UploadBlock \/ TieHead \/ BuildCache \/ PlanBuffer
  BY <1>4, EarlyBuffers DEF UploadBlock, TieHead, BuildCache, PlanBuffer
<1>5. ASSUME UNCHANGED <<config, options, stage, at, capacity, used, buffers>>,
             status' = "ready" => stage = "carve" /\ at = 18
      PROVE  BuffersInv'
  <2>1. Placed => Placed'
    BY <1>5, CarvingsKept DEF Placed, Disjoint
  <2> QED
    BY <1>5, <2>1 DEF BuffersInv
<1>6. CASE ReserveArena
  <2>1. /\ stage = "plan" /\ at = 18 /\ stage' = "carve" /\ at' = 1 /\ status' # "ready"
        /\ capacity' = PlannedSoFar + Slack /\ used' = 0 /\ buffers' = buffers
    BY <1>6 DEF ReserveArena, Reserve
  <2>2. PlannedSoFar \in Nat
    <3>1. PICK n \in 0 .. 17 : at = n + 1 /\ PlannedUpTo(n)
      BY <2>1 DEF ArenaInv
    <3>2. Len(planned) = 17 /\ \A k \in 1 .. 17 : planned[k] \in Nat
      BY <2>1, <3>1 DEF PlannedUpTo
    <3> QED
      BY <3>2 DEF PlannedSoFar
  <2>3. used' <= capacity'
    BY <2>1, <2>2, LoadAssumption
  <2>4. buffers' = << >> /\ DOMAIN buffers' = {}
    BY <2>1 DEF BuffersInv
  <2>5. 1 .. at' - 1 = {}
    BY <2>1
  <2>6. Placed'
    BY <2>3, <2>4, <2>5 DEF Placed
  <2> QED
    BY <2>1, <2>6 DEF BuffersInv
<1>7. CASE CarveBuffer
  <2>1. HasRoom(Carvings[at].bytes)
    BY <1>7, CarvingHasRoom DEF CarveBuffer
  <2> QED
    BY <1>7, <2>1, CarveStep
<1>8. CASE SkipGathered
  <2>1. /\ stage = "carve" /\ stage' = "carve" /\ status' = status /\ status = "loading"
        /\ at \in 1 .. 17 /\ Skipped(at) /\ at' = at + 1
        /\ UNCHANGED <<config, options, capacity, used, buffers>>
    BY <1>8 DEF SkipGathered, inputVars
  <2>2. Placed
    BY <2>1 DEF BuffersInv
  <2>3. \A j : j \in 1 .. at' - 1 /\ ~Skipped(j) <=> j \in 1 .. at - 1 /\ ~Skipped(j)
    BY <2>1
  <2>4. {j \in 1 .. at' - 1 : ~Skipped(j)} = {j \in 1 .. at - 1 : ~Skipped(j)}
    BY <2>3
  <2>5. Placed'
    BY <2>1, <2>2, <2>3, <2>4, CarvingsKept DEF Placed, Disjoint
  <2> QED
    BY <2>1, <2>5 DEF BuffersInv
<1>9. CASE Return
  BY <1>9, <1>5 DEF Return, inputVars
<1>10. CASE SystemFails
  BY <1>10, <1>5 DEF SystemFails, inputVars
<1>11. CASE Stopped \/ UNCHANGED vars
  BY <1>11, <1>5 DEF Stopped, vars, inputVars, BuffersInv
<1> QED
  BY <1>1, <1>2, <1>3, <1>4, <1>6, <1>7, <1>8, <1>9, <1>10, <1>11 DEF Next

(* No buffer is smaller than what a pass of t tokens at position s uses.   *)
LEMMA ExtentsFit ==
  ASSUME SaneConfig, SaneOptions,
         NEW t \in 1 .. MaxTokens, NEW s \in 0 .. options.maxSeq - t, NEW k \in 1 .. 17
  PROVE  /\ Extents(t, s)[Names[k]] <= Carvings[k].bytes
         /\ Skipped(k) => ~(Extents(t, s)[Names[k]] > 0)
<1> DEFINE keys  == s + t
           heads == config.heads
           kv    == config.kvHeads
           dim   == config.headDim
           rows  == kv * (heads \div kv) * t
           E     == ElemBytes
           F     == FloatBytes
           I     == IdBytes
<1>1. E \in Positive /\ F \in Positive /\ I \in Positive /\ MaxSplits \in Nat /\ MaxSplits > 1
  BY LoadAssumption DEF Positive
<1>2. /\ Tokens \in Nat /\ t \in Nat /\ t >= 1 /\ t <= Tokens
      /\ keys \in Nat /\ options.maxSeq \in Nat /\ keys <= options.maxSeq
  BY DEF Tokens, MaxTokens, SaneOptions, Positive
<1>3. /\ heads \in Positive /\ kv \in Positive /\ dim \in Positive
      /\ heads \in Nat /\ kv \in Nat /\ dim \in Nat /\ config.hidden \in Nat /\ config.ffn \in Nat
      /\ config.vocab \in Nat
  BY DEF SaneConfig, Positive
<1>4. QDim(config) = heads * dim /\ KvDim(config) = kv * dim
      /\ QDim(config) \in Nat /\ KvDim(config) \in Nat
  BY <1>3, ProductInNat DEF QDim, KvDim
<1> HIDE DEF heads, kv, dim, keys, E, F, I
<1> DEFINE attn == IF t = 1 THEN 0 ELSE rows * dim * E
           scores == IF t = 1 THEN 0 ELSE rows * keys * F
           probs == IF t = 1 THEN 0 ELSE rows * keys * E
           scratch == IF t = 1
             THEN heads * (IF keys < MaxSplits THEN keys ELSE MaxSplits) * (2 + dim) * F
             ELSE 2 * F
           gathered == IF t = 1 \/ ~options.paged THEN 0 ELSE kv * keys * dim * E
           x == t * config.hidden * E
           qkv == t * (QDim(config) + 2 * KvDim(config)) * E
           q == heads * t * dim * E
           out == t * heads * dim * E
           gate == t * 2 * config.ffn * E
           act == t * config.ffn * E
           logits == config.vocab * F
           ids == t * I
<1>5. Extents(t, s)[Names[k]] =
        << x, x, x, qkv, q, attn, out, gate, act, scores, probs, logits, scratch,
           gathered, gathered, ids, I >>[k]
  BY DEF Extents, Names, heads, kv, dim, keys, E, F, I
<1> DEFINE capX == Whole(Residual, E)
           capQkv == Whole(QkvBuffer, E)
           capQ == Whole(QBuffer, E)
           capGate == Whole(GateUpBuffer, E)
           capAct == Whole(FfnBuffer, E)
           capScores == Whole(ScoreCount * F, F)
           capProbs == Whole(ScoreCount * E, E)
           capLogits == Whole(config.vocab * F, F)
           capScratch == Larger(1, (ScratchFloats * F) \div F) * F
           capGathered == Whole(Gathered, E)
           capIds == Tokens * I
<1>6. Carvings[k].bytes =
        << capX, capX, capX, capQkv, capQ, capQ, capQ, capGate, capAct, capScores, capProbs,
           capLogits, capScratch, capGathered, capGathered, capIds, I >>[k]
  BY DEF Carvings, Carving, E, F, I
<1>7. x <= capX /\ qkv <= capQkv /\ act <= capAct
  <2>1. QDim(config) + 2 * KvDim(config) \in Nat
    BY <1>4
  <2>2. t * config.hidden * E <= Whole(Tokens * config.hidden * E, E)
    BY <1>1, <1>2, <1>3, RowsFit
  <2>3. t * config.ffn * E <= Whole(Tokens * config.ffn * E, E)
    BY <1>1, <1>2, <1>3, RowsFit
  <2>4. t * (QDim(config) + 2 * KvDim(config)) * E
          <= Whole(Tokens * (QDim(config) + 2 * KvDim(config)) * E, E)
    BY <1>1, <1>2, <2>1, RowsFit
  <2> QED
    BY <2>2, <2>3, <2>4 DEF Residual, QkvBuffer, FfnBuffer, E
<1>8. gate <= capGate
  <2>1. t * 2 \in Nat /\ Tokens * 2 \in Nat /\ t * 2 <= Tokens * 2
    BY <1>2
  <2>2. t * 2 * config.ffn * E <= Whole(Tokens * 2 * config.ffn * E, E)
    BY <1>1, <1>3, <2>1, RowsFit
  <2> QED
    BY <2>2 DEF GateUpBuffer, E
<1>9. /\ q <= capQ /\ out <= capQ /\ rows * dim * E <= capQ
  <2>1. /\ heads * t * dim * E <= Whole(Tokens * (heads * dim) * E, E)
        /\ t * heads * dim * E <= Whole(Tokens * (heads * dim) * E, E)
        /\ kv * (heads \div kv) * t * dim * E <= Whole(Tokens * (heads * dim) * E, E)
    BY <1>1, <1>2, <1>3, HeadsFit
  <2>2. QBuffer = Tokens * (heads * dim) * E
    BY <1>4 DEF QBuffer, E
  <2> QED
    BY <2>1, <2>2
<1>10. /\ rows * keys * F <= capScores /\ rows * keys * E <= capProbs
  <2>1. kv * (heads \div kv) * t * keys * F
          <= Whole(heads * Tokens * options.maxSeq * F, F)
    BY <1>1, <1>2, <1>3, ScoresFit
  <2>2. kv * (heads \div kv) * t * keys * E
          <= Whole(heads * Tokens * options.maxSeq * E, E)
    BY <1>1, <1>2, <1>3, ScoresFit
  <2>3. ScoreCount = heads * Tokens * options.maxSeq
    BY DEF ScoreCount, heads
  <2> QED
    BY <2>1, <2>2, <2>3
<1>11. logits <= capLogits
  <2>1. Whole(config.vocab * F, F) = config.vocab * F /\ config.vocab * F \in Nat
    BY <1>1, <1>3, WholeOfProduct, ProductInNat DEF Positive
  <2> QED
    BY <2>1
<1>12. scratch <= capScratch
  <2> DEFINE floats == heads * MaxSplits * (2 + dim)
  <2>1. floats \in Nat /\ floats >= 1
    <3>1. heads * MaxSplits \in Positive /\ 2 + dim \in Positive
      BY <1>1, <1>3 DEF Positive
    <3> QED
      BY <3>1 DEF Positive
  <2>2. ScratchFloats = floats
    BY DEF ScratchFloats, heads, dim
  <2>3. /\ heads * (IF keys < MaxSplits THEN keys ELSE MaxSplits) * (2 + dim) * F <= floats * F
        /\ 2 * F <= floats * F
    BY <1>1, <1>2, <1>3, ScratchFits
  <2> HIDE DEF floats
  <2>4. capScratch = floats * F
    BY <1>1, <2>1, <2>2, CountOfWhole DEF Larger, Positive
  <2> HIDE DEF capScratch
  <2> QED
    BY <2>3, <2>4
<1>13. /\ options.paged => kv * keys * dim * E <= capGathered
       /\ Gathered = 0 => ~(gathered > 0)
  <2>1. kv * keys * dim * E <= Whole(kv * options.maxSeq * dim * E, E)
    BY <1>1, <1>2, <1>3, GatheredFits
  <2>2. options.paged => Gathered = kv * options.maxSeq * dim * E
    BY DEF Gathered, kv, dim, E
  <2>3. options.paged => kv * keys * dim * E <= capGathered
    BY <2>1, <2>2
  <2>4. kv * keys * dim * E \in Nat
    BY <1>1, <1>2, <1>3, ProductInNat DEF Positive
  <2>5. Gathered = 0 => capGathered = 0
    <3>1. Whole(0, E) \in Nat /\ Whole(0, E) <= 0
      BY <1>1, WholeBounds DEF Positive
    <3> QED
      BY <3>1
  <2> HIDE DEF capGathered
  <2>6. Gathered = 0 /\ options.paged => kv * keys * dim * E <= 0
    BY <2>3, <2>5
  <2> QED
    BY <2>3, <2>4, <2>6
<1>14. ids <= capIds /\ I <= I
  <2>1. t * I <= Tokens * I
    BY <1>1, <1>2, Grows DEF Positive
  <2> QED
    BY <1>1, <2>1 DEF Positive
<1>15. Carvings[k].bytes \in Nat
  BY CarvingsFitSizes
<1> HIDE DEF x, qkv, q, out, gate, act, logits, ids, rows
<1> HIDE DEF capX, capQkv, capQ, capGate, capAct, capScores, capProbs, capLogits, capScratch,
             capGathered, capIds
<1>16. CASE k \in {6, 10, 11}
  <2>1. Extents(t, s)[Names[k]] = 0
           \/ (k = 6 /\ Extents(t, s)[Names[k]] = rows * dim * E)
           \/ (k = 10 /\ Extents(t, s)[Names[k]] = rows * keys * F)
           \/ (k = 11 /\ Extents(t, s)[Names[k]] = rows * keys * E)
    BY <1>5, <1>16
  <2>2. /\ k = 6 => Carvings[k].bytes = capQ
        /\ k = 10 => Carvings[k].bytes = capScores
        /\ k = 11 => Carvings[k].bytes = capProbs
    BY <1>6
  <2> QED
    BY <1>9, <1>10, <1>15, <1>16, <2>1, <2>2 DEF Skipped
<1>17. CASE k \in {14, 15}
  <2>1. Extents(t, s)[Names[k]] = gathered /\ Carvings[k].bytes = capGathered
    BY <1>5, <1>6, <1>17
  <2>2. gathered <= capGathered
    BY <1>13, <1>15, <2>1
  <2> QED
    BY <1>13, <2>1, <2>2 DEF Skipped
<1>18. CASE k \notin {6, 10, 11, 14, 15}
  <2> HIDE DEF attn, scores, probs, scratch, gathered
  <2>1. Extents(t, s)[Names[k]] <= Carvings[k].bytes
    BY <1>5, <1>6, <1>7, <1>8, <1>9, <1>11, <1>12, <1>14, <1>18
  <2> QED
    BY <1>18, <2>1 DEF Skipped
<1> QED
  BY <1>16, <1>17, <1>18

(* Model::allocate_arena and every kernel that takes a buffer: for every   *)
(* shape of the model the buffers are disjoint, and no chunk that prefill  *)
(* or decode admits, at any position, reaches past the end of one.         *)
THEOREM NoPassLeavesItsBuffers == Spec => []BuffersHoldEveryPass
<1>1. ArenaInv /\ BuffersInv => BuffersHoldEveryPass
  <2> SUFFICES ASSUME ArenaInv, BuffersInv, status = "ready" PROVE BuffersHoldEveryPass
    BY DEF BuffersHoldEveryPass
  <2>1. /\ stage = "carve" /\ at = 18 /\ Placed /\ SaneConfig /\ SaneOptions
    BY DEF BuffersInv, ArenaInv
  <2>2. used \in Nat /\ capacity \in Int
    <3>1. used \in Nat /\ capacity = planned[17] + Slack /\ planned[17] \in Nat
      BY <2>1 DEF ArenaInv, PlannedUpTo
    <3> QED
      BY <3>1, LoadAssumption
  <2>3. \A b \in DOMAIN buffers : buffers[b].from + buffers[b].bytes <= capacity
    <3> SUFFICES ASSUME NEW b \in DOMAIN buffers
                 PROVE  buffers[b].from + buffers[b].bytes <= capacity
      OBVIOUS
    <3>1. /\ buffers[b].from \in Nat /\ buffers[b].bytes \in Nat
          /\ buffers[b].from + buffers[b].bytes <= used /\ used <= capacity
      BY <2>1 DEF Placed
    <3> QED
      BY <2>2, <3>1
  <2>4. \A a, b \in DOMAIN buffers : a # b => Disjoint(a, b)
    BY <2>1 DEF Placed
  <2>5. ASSUME NEW t \in 1 .. MaxTokens, NEW s \in 0 .. options.maxSeq - t,
               NEW b \in DOMAIN Extents(t, s), Extents(t, s)[b] > 0
        PROVE  b \in DOMAIN buffers /\ Extents(t, s)[b] <= buffers[b].bytes
    <3>1. PICK k \in 1 .. 17 : b = Names[k]
      <4>1. b \in {"x", "normed", "proj_out", "qkv", "q_heads", "attn_heads", "attn_out",
                   "gate_up", "act", "scores", "probs", "logits", "attention_scratch",
                   "gathered_keys", "gathered_values", "token_ids", "sampled_id"}
        BY DEF Extents
      <4> QED
        BY <4>1 DEF Names
    <3>2. Extents(t, s)[b] <= Carvings[k].bytes /\ ~Skipped(k)
      BY <2>1, <2>5, <3>1, ExtentsFit
    <3>3. k \in 1 .. at - 1
      BY <2>1
    <3>4. b \in DOMAIN buffers /\ buffers[b].bytes = Carvings[k].bytes
      BY <2>1, <3>1, <3>2, <3>3 DEF Placed
    <3> QED
      BY <3>2, <3>4
  <2> QED
    BY <2>3, <2>4, <2>5 DEF BuffersHoldEveryPass, Disjoint
<1> QED
  BY <1>1, ArenaInit, ArenaStep, BuffersInit, BuffersStep, PTL DEF Spec

-----------------------------------------------------------------------------
(* src/safetensors.cpp: for every directory and however the constructor    *)
(* ends, no descriptor is left open but that of a file too small to be a   *)
(* checkpoint.                                                             *)
THEOREM OnlyTruncatedLeaks == Spec => []FilesReleased
<1>1. Init => FilesReleased
  BY DEF Init, FilesReleased
<1>2. FilesReleased /\ [Next]_vars => FilesReleased'
  <2> SUFFICES ASSUME FilesReleased, [Next]_vars, status' # "loading"
               PROVE  \A name \in descriptors' : dir'.files[name].size <= 8
    BY DEF FilesReleased
  <2> USE DEF Loading, Goto, Again, Leave
  <2>1. CASE OpenFile
    <3> DEFINE name == Shards[at]
    <3>1. dir' = dir
      BY <2>1 DEF OpenFile, inputVars
    <3>2. CASE OpenFails(name)
      BY <2>1, <3>1, <3>2 DEF OpenFile, OpenFails, KeptOpen
    <3>3. CASE ~OpenFails(name)
      BY <2>1, <3>1, <3>3 DEF OpenFile
    <3> QED
      BY <3>2, <3>3
  <2>2. CASE ReadConfig
    BY <2>2 DEF ReadConfig
  <2>3. CASE CheckOptions
    BY <2>3 DEF CheckOptions
  <2>4. CASE ArchiveOpen
    BY <2>4 DEF ArchiveOpen
  <2>5. CASE PlanBlock
    BY <2>5 DEF PlanBlock
  <2>6. CASE AllocateWeights
    BY <2>6 DEF AllocateWeights
  <2>7. CASE UploadBlock \/ TieHead
    BY <2>7 DEF UploadBlock, TieHead
  <2>8. CASE BuildCache
    BY <2>8 DEF BuildCache
  <2>9. CASE PlanBuffer \/ ReserveArena
    BY <2>9 DEF PlanBuffer, ReserveArena
  <2>10. CASE CarveBuffer
    BY <2>10 DEF CarveBuffer
  <2>11. CASE SkipGathered \/ Return \/ SystemFails
    BY <2>11 DEF SkipGathered, Return, SystemFails
  <2>12. CASE Stopped \/ UNCHANGED vars
    BY <2>12 DEF Stopped, vars, inputVars, FilesReleased
  <2> QED
    BY <2>1, <2>2, <2>3, <2>4, <2>5, <2>6, <2>7, <2>8, <2>9, <2>10, <2>11, <2>12 DEF Next
<1> QED
  BY <1>1, <1>2, PTL DEF Spec

-----------------------------------------------------------------------------
(* The index of an entry of a list that repeats k entries for each layer.  *)
LEMMA LayerIndex ==
  ASSUME NEW k \in Nat \ {0}, NEW layer \in Nat \ {0}, NEW r \in 1 .. k, NEW layers \in Nat,
         layer <= layers
  PROVE  /\ k * (layer - 1) + r \in 1 .. k * layers
         /\ ((k * (layer - 1) + r) - 1) \div k + 1 = layer
         /\ (((k * (layer - 1) + r) - 1) % k) + 1 = r
<1> DEFINE n == (k * (layer - 1) + r) - 1
<1>1. k * (layer - 1) \in Nat /\ k * layers \in Nat /\ k * layer \in Nat
  BY ProductInNat
<1>2. k * (layer - 1) = k * layer - k
  OBVIOUS
<1>3. k * layer <= k * layers
  OBVIOUS
<1>4. n \in Nat /\ n = k * (layer - 1) + (r - 1)
  BY <1>1
<1>5. n \div k = layer - 1 /\ n % k = r - 1
  <2>1. n \div k \in Nat /\ n % k \in 0 .. k - 1 /\ n = k * (n \div k) + (n % k)
    BY <1>4
  <2> DEFINE q == n \div k
             m == n % k
             l == layer - 1
  <2>2. l \in Nat /\ q \in Nat /\ m \in 0 .. k - 1 /\ r - 1 \in 0 .. k - 1
        /\ k * q + m = k * l + (r - 1)
    BY <1>4, <2>1
  <2> HIDE DEF q, m, l, n
  <2>3. k * q < k * (l + 1) /\ k * l < k * (q + 1)
    BY <2>2
  <2>4. q < l + 1 /\ l < q + 1
    BY <2>2, <2>3
  <2>5. q = l /\ m = r - 1
    BY <2>2, <2>4
  <2> QED
    BY <2>5 DEF q, m, l
<1> QED
  BY <1>1, <1>2, <1>3, <1>5

LEMMA LayerOfIndex ==
  ASSUME NEW k \in Nat \ {0}, NEW layers \in Nat, NEW i \in 1 .. k * layers
  PROVE  \E layer \in 1 .. layers, r \in 1 .. k : i = k * (layer - 1) + r
<1> DEFINE q == (i - 1) \div k
           m == (i - 1) % k
<1>1. q \in Nat /\ m \in 0 .. k - 1 /\ i - 1 = k * q + m /\ i <= k * layers
  OBVIOUS
<1> HIDE DEF q, m
<1>2. k * q < k * layers
  BY <1>1, ProductInNat
<1>3. q < layers
  BY <1>1, <1>2
<1>4. q + 1 \in 1 .. layers /\ m + 1 \in 1 .. k /\ i = k * ((q + 1) - 1) + (m + 1)
  BY <1>1, <1>3
<1> QED
  BY <1>4

(* One entry, the entries of the layers, one entry, and possibly a last.   *)
LEMMA Listed ==
  ASSUME NEW first, NEW body, NEW n \in Nat, DOMAIN body = 1 .. n,
         NEW final, NEW last, Len(last) \in Nat, DOMAIN last = 1 .. Len(last),
         NEW list, list = <<first>> \o [i \in 1 .. n |-> body[i]] \o <<final>> \o last
  PROVE  /\ DOMAIN list = 1 .. n + 2 + Len(last)
         /\ list[1] = first
         /\ \A i \in 1 .. n : list[i + 1] = body[i]
         /\ list[n + 2] = final
         /\ \A i \in 1 .. Len(last) : list[n + 2 + i] = last[i]
OBVIOUS

LastBlocks == IF HasHead THEN <<Block(0, "lm_head", <<HeadOf(config)>>)>> ELSE << >>

LEMMA BlocksListed ==
  ASSUME SaneConfig
  PROVE  LET n == 6 * config.layers
         IN  /\ DOMAIN Blocks = 1 .. n + 2 + Len(LastBlocks)
             /\ Blocks[1] = Block(0, "embedding", Embedding(config))
             /\ \A layer \in 1 .. config.layers, r \in 1 .. 6 :
                  Blocks[6 * (layer - 1) + r + 1] = LayerBlocks(config, layer)[r]
             /\ Blocks[n + 2] = Block(0, "final_norm", FinalNorm(config))
             /\ HasHead => Len(LastBlocks) = 1
                             /\ Blocks[n + 3] = Block(0, "lm_head", <<HeadOf(config)>>)
             /\ ~HasHead => Len(LastBlocks) = 0
<1> DEFINE first == Block(0, "embedding", Embedding(config))
           body  == [i \in 1 .. 6 * config.layers |->
                       LayerBlocks(config, (i - 1) \div 6 + 1)[((i - 1) % 6) + 1]]
           final == Block(0, "final_norm", FinalNorm(config))
           n == 6 * config.layers
<1>1. config.layers \in Nat /\ 6 * config.layers \in Nat
  BY DEF SaneConfig, Positive
<1>2. Blocks = <<first>> \o body \o <<final>> \o LastBlocks
  BY DEF Blocks, LastBlocks, Embedding, FinalNorm, HeadOf
<1>3. [i \in 1 .. n |-> body[i]] = body /\ DOMAIN body = 1 .. n /\ n \in Nat
  BY <1>1
<1>4. Len(LastBlocks) \in Nat /\ DOMAIN LastBlocks = 1 .. Len(LastBlocks)
      /\ (HasHead => Len(LastBlocks) = 1 /\ LastBlocks[1] = Block(0, "lm_head", <<HeadOf(config)>>))
      /\ (~HasHead => Len(LastBlocks) = 0)
  <2>1. CASE HasHead
    <3>1. LastBlocks = <<Block(0, "lm_head", <<HeadOf(config)>>)>>
      BY <2>1 DEF LastBlocks
    <3> QED
      BY <2>1, <3>1
  <2>2. CASE ~HasHead
    <3>1. LastBlocks = << >>
      BY <2>2 DEF LastBlocks
    <3> QED
      BY <2>2, <3>1
  <2> QED
    BY <2>1, <2>2
<1>5. \A layer \in 1 .. config.layers, r \in 1 .. 6 :
        6 * (layer - 1) + r \in 1 .. 6 * config.layers
        /\ body[6 * (layer - 1) + r] = LayerBlocks(config, layer)[r]
  <2> TAKE layer \in 1 .. config.layers, r \in 1 .. 6
  <2>1. layer \in Nat \ {0} /\ layer <= config.layers /\ 6 \in Nat \ {0}
    BY <1>1
  <2> DEFINE i == 6 * (layer - 1) + r
  <2>2. i \in 1 .. 6 * config.layers /\ (i - 1) \div 6 + 1 = layer
        /\ ((i - 1) % 6) + 1 = r
    BY <1>1, <2>1, LayerIndex
  <2> HIDE DEF i
  <2>3. body[i] = LayerBlocks(config, (i - 1) \div 6 + 1)[((i - 1) % 6) + 1]
    BY <2>2
  <2> QED
    BY <2>2, <2>3 DEF i
<1> HIDE DEF first, body, final, n
<1>6. Blocks = <<first>> \o [i \in 1 .. n |-> body[i]] \o <<final>> \o LastBlocks
  BY <1>2, <1>3
<1>7. /\ DOMAIN Blocks = 1 .. n + 2 + Len(LastBlocks)
      /\ Blocks[1] = first
      /\ \A i \in 1 .. n : Blocks[i + 1] = body[i]
      /\ Blocks[n + 2] = final
      /\ \A i \in 1 .. Len(LastBlocks) : Blocks[n + 2 + i] = LastBlocks[i]
  <2> DEFINE list == Blocks
             last == LastBlocks
  <2>1. /\ DOMAIN body = 1 .. n /\ n \in Nat /\ Len(last) \in Nat
        /\ DOMAIN last = 1 .. Len(last)
        /\ list = <<first>> \o [i \in 1 .. n |-> body[i]] \o <<final>> \o last
    BY <1>3, <1>4, <1>6
  <2> HIDE DEF list, last
  <2>2. /\ DOMAIN list = 1 .. n + 2 + Len(last)
        /\ list[1] = first
        /\ \A i \in 1 .. n : list[i + 1] = body[i]
        /\ list[n + 2] = final
        /\ \A i \in 1 .. Len(last) : list[n + 2 + i] = last[i]
    BY <2>1, Listed
  <2> QED
    BY <2>2 DEF list, last
<1>8. HasHead => Blocks[n + 3] = Block(0, "lm_head", <<HeadOf(config)>>)
  <2> SUFFICES ASSUME HasHead PROVE Blocks[n + 3] = Block(0, "lm_head", <<HeadOf(config)>>)
    OBVIOUS
  <2>1. 1 \in 1 .. Len(LastBlocks) /\ n + 2 + 1 = n + 3
    BY <1>3, <1>4
  <2>2. Blocks[n + 2 + 1] = LastBlocks[1]
    BY <1>7, <2>1
  <2> QED
    BY <1>4, <2>1, <2>2
<1>9. \A layer \in 1 .. config.layers, r \in 1 .. 6 :
        Blocks[6 * (layer - 1) + r + 1] = LayerBlocks(config, layer)[r]
  BY <1>5, <1>7 DEF n
<1> QED
  BY <1>4, <1>7, <1>8, <1>9 DEF first, final, n

(* Every index of Blocks is one of these.                                  *)
LEMMA BlockCases ==
  ASSUME SaneConfig, NEW k \in DOMAIN Blocks
  PROVE  \/ k = 1
         \/ \E layer \in 1 .. config.layers, r \in 1 .. 6 : k = 6 * (layer - 1) + r + 1
         \/ k = 6 * config.layers + 2
         \/ HasHead /\ k = 6 * config.layers + 3
<1> DEFINE n == 6 * config.layers
<1>1. config.layers \in Nat /\ 6 \in Nat \ {0} /\ n \in Nat
  BY DEF SaneConfig, Positive
<1>2. k \in 1 .. n + 3 /\ (~HasHead => k <= n + 2)
  <2>1. /\ DOMAIN Blocks = 1 .. n + 2 + Len(LastBlocks)
        /\ HasHead => Len(LastBlocks) = 1
        /\ ~HasHead => Len(LastBlocks) = 0
    BY BlocksListed
  <2> HIDE DEF n
  <2>2. k \in 1 .. n + 2 + Len(LastBlocks)
    BY <2>1
  <2> DEFINE extra == Len(LastBlocks)
  <2>3. CASE HasHead
    <3>1. extra = 1
      BY <2>1, <2>3
    <3> HIDE DEF extra
    <3>2. k \in 1 .. n + 3
      BY <1>1, <2>2, <3>1 DEF extra
    <3> QED
      BY <2>3, <3>2
  <2>4. CASE ~HasHead
    <3>1. extra = 0
      BY <2>1, <2>4
    <3> HIDE DEF extra
    <3>2. k \in 1 .. n + 2
      BY <1>1, <2>2, <3>1 DEF extra
    <3> QED
      BY <1>1, <3>2
  <2> QED
    BY <2>3, <2>4
<1>3. CASE k - 1 \in 1 .. 6 * config.layers
  <2>1. \E layer \in 1 .. config.layers, r \in 1 .. 6 : k - 1 = 6 * (layer - 1) + r
    BY <1>1, <1>3, LayerOfIndex
  <2>2. PICK layer \in 1 .. config.layers, r \in 1 .. 6 : k - 1 = 6 * (layer - 1) + r
    BY <2>1
  <2>3. k = 6 * (layer - 1) + r + 1
    BY <1>1, <1>2, <2>2
  <2> QED
    BY <2>3
<1>4. CASE k - 1 \notin 1 .. 6 * config.layers
  <2>1. k = 1 \/ k = n + 2 \/ (k = n + 3 /\ HasHead)
    <3>1. k - 1 \notin 1 .. n
      BY <1>4
    <3> HIDE DEF n
    <3> QED
      BY <1>1, <1>2, <3>1
  <2> QED
    BY <2>1
<1> QED
  BY <1>3, <1>4

LEMMA SpecsListed ==
  ASSUME SaneConfig
  PROVE  LET specs == RequiredWeights(config)
             n == 9 * config.layers
         IN  /\ DOMAIN specs = 1 .. n + 2
             /\ specs[1] = Embedding(config)[1]
             /\ \A layer \in 1 .. config.layers, r \in 1 .. 9 :
                  specs[9 * (layer - 1) + r + 1] = LayerWeights(config, layer)[r]
             /\ specs[n + 2] = FinalNorm(config)[1]
<1> DEFINE first == Embedding(config)[1]
           body  == EveryLayer(config)
           final == FinalNorm(config)[1]
           specs == RequiredWeights(config)
           none  == << >>
           n     == 9 * config.layers
<1>1. config.layers \in Nat /\ 9 * config.layers \in Nat
  BY DEF SaneConfig, Positive
<1>2. DOMAIN body = 1 .. n /\ [i \in 1 .. n |-> body[i]] = body /\ n \in Nat
  BY <1>1 DEF EveryLayer
<1>3. specs = <<first>> \o body \o <<final>> \o none
  <2>1. <<first>> = Embedding(config) /\ <<final>> = FinalNorm(config)
    BY DEF Embedding, FinalNorm
  <2>2. RequiredWeights(config) = Embedding(config) \o body \o FinalNorm(config)
    BY DEF RequiredWeights
  <2> HIDE DEF first, final, body
  <2>3. <<first>> \o body \o <<final>> \o none = <<first>> \o body \o <<final>>
    BY <1>1, <1>2
  <2> QED
    BY <2>1, <2>2, <2>3
<1>4. \A layer \in 1 .. config.layers, r \in 1 .. 9 :
        9 * (layer - 1) + r \in 1 .. 9 * config.layers
        /\ body[9 * (layer - 1) + r] = LayerWeights(config, layer)[r]
  <2> TAKE layer \in 1 .. config.layers, r \in 1 .. 9
  <2>1. layer \in Nat \ {0} /\ layer <= config.layers /\ 9 \in Nat \ {0}
    BY <1>1
  <2> DEFINE i == 9 * (layer - 1) + r
  <2>2. i \in 1 .. 9 * config.layers /\ (i - 1) \div 9 + 1 = layer
        /\ ((i - 1) % 9) + 1 = r
    BY <1>1, <2>1, LayerIndex
  <2> HIDE DEF i
  <2>3. body[i] = LayerWeights(config, (i - 1) \div 9 + 1)[((i - 1) % 9) + 1]
    BY <2>2 DEF EveryLayer
  <2> QED
    BY <2>2, <2>3 DEF i
<1>5. Len(none) = 0 /\ DOMAIN none = 1 .. Len(none) /\ Len(none) \in Nat
  OBVIOUS
<1> HIDE DEF first, body, final, specs, n, none
<1>6. specs = <<first>> \o [i \in 1 .. n |-> body[i]] \o <<final>> \o none
  BY <1>2, <1>3
<1>7. /\ DOMAIN specs = 1 .. n + 2
      /\ specs[1] = first
      /\ \A i \in 1 .. n : specs[i + 1] = body[i]
      /\ specs[n + 2] = final
  <2>0. /\ DOMAIN body = 1 .. n /\ n \in Nat /\ Len(none) \in Nat
        /\ DOMAIN none = 1 .. Len(none)
    BY <1>2, <1>5
  <2>1. /\ DOMAIN specs = 1 .. n + 2 + Len(none)
        /\ specs[1] = first
        /\ \A i \in 1 .. n : specs[i + 1] = body[i]
        /\ specs[n + 2] = final
        /\ \A i \in 1 .. Len(none) : specs[n + 2 + i] = none[i]
    BY <2>0, <1>6, Listed
  <2> QED
    BY <1>2, <1>5, <2>1
<1>8. \A layer \in 1 .. config.layers, r \in 1 .. 9 :
        specs[9 * (layer - 1) + r + 1] = LayerWeights(config, layer)[r]
  BY <1>4, <1>7 DEF n
<1> QED
  BY <1>7, <1>8 DEF first, final, specs, n

LEMMA SpecCases ==
  ASSUME SaneConfig, NEW i \in DOMAIN RequiredWeights(config)
  PROVE  \/ i = 1
         \/ \E layer \in 1 .. config.layers, r \in 1 .. 9 : i = 9 * (layer - 1) + r + 1
         \/ i = 9 * config.layers + 2
<1>1. config.layers \in Nat /\ 9 \in Nat \ {0}
  BY DEF SaneConfig, Positive
<1>2. i \in 1 .. 9 * config.layers + 2
  BY <1>1, SpecsListed
<1>3. CASE i - 1 \in 1 .. 9 * config.layers
  <2>1. \E layer \in 1 .. config.layers, r \in 1 .. 9 : i - 1 = 9 * (layer - 1) + r
    BY <1>1, <1>3, LayerOfIndex
  <2>2. PICK layer \in 1 .. config.layers, r \in 1 .. 9 : i - 1 = 9 * (layer - 1) + r
    BY <2>1
  <2>3. i = 9 * (layer - 1) + r + 1
    BY <1>1, <1>2, <2>2
  <2> QED
    BY <2>3
<1>4. CASE i - 1 \notin 1 .. 9 * config.layers
  BY <1>1, <1>2, <1>4
<1> QED
  BY <1>3, <1>4

-----------------------------------------------------------------------------
(* Which block and which of its pieces a required tensor is.               *)
RoleBlock == <<1, 2, 2, 2, 3, 4, 5, 5, 6>>
RolePiece == <<1, 1, 2, 3, 1, 1, 1, 2, 1>>

LEMMA RolePlaced ==
  ASSUME NEW c, NEW layer, NEW r \in 1 .. 9
  PROVE  /\ RoleBlock[r] \in 1 .. 6
         /\ RolePiece[r] \in DOMAIN LayerBlocks(c, layer)[RoleBlock[r]].pieces
         /\ LayerBlocks(c, layer)[RoleBlock[r]].pieces[RolePiece[r]]
              = LayerWeights(c, layer)[r]
<1>1. r = 1 \/ r = 2 \/ r = 3 \/ r = 4 \/ r = 5 \/ r = 6 \/ r = 7 \/ r = 8 \/ r = 9
  OBVIOUS
<1> QED
  BY <1>1 DEF RoleBlock, RolePiece, LayerBlocks, LayerWeights, Block

LEMMA PieceOfRole ==
  ASSUME NEW c, NEW layer, NEW b \in 1 .. 6,
         NEW p \in DOMAIN LayerBlocks(c, layer)[b].pieces
  PROVE  \E r \in 1 .. 9 : RoleBlock[r] = b /\ RolePiece[r] = p
<1>1. CASE b = 1
  <2>1. p = 1 /\ RoleBlock[1] = 1 /\ RolePiece[1] = 1 /\ 1 \in 1 .. 9
    BY <1>1 DEF LayerBlocks, Block, RoleBlock, RolePiece
  <2> QED
    BY <1>1, <2>1
<1>2. CASE b = 2
  <2>1. p = 1 \/ p = 2 \/ p = 3
    BY <1>2 DEF LayerBlocks, Block
  <2>2. /\ RoleBlock[2] = 2 /\ RolePiece[2] = 1 /\ 2 \in 1 .. 9
        /\ RoleBlock[3] = 2 /\ RolePiece[3] = 2 /\ 3 \in 1 .. 9
        /\ RoleBlock[4] = 2 /\ RolePiece[4] = 3 /\ 4 \in 1 .. 9
    BY DEF RoleBlock, RolePiece
  <2> QED
    BY <1>2, <2>1, <2>2
<1>3. CASE b = 3
  <2>1. p = 1 /\ RoleBlock[5] = 3 /\ RolePiece[5] = 1 /\ 5 \in 1 .. 9
    BY <1>3 DEF LayerBlocks, Block, RoleBlock, RolePiece
  <2> QED
    BY <1>3, <2>1
<1>4. CASE b = 4
  <2>1. p = 1 /\ RoleBlock[6] = 4 /\ RolePiece[6] = 1 /\ 6 \in 1 .. 9
    BY <1>4 DEF LayerBlocks, Block, RoleBlock, RolePiece
  <2> QED
    BY <1>4, <2>1
<1>5. CASE b = 5
  <2>1. p = 1 \/ p = 2
    BY <1>5 DEF LayerBlocks, Block
  <2>2. /\ RoleBlock[7] = 5 /\ RolePiece[7] = 1 /\ 7 \in 1 .. 9
        /\ RoleBlock[8] = 5 /\ RolePiece[8] = 2 /\ 8 \in 1 .. 9
    BY DEF RoleBlock, RolePiece
  <2> QED
    BY <1>5, <2>1, <2>2
<1>6. CASE b = 6
  <2>1. p = 1 /\ RoleBlock[9] = 6 /\ RolePiece[9] = 1 /\ 9 \in 1 .. 9
    BY <1>6 DEF LayerBlocks, Block, RoleBlock, RolePiece
  <2> QED
    BY <1>6, <2>1
<1> QED
  BY <1>1, <1>2, <1>3, <1>4, <1>5, <1>6

Placement(k, p, spec) ==
  k \in DOMAIN Blocks /\ p \in DOMAIN Blocks[k].pieces /\ Blocks[k].pieces[p] = spec

(* Every required tensor is a piece of a block, and so is an output head   *)
(* the checkpoint has.                                                     *)
LEMMA RequiredPlaced ==
  ASSUME SaneConfig
  PROVE  LET specs == RequiredWeights(config)
             Row(layer, r) == 9 * (layer - 1) + r + 1
             Col(layer, r) == 6 * (layer - 1) + RoleBlock[r] + 1
         IN  /\ Placement(1, 1, specs[1])
             /\ \A layer \in 1 .. config.layers, r \in 1 .. 9 :
                  Placement(Col(layer, r), RolePiece[r], specs[Row(layer, r)])
             /\ Placement(6 * config.layers + 2, 1, specs[9 * config.layers + 2])
             /\ HasHead => Placement(6 * config.layers + 3, 1, HeadOf(config))
<1> DEFINE specs == RequiredWeights(config)
           n == 6 * config.layers
<1>1. config.layers \in Nat \ {0} /\ n \in Nat
  BY DEF SaneConfig, Positive
<1>2. /\ DOMAIN Blocks = 1 .. n + 2 + Len(LastBlocks)
      /\ Blocks[1] = Block(0, "embedding", Embedding(config))
      /\ \A layer \in 1 .. config.layers, r \in 1 .. 6 :
           Blocks[6 * (layer - 1) + r + 1] = LayerBlocks(config, layer)[r]
      /\ Blocks[n + 2] = Block(0, "final_norm", FinalNorm(config))
      /\ HasHead => Len(LastBlocks) = 1
                      /\ Blocks[n + 3] = Block(0, "lm_head", <<HeadOf(config)>>)
      /\ ~HasHead => Len(LastBlocks) = 0
  BY BlocksListed
<1>3. /\ specs[1] = Embedding(config)[1]
      /\ \A layer \in 1 .. config.layers, r \in 1 .. 9 :
           specs[9 * (layer - 1) + r + 1] = LayerWeights(config, layer)[r]
      /\ specs[9 * config.layers + 2] = FinalNorm(config)[1]
  BY SpecsListed
<1> HIDE DEF specs, n
<1>4. Len(LastBlocks) \in Nat /\ (HasHead => Len(LastBlocks) = 1)
  BY <1>2
<1>5. 1 \in DOMAIN Blocks /\ (n + 2) \in DOMAIN Blocks
  BY <1>1, <1>2, <1>4
<1>6. HasHead => (n + 3) \in DOMAIN Blocks
  <2> SUFFICES ASSUME HasHead PROVE (n + 3) \in DOMAIN Blocks
    OBVIOUS
  <2>1. Len(LastBlocks) = 1
    BY <1>4
  <2>2. DOMAIN Blocks = 1 .. n + 3
    BY <1>1, <1>2, <2>1
  <2> QED
    BY <1>1, <2>2
<1>7. Placement(1, 1, specs[1])
  BY <1>2, <1>3, <1>5 DEF Placement, Embedding, Block
<1>8. Placement(n + 2, 1, specs[9 * config.layers + 2])
  BY <1>2, <1>3, <1>5 DEF Placement, FinalNorm, Block
<1>9. HasHead => Placement(n + 3, 1, HeadOf(config))
  BY <1>2, <1>6 DEF Placement, Block
<1>10. ASSUME NEW layer \in 1 .. config.layers, NEW r \in 1 .. 9
       PROVE  Placement(6 * (layer - 1) + RoleBlock[r] + 1, RolePiece[r],
                        specs[9 * (layer - 1) + r + 1])
  <2> DEFINE b == RoleBlock[r]
             k == 6 * (layer - 1) + b + 1
  <2>1. b \in 1 .. 6 /\ layer \in Nat \ {0} /\ layer <= config.layers
    BY <1>1, RolePlaced
  <2> HIDE DEF b
  <2>2. 6 * (layer - 1) + b \in 1 .. 6 * config.layers
    BY <1>1, <2>1, LayerIndex
  <2>3. k \in DOMAIN Blocks
    <3> DEFINE j == 6 * (layer - 1) + b
               extra == Len(LastBlocks)
    <3>1. j \in 1 .. n /\ k = j + 1 /\ extra \in Nat /\ DOMAIN Blocks = 1 .. n + 2 + extra
      BY <1>2, <1>4, <2>2 DEF n
    <3> HIDE DEF j, k, extra
    <3> QED
      BY <1>1, <3>1
  <2>4. Blocks[k] = LayerBlocks(config, layer)[b]
    BY <1>2, <2>1
  <2> HIDE DEF k
  <2>5. RolePiece[r] \in DOMAIN Blocks[k].pieces
        /\ Blocks[k].pieces[RolePiece[r]] = LayerWeights(config, layer)[r]
    BY <2>4, RolePlaced DEF b
  <2>6. Placement(k, RolePiece[r], specs[9 * (layer - 1) + r + 1])
    BY <1>3, <2>3, <2>5 DEF Placement
  <2> QED
    BY <2>6 DEF k, b
<1> QED
  BY <1>7, <1>8, <1>9, <1>10 DEF specs, n

IsPlaced(spec) == \E k \in DOMAIN Blocks : \E p \in DOMAIN Blocks[k].pieces :
                     Blocks[k].pieces[p] = spec

LEMMA AllPlaced ==
  ASSUME SaneConfig
  PROVE  /\ \A i \in DOMAIN RequiredWeights(config) : IsPlaced(RequiredWeights(config)[i])
         /\ HasHead => IsPlaced(HeadOf(config))
<1>1. \A k, p, spec : Placement(k, p, spec) => IsPlaced(spec)
  BY DEF Placement, IsPlaced
<1>2. ASSUME NEW i \in DOMAIN RequiredWeights(config)
      PROVE  IsPlaced(RequiredWeights(config)[i])
  <2>1. CASE \E layer \in 1 .. config.layers, r \in 1 .. 9 : i = 9 * (layer - 1) + r + 1
    BY <1>1, <2>1, RequiredPlaced
  <2>2. CASE i = 1 \/ i = 9 * config.layers + 2
    BY <1>1, <2>2, RequiredPlaced
  <2> QED
    BY <2>1, <2>2, SpecCases
<1>3. HasHead => IsPlaced(HeadOf(config))
  BY <1>1, RequiredPlaced
<1> QED
  BY <1>2, <1>3

(* ... and nothing else is loaded.                                         *)
LEMMA OnlyRequired ==
  ASSUME SaneConfig, NEW k \in DOMAIN Blocks, NEW p \in DOMAIN Blocks[k].pieces
  PROVE  \/ \E i \in DOMAIN RequiredWeights(config) :
              Blocks[k].pieces[p] = RequiredWeights(config)[i]
         \/ HasHead /\ Blocks[k].pieces[p] = HeadOf(config)
<1> DEFINE specs == RequiredWeights(config)
           n == 9 * config.layers
<1>1. config.layers \in Nat \ {0} /\ n \in Nat
  BY DEF SaneConfig, Positive
<1>2. /\ DOMAIN specs = 1 .. n + 2
      /\ specs[1] = Embedding(config)[1]
      /\ specs[n + 2] = FinalNorm(config)[1]
      /\ \A layer \in 1 .. config.layers, r \in 1 .. 9 :
           specs[9 * (layer - 1) + r + 1] = LayerWeights(config, layer)[r]
  BY SpecsListed
<1> HIDE DEF specs
<1>3. 1 \in DOMAIN specs /\ (n + 2) \in DOMAIN specs
  BY <1>1, <1>2
<1>4. CASE k = 1
  <2>1. Blocks[k] = Block(0, "embedding", Embedding(config))
    BY <1>4, BlocksListed
  <2>2. Blocks[k].pieces[p] = specs[1]
    BY <1>2, <2>1 DEF Block, Embedding
  <2> QED
    BY <1>3, <2>2 DEF specs
<1>5. CASE k = 6 * config.layers + 2
  <2>1. Blocks[k] = Block(0, "final_norm", FinalNorm(config))
    BY <1>5, BlocksListed
  <2>2. Blocks[k].pieces[p] = specs[n + 2]
    BY <1>2, <2>1 DEF Block, FinalNorm
  <2> QED
    BY <1>3, <2>2 DEF specs
<1>6. CASE HasHead /\ k = 6 * config.layers + 3
  <2>1. Blocks[k] = Block(0, "lm_head", <<HeadOf(config)>>)
    BY <1>6, BlocksListed
  <2>2. Blocks[k].pieces[p] = HeadOf(config)
    BY <2>1 DEF Block
  <2> QED
    BY <1>6, <2>2
<1>7. ASSUME NEW layer \in 1 .. config.layers, NEW b \in 1 .. 6, k = 6 * (layer - 1) + b + 1
      PROVE  \E i \in DOMAIN specs : Blocks[k].pieces[p] = specs[i]
  <2>1. Blocks[k] = LayerBlocks(config, layer)[b]
    BY <1>7, BlocksListed
  <2>2. PICK r \in 1 .. 9 : RoleBlock[r] = b /\ RolePiece[r] = p
    BY <2>1, PieceOfRole
  <2> DEFINE i == 9 * (layer - 1) + r + 1
  <2>3. Blocks[k].pieces[p] = specs[i]
    <3>1. specs[i] = LayerWeights(config, layer)[r]
      BY <1>2
    <3>2. LayerBlocks(config, layer)[RoleBlock[r]].pieces[RolePiece[r]]
            = LayerWeights(config, layer)[r]
      BY RolePlaced
    <3> QED
      BY <2>1, <2>2, <3>1, <3>2
  <2>4. 9 * (layer - 1) + r \in 1 .. n
    <3>1. layer \in Nat \ {0} /\ layer <= config.layers /\ 9 \in Nat \ {0} /\ config.layers \in Nat
      BY <1>1
    <3> QED
      BY <3>1, LayerIndex
  <2>5. i \in DOMAIN specs
    <3> DEFINE j == 9 * (layer - 1) + r
    <3>1. j \in 1 .. n /\ i = j + 1
      BY <2>4
    <3> HIDE DEF j, n
    <3> QED
      BY <1>1, <1>2, <3>1
  <2> QED
    BY <2>3, <2>5
<1> QED
  BY <1>4, <1>5, <1>6, <1>7, BlockCases DEF specs

-----------------------------------------------------------------------------
(* What the constructor knows once a stage is behind it.                   *)
Entries(i) == DOMAIN dir.files[Shards[i]].entries

ConfigChecked ==
  /\ FieldsReadable(dir.config) /\ ~DividesByZero(dir.config) /\ Supported(dir.config)
  /\ config = ConfigOf(dir.config, dir.generation) /\ Validate(config)

ShardsRead(n) ==
  /\ \A i \in 1 .. n : ~OpenFails(Shards[i]) /\ FileReadable(Shards[i])
  /\ \A i, j \in 1 .. n : i # j => Entries(i) \cap Entries(j) = {}
  /\ DOMAIN tensors = UNION {Entries(i) : i \in 1 .. n}
  /\ \A i \in 1 .. n : \A t \in Entries(i) : tensors[t] = ViewsOf(Shards[i])[t]

BlockUsable(k) == \A i \in DOMAIN Blocks[k].pieces : PieceUsable(Blocks[k].pieces[i])

Planning == {"plan", "carve"}
Opened   == {"weights", "upload", "cache"} \cup Planning

OutcomeInv ==
  /\ at \in Nat \ {0}
  /\ stage # "config" => ConfigChecked
  /\ stage \in {"config", "options"} => tensors = << >>
  /\ stage \notin {"config", "options"} => options.maxSeq > 0 /\ options.chunk > 0
  /\ stage = "open" => at - 1 <= Len(Shards) /\ ShardsRead(at - 1)
  /\ stage \in Opened => ShardsRead(Len(Shards))
  /\ stage = "weights" => \A k \in DOMAIN Blocks : k < at => BlockUsable(k)
  /\ stage \in Opened \ {"weights"} => HeadKnown /\ \A k \in DOMAIN Blocks : BlockUsable(k)
  /\ stage \in Planning => (options.paged => options.pageSize > 0)
  /\ status = "ready" => stage = "carve"
  /\ LoadOutcome

LEMMA ShardsAre ==
  ASSUME NEW input \in Inputs, dir = input.dir
  PROVE  /\ Len(Shards) \in Nat /\ DOMAIN Shards = 1 .. Len(Shards)
         /\ \A i, j \in DOMAIN Shards : Shards[i] = Shards[j] => i = j
         /\ Range(Shards) = {Shards[i] : i \in 1 .. Len(Shards)}
<1>1. /\ Len(Shards) \in Nat /\ DOMAIN Shards = 1 .. Len(Shards)
      /\ \A i, j \in DOMAIN Shards : Shards[i] = Shards[j] => i = j
  <2>1. CASE Single \in DOMAIN dir.files
    <3>1. Shards = <<Single>>
      BY <2>1 DEF Shards
    <3> QED
      BY <3>1
  <2>2. CASE Single \notin DOMAIN dir.files /\ dir.index \in {Absent, Text}
    <3>1. Shards = << >>
      BY <2>2 DEF Shards
    <3> QED
      BY <3>1
  <2>3. CASE Single \notin DOMAIN dir.files /\ dir.index \notin {Absent, Text}
    <3>1. Shards = dir.index
      BY <2>3 DEF Shards
    <3> QED
      BY <2>3, <3>1, InputsAssumption DEF IsInjective
  <2> QED
    BY <2>1, <2>2, <2>3
<1> QED
  BY <1>1 DEF Range

(* The tensors of the archive are those of the shards.                     *)
LEMMA Archive ==
  ASSUME NEW input \in Inputs, dir = input.dir, ShardsRead(Len(Shards)), NEW spec
  PROVE  /\ PieceUsable(spec) <=> Holds(Range(Shards), spec)
         /\ DOMAIN tensors = UNION {DOMAIN dir.files[n].entries : n \in Range(Shards)}
<1> DEFINE names == Range(Shards)
           len == Len(Shards)
<1>1. /\ len \in Nat /\ DOMAIN Shards = 1 .. len
      /\ names = {Shards[i] : i \in 1 .. len}
  BY ShardsAre
<1>2. /\ DOMAIN tensors = UNION {Entries(i) : i \in 1 .. len}
      /\ \A i \in 1 .. len : \A t \in Entries(i) : tensors[t] = ViewsOf(Shards[i])[t]
  BY DEF ShardsRead
<1> HIDE DEF names, len
<1>3. DOMAIN tensors = UNION {DOMAIN dir.files[n].entries : n \in names}
  BY <1>1, <1>2 DEF Entries
<1>4. \A i \in 1 .. len : \A t \in Entries(i) :
        /\ tensors[t].dtype = dir.files[Shards[i]].entries[t].dtype
        /\ tensors[t].shape = dir.files[Shards[i]].entries[t].shape
  <2> TAKE i \in 1 .. len
  <2> TAKE t \in Entries(i)
  <2> DEFINE n == Shards[i]
             entries == dir.files[n].entries
  <2>1. tensors[t] = ViewsOf(n)[t] /\ t \in DOMAIN entries
    BY <1>2 DEF Entries
  <2> HIDE DEF n
  <2>2. ViewsOf(n)[t] = [file |-> n, begin |-> entries[t].begin, dtype |-> entries[t].dtype,
                         shape |-> entries[t].shape,
                         nbytes |-> entries[t].end - entries[t].begin]
    BY <2>1 DEF ViewsOf
  <2>3. tensors[t].dtype = entries[t].dtype /\ tensors[t].shape = entries[t].shape
    BY <2>1, <2>2
  <2> QED
    BY <2>3 DEF n
<1>5. PieceUsable(spec) <=>
        \E i \in 1 .. len : /\ spec.name \in Entries(i)
                            /\ dir.files[Shards[i]].entries[spec.name].shape = spec.shape
                            /\ dir.files[Shards[i]].entries[spec.name].dtype = ElemDtype
  <2>1. spec.name \in DOMAIN tensors <=> \E i \in 1 .. len : spec.name \in Entries(i)
    BY <1>2
  <2> QED
    BY <1>4, <2>1 DEF PieceUsable
<1>6. Holds(names, spec) <=>
        \E i \in 1 .. len : /\ spec.name \in Entries(i)
                            /\ dir.files[Shards[i]].entries[spec.name].shape = spec.shape
                            /\ dir.files[Shards[i]].entries[spec.name].dtype = ElemDtype
  BY <1>1 DEF Holds, Entries
<1> QED
  BY <1>3, <1>5, <1>6 DEF names

(* A model can be made exactly if every check so far was passed and the    *)
(* remaining ones will be.                                                 *)
LEMMA UnusablePiece ==
  ASSUME NEW input \in Inputs, dir = input.dir, ShardsRead(Len(Shards)), SaneConfig,
         ConfigChecked, NEW k \in DOMAIN Blocks, ~BlockUsable(k)
  PROVE  ~Loadable
<1>1. PICK p \in DOMAIN Blocks[k].pieces : ~PieceUsable(Blocks[k].pieces[p])
  BY DEF BlockUsable
<1> DEFINE spec == Blocks[k].pieces[p]
<1>2. ~Holds(Range(Shards), spec)
  BY <1>1, Archive
<1>3. \/ \E i \in DOMAIN RequiredWeights(config) : spec = RequiredWeights(config)[i]
      \/ HasHead /\ spec = HeadOf(config)
  BY OnlyRequired
<1>4. config = ConfigOf(dir.config, dir.generation)
  BY DEF ConfigChecked
<1> HIDE DEF spec
<1>5. HasHead => LmHead \in UNION {DOMAIN dir.files[n].entries : n \in Range(Shards)}
  BY Archive DEF HasHead
<1> QED
  BY <1>2, <1>3, <1>4, <1>5 DEF Loadable

LEMMA UnknownHead ==
  ASSUME NEW input \in Inputs, dir = input.dir, ShardsRead(Len(Shards)),
         ConfigChecked, ~HeadKnown
  PROVE  ~Loadable
<1>1. LmHead \notin UNION {DOMAIN dir.files[n].entries : n \in Range(Shards)}
  BY Archive DEF HeadKnown, HasHead
<1>2. ~ConfigOf(dir.config, dir.generation).tied
  BY DEF ConfigChecked, HeadKnown
<1> QED
  BY <1>1, <1>2 DEF Loadable

LEMMA AllPassed ==
  ASSUME NEW input \in Inputs, dir = input.dir, ShardsRead(Len(Shards)), SaneConfig,
         ConfigChecked, HeadKnown, options.maxSeq > 0 /\ options.chunk > 0,
         options.paged => options.pageSize > 0, \A k \in DOMAIN Blocks : BlockUsable(k)
  PROVE  Loadable
<1> DEFINE names == Range(Shards)
           held  == UNION {DOMAIN dir.files[n].entries : n \in names}
           c == ConfigOf(dir.config, dir.generation)
<1>1. config = c
  BY DEF ConfigChecked
<1>2. /\ \A spec : PieceUsable(spec) <=> Holds(names, spec)
      /\ HasHead <=> LmHead \in held
  BY Archive DEF HasHead
<1>3. \A spec : IsPlaced(spec) => PieceUsable(spec)
  BY DEF IsPlaced, BlockUsable
<1>4. \A i \in DOMAIN RequiredWeights(c) : Holds(names, RequiredWeights(c)[i])
  BY <1>1, <1>2, <1>3, AllPlaced
<1>5. IF LmHead \in held THEN Holds(names, HeadOf(c)) ELSE c.tied
  <2>1. HasHead => Holds(names, HeadOf(c))
    BY <1>1, <1>2, <1>3, AllPlaced
  <2>2. ~HasHead => c.tied
    BY <1>1 DEF HeadKnown
  <2> QED
    BY <1>2, <2>1, <2>2
<1>6. \A n \in names : \E i \in 1 .. Len(Shards) : n = Shards[i]
  BY ShardsAre
<1>7. \A n \in names : ~OpenFails(n) /\ FileReadable(n)
  BY <1>6 DEF ShardsRead
<1>8. \A m, n \in names : m # n =>
        DOMAIN dir.files[m].entries \cap DOMAIN dir.files[n].entries = {}
  BY <1>6 DEF ShardsRead, Entries
<1> QED
  BY <1>1, <1>4, <1>5, <1>7, <1>8 DEF Loadable, ConfigChecked

(* A shard that is read adds its tensors to the archive ...                *)
LEMMA ShardAdded ==
  ASSUME NEW input \in Inputs, dir = input.dir, dir' = dir, NEW n, n = at, at \in DOMAIN Shards,
         ShardsRead(at - 1), ~OpenFails(Shards[at]), FileReadable(Shards[at]),
         ~Overlap(ViewsOf(Shards[at])), tensors' = With(tensors, ViewsOf(Shards[at]))
  PROVE  ShardsRead(n)'
<1> DEFINE views == ViewsOf(Shards[at])
<1>1. at \in 1 .. Len(Shards) /\ Len(Shards) \in Nat
  BY ShardsAre
<1>2. /\ Shards' = Shards
      /\ \A i : Entries(i)' = Entries(i)
      /\ \A name : ViewsOf(name)' = ViewsOf(name)
      /\ \A name : OpenFails(name)' <=> OpenFails(name)
      /\ \A name : FileReadable(name)' <=> FileReadable(name)
  BY DEF Shards, Entries, ViewsOf, OpenFails, FileReadable
<1>3. DOMAIN views = Entries(at)
  BY DEF ViewsOf, Entries
<1>4. Entries(at) \cap DOMAIN tensors = {}
  BY <1>3 DEF Overlap
<1> HIDE DEF views
<1>5. /\ DOMAIN tensors' = DOMAIN tensors \cup Entries(at)
      /\ \A t \in DOMAIN tensors : tensors'[t] = tensors[t]
      /\ \A t \in Entries(at) : tensors'[t] = views[t]
  <2>1. tensors' = [t \in DOMAIN tensors \cup DOMAIN views |->
                      IF t \in DOMAIN tensors THEN tensors[t] ELSE views[t]]
    BY DEF views, With
  <2> QED
    BY <1>3, <1>4, <2>1
<1>6. /\ \A i \in 1 .. at - 1 : ~OpenFails(Shards[i]) /\ FileReadable(Shards[i])
      /\ \A i, j \in 1 .. at - 1 : i # j => Entries(i) \cap Entries(j) = {}
      /\ DOMAIN tensors = UNION {Entries(i) : i \in 1 .. at - 1}
      /\ \A i \in 1 .. at - 1 : \A t \in Entries(i) : tensors[t] = ViewsOf(Shards[i])[t]
  BY DEF ShardsRead
<1>7. \A i \in 1 .. at : i = at \/ i \in 1 .. at - 1
  BY <1>1
<1>8. at \in 1 .. at /\ 1 .. at - 1 \subseteq 1 .. at
  BY <1>1
<1>9. \A i \in 1 .. at - 1 : Entries(i) \cap Entries(at) = {}
  BY <1>4, <1>6
<1>10. \A i \in 1 .. at : ~OpenFails(Shards[i]) /\ FileReadable(Shards[i])
  BY <1>6, <1>7
<1>11. \A i, j \in 1 .. at : i # j => Entries(i) \cap Entries(j) = {}
  BY <1>6, <1>7, <1>9
<1>12. DOMAIN tensors' = UNION {Entries(i) : i \in 1 .. at}
  BY <1>5, <1>6, <1>7, <1>8
<1>13. \A i \in 1 .. at : \A t \in Entries(i) : tensors'[t] = ViewsOf(Shards[i])[t]
  <2> TAKE i \in 1 .. at
  <2> TAKE t \in Entries(i)
  <2>1. CASE i = at
    BY <1>5, <2>1 DEF views
  <2>2. CASE i # at
    <3>1. i \in 1 .. at - 1 /\ t \in DOMAIN tensors
      BY <1>6, <1>7, <2>2
    <3> QED
      BY <1>5, <1>6, <3>1
  <2> QED
    BY <2>1, <2>2
<1>14. /\ \A i \in 1 .. n : ~OpenFails(Shards[i]) /\ FileReadable(Shards[i])
       /\ \A i, j \in 1 .. n : i # j => Entries(i) \cap Entries(j) = {}
       /\ DOMAIN tensors' = UNION {Entries(i) : i \in 1 .. n}
       /\ \A i \in 1 .. n : \A t \in Entries(i) : tensors'[t] = ViewsOf(Shards[i])[t]
  BY <1>10, <1>11, <1>12, <1>13
<1> QED
  BY <1>2, <1>14 DEF ShardsRead

(* ... and one that is refused leaves no model to be made.                 *)
LEMMA ShardRefused ==
  ASSUME NEW input \in Inputs, dir = input.dir, at \in DOMAIN Shards, ShardsRead(at - 1),
         OpenFails(Shards[at]) \/ ~FileReadable(Shards[at]) \/ Overlap(ViewsOf(Shards[at]))
  PROVE  ~Loadable
<1> SUFFICES ASSUME Loadable PROVE FALSE
  OBVIOUS
<1> DEFINE name == Shards[at]
<1>1. name \in Range(Shards) /\ at \in 1 .. Len(Shards) /\ Len(Shards) \in Nat
  BY ShardsAre
<1>2. ~OpenFails(name) /\ FileReadable(name)
  BY <1>1 DEF Loadable
<1>3. PICK t \in DOMAIN ViewsOf(name) : t \in DOMAIN tensors
  BY <1>2 DEF Overlap
<1>4. t \in DOMAIN dir.files[name].entries
  BY <1>3 DEF ViewsOf
<1>5. PICK i \in 1 .. at - 1 : t \in Entries(i)
  BY <1>3 DEF ShardsRead
<1>6. Shards[i] \in Range(Shards) /\ Shards[i] # name
  <2>1. i \in 1 .. Len(Shards) /\ i # at
    BY <1>1, <1>5
  <2> QED
    BY <2>1, ShardsAre
<1>7. DOMAIN dir.files[Shards[i]].entries \cap DOMAIN dir.files[name].entries = {}
  BY <1>1, <1>6 DEF Loadable
<1> QED
  BY <1>4, <1>5, <1>7 DEF Entries

LEMMA NothingRead ==
  ASSUME NEW input \in Inputs, dir = input.dir, ShardsRead(Len(Shards)), DOMAIN tensors = {},
         SaneConfig, ConfigChecked
  PROVE  ~Loadable
<1>1. UNION {DOMAIN dir.files[n].entries : n \in Range(Shards)} = {}
  BY Archive
<1>2. \A spec : ~Holds(Range(Shards), spec)
  BY <1>1 DEF Holds
<1>3. 1 \in DOMAIN RequiredWeights(config)
  <2>1. 9 * config.layers \in Nat
    BY DEF SaneConfig, Positive
  <2> QED
    BY <2>1, SpecsListed
<1> QED
  BY <1>2, <1>3 DEF Loadable, ConfigChecked

-----------------------------------------------------------------------------
LEMMA OutcomeInit == Init => OutcomeInv
BY DEF Init, OutcomeInv, LoadOutcome, Opened, Planning

(* What depends on the arguments alone.                                    *)
LEMMA ArgumentsKept ==
  ASSUME dir' = dir, options' = options
  PROVE  (Loadable' <=> Loadable) /\ Shards' = Shards
         /\ (config' = config => (ConfigChecked' <=> ConfigChecked))
         /\ (config' = config /\ tensors' = tensors =>
               /\ \A n : ShardsRead(n)' <=> ShardsRead(n)
               /\ Blocks' = Blocks /\ (HeadKnown' <=> HeadKnown)
               /\ \A k : BlockUsable(k)' <=> BlockUsable(k))
<1>1. Shards' = Shards
  BY DEF Shards
<1>2. /\ \A n : OpenFails(n)' <=> OpenFails(n)
      /\ \A n : FileReadable(n)' <=> FileReadable(n)
      /\ \A names, spec : Holds(names, spec)' <=> Holds(names, spec)
  BY DEF OpenFails, FileReadable, Holds
<1>3. Loadable' <=> Loadable
  BY <1>1, <1>2 DEF Loadable
<1>4. config' = config => (ConfigChecked' <=> ConfigChecked)
  BY DEF ConfigChecked
<1>5. ASSUME config' = config, tensors' = tensors
      PROVE  /\ \A n : ShardsRead(n)' <=> ShardsRead(n)
             /\ Blocks' = Blocks /\ (HeadKnown' <=> HeadKnown)
             /\ \A k : BlockUsable(k)' <=> BlockUsable(k)
  <2>1. Blocks' = Blocks /\ (HeadKnown' <=> HeadKnown)
    BY <1>5 DEF Blocks, HasHead, HeadKnown
  <2>2. \A n : ShardsRead(n)' <=> ShardsRead(n)
    <3>1. (\A i : Entries(i)' = Entries(i)) /\ (\A name : ViewsOf(name)' = ViewsOf(name))
      BY <1>1 DEF Entries, ViewsOf
    <3> QED
      BY <1>1, <1>2, <1>5, <3>1 DEF ShardsRead
  <2>3. \A k : BlockUsable(k)' <=> BlockUsable(k)
    BY <1>5, <2>1 DEF BlockUsable, PieceUsable
  <2> QED
    BY <2>1, <2>2, <2>3
<1> QED
  BY <1>1, <1>3, <1>4, <1>5

(* The constructor is left where it is.                                    *)
LEMMA OutcomeLeft ==
  ASSUME OutcomeInv, dir' = dir, options' = options, config' = config, tensors' = tensors,
         stage' = stage, at' = at, status' \in {"ready", "refused", "failed"},
         status' = "ready" => stage = "carve" /\ Loadable,
         status' = "refused" => ~Loadable
  PROVE  OutcomeInv'
<1>1. /\ Loadable' <=> Loadable
      /\ Shards' = Shards
      /\ ConfigChecked' <=> ConfigChecked
      /\ \A n : ShardsRead(n)' <=> ShardsRead(n)
      /\ Blocks' = Blocks
      /\ HeadKnown' <=> HeadKnown
      /\ \A k : BlockUsable(k)' <=> BlockUsable(k)
  BY ArgumentsKept
<1>2. LoadOutcome'
  BY <1>1 DEF LoadOutcome
<1>3. ShardsRead(at - 1)' <=> ShardsRead(at - 1)
  <2>1. \A n : n = at - 1 => (ShardsRead(n)' <=> ShardsRead(n))
    BY <1>1
  <2> QED
    BY <1>1 DEF ShardsRead, Entries, ViewsOf, OpenFails, FileReadable
<1> QED
  BY <1>1, <1>2, <1>3 DEF OutcomeInv, Opened, Planning

(* ... or goes on after the archive was opened.                            *)
LEMMA OutcomeGoesOn ==
  ASSUME OutcomeInv, dir' = dir, options' = options, config' = config, tensors' = tensors,
         status = "loading", status' = status, stage \in Opened, stage' \in Opened,
         at' \in Nat \ {0}, stage = "weights" \/ stage' # "weights",
         stage' = "weights" => \A k \in DOMAIN Blocks : k < at' => BlockUsable(k),
         stage = "weights" /\ stage' # "weights" =>
           HeadKnown /\ \A k \in DOMAIN Blocks : BlockUsable(k),
         stage' \in Planning => stage \in Planning \/ (options.paged => options.pageSize > 0)
  PROVE  OutcomeInv'
<1>1. /\ Loadable' <=> Loadable
      /\ Shards' = Shards
      /\ ConfigChecked' <=> ConfigChecked
      /\ \A n : ShardsRead(n)' <=> ShardsRead(n)
      /\ Blocks' = Blocks
      /\ HeadKnown' <=> HeadKnown
      /\ \A k : BlockUsable(k)' <=> BlockUsable(k)
  BY ArgumentsKept
<1>2. ShardsRead(Len(Shards))'
  <2>1. ShardsRead(Len(Shards))
    BY DEF OutcomeInv
  <2>2. \A n : n = Len(Shards) => ShardsRead(n)'
    BY <1>1, <2>1
  <2>3. \A n : n = Len(Shards') => ShardsRead(n)'
    BY <1>1, <2>2
  <2> QED
    BY <2>3 DEF ShardsRead
<1>3. stage' = "weights" => \A k \in DOMAIN Blocks' : k < at' => BlockUsable(k)'
  BY <1>1
<1>4. stage' \in Opened \ {"weights"} => HeadKnown' /\ \A k \in DOMAIN Blocks' : BlockUsable(k)'
  <2> SUFFICES ASSUME stage' # "weights"
               PROVE  HeadKnown /\ \A k \in DOMAIN Blocks : BlockUsable(k)
    BY <1>1
  <2>1. CASE stage = "weights"
    BY <2>1
  <2>2. CASE stage # "weights"
    BY <2>2 DEF OutcomeInv
  <2> QED
    BY <2>1, <2>2
<1>5. stage' \in Planning => (options'.paged => options'.pageSize > 0)
  BY DEF OutcomeInv
<1>6. stage \notin {"config", "options", "open"} /\ stage' \notin {"config", "options", "open"}
  BY DEF Opened, Planning
<1>7. ConfigChecked' /\ options'.maxSeq > 0 /\ options'.chunk > 0
  BY <1>1, <1>6 DEF OutcomeInv
<1>8. LoadOutcome' /\ status' # "ready"
  BY DEF LoadOutcome
<1> QED
  BY <1>2, <1>3, <1>4, <1>5, <1>6, <1>7, <1>8 DEF OutcomeInv

LEMMA OutcomeStep == ArenaInv /\ OutcomeInv /\ [Next]_vars => OutcomeInv'
<1> SUFFICES ASSUME ArenaInv, OutcomeInv, [Next]_vars
             PROVE  OutcomeInv'
  OBVIOUS
<1> USE DEF Loading
<1>0. PICK input \in Inputs : dir = input.dir /\ options = input.options
  BY DEF ArenaInv
<1>k. at \in Nat \ {0} /\ at + 1 \in Nat \ {0}
  BY DEF OutcomeInv
<1>1. CASE ReadConfig
  <2> DEFINE doc == dir.config
             c   == ConfigOf(doc, dir.generation)
  <2>1. dir' = dir /\ options' = options /\ tensors' = tensors /\ stage = "config"
        /\ status = "loading" /\ tensors = << >>
    BY <1>1 DEF ReadConfig, inputVars, OutcomeInv
  <2>2. Loadable => FieldsReadable(doc) /\ ~DividesByZero(doc) /\ Supported(doc) /\ Validate(c)
    BY DEF Loadable
  <2>3. CASE ~FieldsReadable(doc)
    <3>1. status' = "refused" /\ stage' = stage /\ at' = at /\ config' = config
      BY <1>1, <2>3 DEF ReadConfig, Leave
    <3> QED
      BY <2>1, <2>2, <2>3, <3>1, OutcomeLeft
  <2>4. CASE FieldsReadable(doc) /\ DividesByZero(doc)
    <3>1. status' = "crashed" /\ stage' = stage /\ at' = at /\ config' = config
      BY <1>1, <2>4 DEF ReadConfig, Leave
    <3>2. LoadOutcome'
      <4>1. ~Loadable'
        BY <2>1, <2>2, <2>4, ArgumentsKept
      <4>2. dir'.config.num_attention_heads = 0
        BY <2>1, <2>4 DEF DividesByZero
      <4> QED
        BY <3>1, <4>1, <4>2 DEF LoadOutcome
    <3> QED
      BY <2>1, <3>1, <3>2 DEF OutcomeInv, Opened, Planning
  <2>5. CASE FieldsReadable(doc) /\ ~DividesByZero(doc) /\ Supported(doc) /\ Validate(c)
    <3>1. config' = c /\ stage' = "options" /\ at' = 1 /\ status' = status
      BY <1>1, <2>5 DEF ReadConfig, Goto
    <3>2. ConfigChecked'
      BY <2>1, <2>5, <3>1 DEF ConfigChecked
    <3>3. LoadOutcome' /\ status' # "ready"
      BY <2>1, <3>1 DEF LoadOutcome
    <3> QED
      BY <2>1, <3>1, <3>2, <3>3 DEF OutcomeInv, Opened, Planning
  <2>6. CASE FieldsReadable(doc) /\ ~DividesByZero(doc) /\ ~(Supported(doc) /\ Validate(c))
    <3>1. status' = "refused" /\ stage' = stage /\ at' = at /\ config' = config
      BY <1>1, <2>6 DEF ReadConfig, Leave
    <3> QED
      BY <2>1, <2>2, <2>6, <3>1, OutcomeLeft
  <2> QED
    BY <2>3, <2>4, <2>5, <2>6
<1>2. CASE CheckOptions
  <2>1. dir' = dir /\ options' = options /\ config' = config /\ tensors' = tensors
        /\ stage = "options" /\ status = "loading" /\ tensors = << >> /\ ConfigChecked
    BY <1>2 DEF CheckOptions, inputVars, OutcomeInv
  <2>2. CASE options.maxSeq > 0 /\ options.chunk > 0
    <3>1. stage' = "open" /\ at' = 1 /\ status' = status
      BY <1>2, <2>2 DEF CheckOptions, Goto
    <3>2. ShardsRead(0)'
      BY <2>1 DEF ShardsRead
    <3>3. ConfigChecked' /\ LoadOutcome'
      BY <2>1, <3>1, ArgumentsKept DEF LoadOutcome
    <3>4. at' - 1 = 0 /\ 0 <= Len(Shards)
      BY <1>0, <3>1, ShardsAre
    <3>5. (at - 1 <= Len(Shards) /\ ShardsRead(at - 1))'
      BY <2>1, <3>2, <3>4, ArgumentsKept
    <3> QED
      BY <2>1, <2>2, <3>1, <3>3, <3>5 DEF OutcomeInv, Opened, Planning
  <2>3. CASE ~(options.maxSeq > 0 /\ options.chunk > 0)
    <3>1. status' = "refused" /\ stage' = stage /\ at' = at
      BY <1>2, <2>3 DEF CheckOptions, Leave
    <3>2. ~Loadable
      BY <2>3 DEF Loadable
    <3> QED
      BY <2>1, <3>1, <3>2, OutcomeLeft
  <2> QED
    BY <2>2, <2>3
<1>3. CASE OpenFile
  <2> DEFINE name == Shards[at]
  <2>1. dir' = dir /\ options' = options /\ config' = config /\ at \in DOMAIN Shards
        /\ stage = "open" /\ status = "loading" /\ ConfigChecked /\ ShardsRead(at - 1)
        /\ options.maxSeq > 0 /\ options.chunk > 0
    BY <1>3 DEF OpenFile, inputVars, OutcomeInv
  <2>2. CASE ~OpenFails(name) /\ FileReadable(name) /\ ~Overlap(ViewsOf(name))
    <3>1. tensors' = With(tensors, ViewsOf(name)) /\ stage' = stage /\ status' = status
          /\ at' = at + 1
      BY <1>3, <2>2 DEF OpenFile, Again
    <3>2. ShardsRead(at - 1)'
      <4>1. at' - 1 = at
        BY <1>k, <3>1
      <4>2. \A n : n = at => ShardsRead(n)'
        BY <1>0, <2>1, <2>2, <3>1, ShardAdded
      <4>3. \A n : n = at' - 1 => ShardsRead(n)'
        BY <4>1, <4>2
      <4> QED
        BY <4>3 DEF ShardsRead
    <3>3. (at - 1 <= Len(Shards))'
      <4>1. at <= Len(Shards) /\ at' - 1 = at /\ Shards' = Shards
        BY <1>0, <1>k, <2>1, <3>1, ShardsAre, ArgumentsKept
      <4> QED
        BY <4>1
    <3>4. ConfigChecked' /\ LoadOutcome'
      BY <2>1, <3>1, ArgumentsKept DEF LoadOutcome
    <3> QED
      BY <1>k, <2>1, <3>1, <3>2, <3>3, <3>4 DEF OutcomeInv, Opened, Planning
  <2>3. CASE OpenFails(name) \/ ~FileReadable(name) \/ Overlap(ViewsOf(name))
    <3>1. status' = "refused" /\ stage' = stage /\ at' = at /\ tensors' = tensors
      BY <1>3, <2>3 DEF OpenFile, Leave
    <3>2. ~Loadable
      BY <1>0, <2>1, <2>3, ShardRefused
    <3> QED
      BY <2>1, <3>1, <3>2, OutcomeLeft
  <2> QED
    BY <2>2, <2>3
<1>4. CASE ArchiveOpen
  <2>1. dir' = dir /\ options' = options /\ config' = config /\ tensors' = tensors
        /\ at \notin DOMAIN Shards
        /\ stage = "open" /\ status = "loading" /\ ConfigChecked /\ ShardsRead(at - 1)
        /\ options.maxSeq > 0 /\ options.chunk > 0 /\ at - 1 <= Len(Shards)
    BY <1>4 DEF ArchiveOpen, inputVars, OutcomeInv
  <2>2. ShardsRead(Len(Shards))
    <3>1. at - 1 = Len(Shards)
      BY <1>0, <1>k, <2>1, ShardsAre
    <3> QED
      BY <2>1, <3>1
  <2>3. CASE DOMAIN tensors # {}
    <3>1. stage' = "weights" /\ at' = 1 /\ status' = status
      BY <1>4, <2>3 DEF ArchiveOpen, Goto
    <3>2. ConfigChecked' /\ LoadOutcome'
      BY <2>1, <3>1, ArgumentsKept DEF LoadOutcome
    <3>3. ShardsRead(Len(Shards))'
      <4>1. \A n : n = Len(Shards) => ShardsRead(n)'
        BY <2>1, <2>2, ArgumentsKept
      <4>2. \A n : n = Len(Shards') => ShardsRead(n)'
        BY <2>1, <4>1, ArgumentsKept
      <4> QED
        BY <4>2 DEF ShardsRead
    <3>4. \A k \in DOMAIN Blocks' : ~(k < at')
      <4>1. SaneConfig
        BY <2>1 DEF ArenaInv
      <4>2. Len(LastBlocks) \in Nat /\ 6 * config.layers \in Nat
        BY <4>1 DEF LastBlocks, SaneConfig, Positive
      <4>3. DOMAIN Blocks \subseteq Nat \ {0}
        BY <4>1, <4>2, BlocksListed
      <4>4. Blocks' = Blocks
        BY <2>1, ArgumentsKept
      <4> QED
        BY <3>1, <4>3, <4>4
    <3> QED
      BY <2>1, <3>1, <3>2, <3>3, <3>4 DEF OutcomeInv, Opened, Planning
  <2>4. CASE DOMAIN tensors = {}
    <3>1. status' = "refused" /\ stage' = stage /\ at' = at
      BY <1>4, <2>4 DEF ArchiveOpen, Leave
    <3>2. ~Loadable
      BY <1>0, <2>1, <2>2, <2>4, NothingRead DEF ArenaInv
    <3> QED
      BY <2>1, <3>1, <3>2, OutcomeLeft
  <2> QED
    BY <2>3, <2>4
<1>5. CASE PlanBlock
  <2>1. dir' = dir /\ options' = options /\ config' = config /\ tensors' = tensors
        /\ at \in DOMAIN Blocks /\ stage = "weights" /\ status = "loading" /\ ConfigChecked
        /\ ShardsRead(Len(Shards)) /\ \A k \in DOMAIN Blocks : k < at => BlockUsable(k)
    BY <1>5 DEF PlanBlock, inputVars, OutcomeInv, Opened
  <2>2. CASE BlockUsable(at)
    <3>1. stage' = stage /\ at' = at + 1 /\ status' = status
      BY <1>5, <2>2 DEF PlanBlock, Again, BlockUsable
    <3>2. \A k \in DOMAIN Blocks : k < at' => BlockUsable(k)
      <4>1. DOMAIN Blocks \subseteq Int
        BY <2>1, BlocksListed DEF ArenaInv
      <4>2. \A k \in DOMAIN Blocks : k < at' => k < at \/ k = at
        BY <1>k, <3>1, <4>1
      <4> QED
        BY <2>1, <2>2, <4>2
    <3> QED
      BY <1>k, <2>1, <3>1, <3>2, OutcomeGoesOn DEF Opened, Planning
  <2>3. CASE ~BlockUsable(at)
    <3>1. status' = "refused" /\ stage' = stage /\ at' = at
      BY <1>5, <2>3 DEF PlanBlock, Leave, BlockUsable
    <3>2. ~Loadable
      BY <1>0, <2>1, <2>3, UnusablePiece DEF ArenaInv
    <3> QED
      BY <2>1, <3>1, <3>2, OutcomeLeft
  <2> QED
    BY <2>2, <2>3
<1>6. CASE AllocateWeights
  <2>1. dir' = dir /\ options' = options /\ config' = config /\ tensors' = tensors
        /\ at \notin DOMAIN Blocks /\ stage = "weights" /\ status = "loading" /\ ConfigChecked
        /\ ShardsRead(Len(Shards)) /\ \A k \in DOMAIN Blocks : k < at => BlockUsable(k)
    BY <1>6 DEF AllocateWeights, inputVars, OutcomeInv, Opened
  <2>2. CASE HeadKnown
    <3>1. stage' = "upload" /\ at' = 1 /\ status' = status
      BY <1>6, <2>2 DEF AllocateWeights, Goto
    <3>2. \A k \in DOMAIN Blocks : k < at
      <4> DEFINE len == 6 * config.layers + 2 + Len(LastBlocks)
      <4>1. SaneConfig
        BY <2>1 DEF ArenaInv
      <4>2. Len(LastBlocks) \in Nat /\ 6 * config.layers \in Nat
        BY <4>1 DEF LastBlocks, SaneConfig, Positive
      <4>3. DOMAIN Blocks = 1 .. len /\ len \in Nat
        BY <4>1, <4>2, BlocksListed
      <4> HIDE DEF len
      <4> QED
        BY <1>k, <2>1, <4>3
    <3> QED
      BY <2>1, <2>2, <3>1, <3>2, OutcomeGoesOn DEF Opened, Planning
  <2>3. CASE ~HeadKnown
    <3>1. status' = "refused" /\ stage' = stage /\ at' = at
      BY <1>6, <2>3 DEF AllocateWeights, Leave
    <3>2. ~Loadable
      BY <1>0, <2>1, <2>3, UnknownHead
    <3> QED
      BY <2>1, <3>1, <3>2, OutcomeLeft
  <2> QED
    BY <2>2, <2>3
<1>7. CASE UploadBlock
  <2>1. dir' = dir /\ options' = options /\ config' = config /\ tensors' = tensors
        /\ stage = "upload" /\ stage' = stage /\ at' = at + 1 /\ status' = status
        /\ status = "loading"
    BY <1>7 DEF UploadBlock, inputVars, Again
  <2> QED
    BY <1>k, <2>1, OutcomeGoesOn DEF Opened, Planning
<1>8. CASE TieHead
  <2>1. dir' = dir /\ options' = options /\ config' = config /\ tensors' = tensors
        /\ stage = "upload" /\ stage' = "cache" /\ at' = 1 /\ status' = status
        /\ status = "loading"
    BY <1>8 DEF TieHead, inputVars, Goto
  <2> QED
    BY <1>k, <2>1, OutcomeGoesOn DEF Opened, Planning
<1>9. CASE BuildCache
  <2>1. dir' = dir /\ options' = options /\ config' = config /\ tensors' = tensors
        /\ stage = "cache" /\ status = "loading"
    BY <1>9 DEF BuildCache, inputVars
  <2>2. CASE options.paged => options.pageSize > 0
    <3>1. stage' = "plan" /\ at' = 1 /\ status' = status
      BY <1>9, <2>2 DEF BuildCache, Goto
    <3> QED
      BY <2>1, <2>2, <3>1, OutcomeGoesOn DEF Opened, Planning
  <2>3. CASE ~(options.paged => options.pageSize > 0)
    <3>1. status' = "refused" /\ stage' = stage /\ at' = at
      BY <1>9, <2>3 DEF BuildCache, Leave
    <3>2. ~Loadable
      BY <2>3 DEF Loadable
    <3> QED
      BY <2>1, <3>1, <3>2, OutcomeLeft
  <2> QED
    BY <2>2, <2>3
<1>10. CASE PlanBuffer
  <2>1. dir' = dir /\ options' = options /\ config' = config /\ tensors' = tensors
        /\ stage = "plan" /\ stage' = stage /\ at' = at + 1 /\ status' = status
        /\ status = "loading"
    BY <1>10 DEF PlanBuffer, inputVars, Again
  <2> QED
    BY <1>k, <2>1, OutcomeGoesOn DEF Opened, Planning
<1>11. CASE ReserveArena
  <2>1. dir' = dir /\ options' = options /\ config' = config /\ tensors' = tensors
        /\ stage = "plan" /\ stage' = "carve" /\ at' = 1 /\ status' = status
        /\ status = "loading"
    BY <1>11 DEF ReserveArena, inputVars, Goto
  <2> QED
    BY <1>k, <2>1, OutcomeGoesOn DEF Opened, Planning
<1>12. CASE CarveBuffer
  <2>1. HasRoom(Carvings[at].bytes)
    BY <1>12, CarvingHasRoom DEF CarveBuffer
  <2>2. dir' = dir /\ options' = options /\ config' = config /\ tensors' = tensors
        /\ stage = "carve" /\ stage' = stage /\ at' = at + 1 /\ status' = status
        /\ status = "loading"
    BY <1>12, <2>1 DEF CarveBuffer, inputVars, Again
  <2> QED
    BY <1>k, <2>2, OutcomeGoesOn DEF Opened, Planning
<1>13. CASE SkipGathered
  <2>1. dir' = dir /\ options' = options /\ config' = config /\ tensors' = tensors
        /\ stage = "carve" /\ stage' = stage /\ at' = at + 1 /\ status' = status
        /\ status = "loading"
    BY <1>13 DEF SkipGathered, inputVars, Again
  <2> QED
    BY <1>k, <2>1, OutcomeGoesOn DEF Opened, Planning
<1>14. CASE Return
  <2>1. dir' = dir /\ options' = options /\ config' = config /\ tensors' = tensors
        /\ stage = "carve" /\ stage' = stage /\ at' = at /\ status' = "ready"
    BY <1>14 DEF Return, inputVars, Leave
  <2>2. /\ ShardsRead(Len(Shards)) /\ SaneConfig /\ ConfigChecked /\ HeadKnown
        /\ options.maxSeq > 0 /\ options.chunk > 0
        /\ options.paged => options.pageSize > 0
        /\ \A k \in DOMAIN Blocks : BlockUsable(k)
    BY <2>1 DEF OutcomeInv, ArenaInv, Opened, Planning
  <2>3. Loadable
    BY <1>0, <2>2, AllPassed
  <2> QED
    BY <2>1, <2>3, OutcomeLeft
<1>15. CASE SystemFails
  <2>1. dir' = dir /\ options' = options /\ config' = config /\ tensors' = tensors
        /\ stage' = stage /\ at' = at /\ status' = "failed"
    BY <1>15 DEF SystemFails, inputVars, Leave
  <2> QED
    BY <2>1, OutcomeLeft
<1>16. CASE Stopped \/ UNCHANGED vars
  <2>1. dir' = dir /\ options' = options /\ config' = config /\ tensors' = tensors
        /\ stage' = stage /\ at' = at /\ status' = status
    BY <1>16 DEF Stopped, vars, inputVars
  <2>2. LoadOutcome'
    BY <2>1, ArgumentsKept DEF LoadOutcome, OutcomeInv
  <2>3. status \in {"ready", "refused", "failed"} => OutcomeInv'
    BY <2>1, OutcomeLeft DEF OutcomeInv, LoadOutcome
  <2>4. Shards' = Shards
    BY <2>1, ArgumentsKept
  <2>5. (ShardsRead(at - 1) <=> ShardsRead(at - 1)')
    BY <2>1, <2>4 DEF ShardsRead, Entries, ViewsOf, OpenFails, FileReadable
  <2>6. (ShardsRead(Len(Shards)) <=> ShardsRead(Len(Shards))')
    BY <2>1, <2>4 DEF ShardsRead, Entries, ViewsOf, OpenFails, FileReadable
  <2> QED
    BY <2>1, <2>2, <2>5, <2>6, ArgumentsKept DEF OutcomeInv, Opened, Planning
<1> QED
  BY <1>1, <1>2, <1>3, <1>4, <1>5, <1>6, <1>7, <1>8, <1>9, <1>10, <1>11, <1>12, <1>13,
     <1>14, <1>15, <1>16 DEF Next

(* Model::Model: for every checkpoint directory and every set of options,  *)
(* unless the system fails it, the constructor returns exactly when a      *)
(* model can be made of them, and crashes only on zero attention heads.    *)
THEOREM LoadsWhatIsLoadable == Spec => []LoadOutcome
<1>1. OutcomeInv => LoadOutcome
  BY DEF OutcomeInv
<1> QED
  BY <1>1, ArenaInit, ArenaStep, OutcomeInit, OutcomeStep, PTL DEF Spec

-----------------------------------------------------------------------------
(* Numel multiplies the extents; the tensors of a model have one or two.   *)
NumelStep(shape, g) ==
  [i \in 0 .. Len(shape) |-> IF i = 0 THEN 1 ELSE g[i - 1] * shape[i]]

LEMMA NumelOfVector ==
  ASSUME NEW a \in Nat
  PROVE  Numel(<<a>>) = a
<1> DEFINE shape == <<a>>
           u == CHOOSE g : g = NumelStep(shape, g)
           h == [i \in 0 .. 1 |-> IF i = 0 THEN 1 ELSE a]
<1>1. h = NumelStep(shape, h)
  <2>1. Len(shape) = 1 /\ shape[1] = a
    OBVIOUS
  <2> HIDE DEF shape
  <2> QED
    BY <2>1 DEF NumelStep
<1>2. u = NumelStep(shape, u)
  <2> HIDE DEF h
  <2> QED
    BY <1>1
<1>3. Numel(shape) = u[1]
  BY DEF Numel, NumelStep
<1> HIDE DEF u
<1>4. u[0] = 1 /\ u[1] = u[0] * a
  BY <1>2 DEF NumelStep
<1> QED
  BY <1>3, <1>4

LEMMA NumelOfMatrix ==
  ASSUME NEW a \in Nat, NEW b \in Nat
  PROVE  Numel(<<a, b>>) = a * b
<1> DEFINE shape == <<a, b>>
           u == CHOOSE g : g = NumelStep(shape, g)
           h == [i \in 0 .. 2 |-> IF i = 0 THEN 1 ELSE IF i = 1 THEN a ELSE a * b]
<1>1. h = NumelStep(shape, h)
  <2>1. Len(shape) = 2 /\ shape[1] = a /\ shape[2] = b
    OBVIOUS
  <2> HIDE DEF shape
  <2>2. h[0] = 1 /\ h[1] = a /\ h[2] = a * b
    OBVIOUS
  <2> HIDE DEF h
  <2>3. \A i \in 0 .. 2 : h[i] = IF i = 0 THEN 1 ELSE h[i - 1] * shape[i]
    <3> TAKE i \in 0 .. 2
    <3>1. i = 0 \/ i = 1 \/ i = 2
      OBVIOUS
    <3>2. 2 - 1 = 1 /\ 1 - 1 = 0 /\ 1 * a = a
      OBVIOUS
    <3> QED
      BY <2>1, <2>2, <3>1, <3>2
  <2>4. h = [i \in 0 .. 2 |-> h[i]]
    BY DEF h
  <2> QED
    BY <2>1, <2>3, <2>4 DEF NumelStep
<1>2. u = NumelStep(shape, u)
  <2> HIDE DEF h
  <2> QED
    BY <1>1
<1>3. Numel(shape) = u[2]
  BY DEF Numel, NumelStep
<1> HIDE DEF u
<1>4. u[0] = 1 /\ u[1] = u[0] * a /\ u[2] = u[1] * b
  BY <1>2 DEF NumelStep
<1> QED
  BY <1>3, <1>4

-----------------------------------------------------------------------------
(* Growing functions on an interval.                                       *)
LEMMA GrowingRun ==
  ASSUME NEW n \in Nat, NEW f \in [0 .. n -> Nat], \A i \in 1 .. n : f[i - 1] <= f[i],
         NEW j \in 0 .. n, NEW k \in 0 .. n, j <= k
  PROVE  f[j] <= f[k]
<1> DEFINE D == {d \in Nat : j + d <= n => f[j] <= f[j + d]}
<1>1. 0 \in D
  OBVIOUS
<1>2. ASSUME NEW d \in D PROVE d + 1 \in D
  <2>1. ASSUME j + (d + 1) <= n PROVE f[j] <= f[j + (d + 1)]
    <3> DEFINE i == j + (d + 1)
    <3>1. i \in 1 .. n /\ i - 1 = j + d /\ j + d \in 0 .. n /\ i \in 0 .. n
      BY <2>1
    <3>2. f[i - 1] <= f[i] /\ f[j] <= f[j + d]
      BY <3>1
    <3>3. f[j] \in Nat /\ f[j + d] \in Nat /\ f[i] \in Nat
      BY <3>1
    <3> HIDE DEF i
    <3>4. f[j] <= f[i]
      BY <3>1, <3>2, <3>3
    <3> QED
      BY <3>4 DEF i
  <2> QED
    BY <2>1
<1>3. D = Nat
  <2> HIDE DEF D
  <2>1. D \in SUBSET Nat
    BY DEF D
  <2> QED
    BY <1>1, <1>2, <2>1, Induct
<1> DEFINE d == k - j
<1>4. d \in Nat /\ j + d = k /\ k <= n
  OBVIOUS
<1> HIDE DEF d, D
<1>5. d \in D
  BY <1>3, <1>4
<1>6. j + d <= n => f[j] <= f[j + d]
  BY <1>5 DEF D
<1> QED
  BY <1>4, <1>6

(* The offsets of the pieces of a block are the sums of the sizes before.  *)
PieceBytes(block, j) == tensors[block.pieces[j].name].nbytes

SumStep(block, g) ==
  [j \in 0 .. Len(block.pieces) |-> IF j = 0 THEN 0 ELSE g[j - 1] + PieceBytes(block, j)]

LEMMA BytesSummed ==
  ASSUME NEW block, Len(block.pieces) \in Nat,
         \A j \in 1 .. Len(block.pieces) : PieceBytes(block, j) \in Nat
  PROVE  /\ BytesBefore(block, 1) = 0
         /\ \A j \in 1 .. Len(block.pieces) :
              BytesBefore(block, j + 1) = BytesBefore(block, j) + PieceBytes(block, j)
         /\ \A j \in 1 .. Len(block.pieces) + 1 : BytesBefore(block, j) \in Nat
<1> DEFINE n == Len(block.pieces)
           u == CHOOSE g : g = SumStep(block, g)
           F == [x \in Nat \X Nat |->
                   IF x[1] + 1 \in 1 .. n THEN x[2] + PieceBytes(block, x[1] + 1) ELSE 0]
<1>1. F \in [Nat \X Nat -> Nat]
  <2>1. ASSUME NEW x \in Nat \X Nat
        PROVE  (IF x[1] + 1 \in 1 .. n THEN x[2] + PieceBytes(block, x[1] + 1) ELSE 0) \in Nat
    <3>1. x[1] \in Nat /\ x[2] \in Nat
      OBVIOUS
    <3>2. CASE x[1] + 1 \in 1 .. n
      <4>1. PieceBytes(block, x[1] + 1) \in Nat
        BY <3>2
      <4> QED
        BY <3>1, <3>2, <4>1
    <3> QED
      BY <3>2
  <2> QED
    BY <2>1
<1>2. \A i \in 0 .. n - 1, v \in Nat : F[<<i, v>>] = v + PieceBytes(block, i + 1)
  <2> TAKE i \in 0 .. n - 1, v \in Nat
  <2>1. i \in Nat /\ i + 1 \in 1 .. n /\ <<i, v>> \in Nat \X Nat
    OBVIOUS
  <2> QED
    BY <2>1
<1> HIDE DEF F
<1>3. Runs(0, F, Nat, n) # {}
  BY <1>1, RunExists
<1>4. PICK h \in [0 .. n -> Nat] : h[0] = 0 /\ \A i \in 0 .. n - 1 : h[i + 1] = F[<<i, h[i]>>]
  BY <1>3 DEF Runs
<1>5. h = SumStep(block, h)
  <2>1. \A j \in 0 .. n : h[j] = IF j = 0 THEN 0 ELSE h[j - 1] + PieceBytes(block, j)
    <3> TAKE j \in 0 .. n
    <3>1. CASE j # 0
      <4> DEFINE i == j - 1
      <4>1. i \in 0 .. n - 1 /\ i + 1 = j /\ h[i] \in Nat
        BY <3>1
      <4> HIDE DEF i
      <4>2. h[j] = h[i] + PieceBytes(block, j)
        BY <1>2, <1>4, <4>1
      <4> QED
        BY <3>1, <4>2 DEF i
    <3> QED
      BY <1>4, <3>1
  <2>2. h = [j \in 0 .. n |-> h[j]]
    OBVIOUS
  <2> QED
    BY <2>1, <2>2 DEF SumStep
<1>6. u = SumStep(block, u)
  BY <1>5
<1>7. \A j : BytesBefore(block, j) = u[j - 1]
  BY DEF BytesBefore, SumStep, PieceBytes
<1> HIDE DEF u
<1>8. u[0] = 0 /\ \A j \in 1 .. n : u[j] = u[j - 1] + PieceBytes(block, j)
  <2>1. u = [j \in 0 .. n |-> IF j = 0 THEN 0 ELSE u[j - 1] + PieceBytes(block, j)]
    BY <1>6 DEF SumStep
  <2> HIDE DEF n
  <2>2. n \in Nat
    BY DEF n
  <2>3. \A j \in 0 .. n : u[j] = IF j = 0 THEN 0 ELSE u[j - 1] + PieceBytes(block, j)
    BY <2>1
  <2> QED
    BY <2>2, <2>3
<1>9. \A j \in 0 .. n : u[j] \in Nat
  <2> DEFINE D == {j \in Nat : j <= n => u[j] \in Nat}
  <2>1. 0 \in D
    BY <1>8
  <2>2. ASSUME NEW j \in D PROVE j + 1 \in D
    <3>1. ASSUME j + 1 <= n PROVE u[j + 1] \in Nat
      <4>1. j + 1 \in 1 .. n /\ (j + 1) - 1 = j /\ u[j] \in Nat
        BY <3>1
      <4>2. PieceBytes(block, j + 1) \in Nat
        BY <4>1
      <4> QED
        BY <1>8, <4>1, <4>2
    <3> QED
      BY <3>1
  <2>3. D = Nat
    <3> HIDE DEF D
    <3>1. D \in SUBSET Nat
      BY DEF D
    <3> QED
      BY <2>1, <2>2, <3>1, Induct
  <2> QED
    BY <2>3
<1>10. \A j \in 1 .. n : (j + 1) - 1 = j
  OBVIOUS
<1>11. \A j \in 1 .. n + 1 : j - 1 \in 0 .. n
  OBVIOUS
<1>12. 1 - 1 = 0
  OBVIOUS
<1> QED
  BY <1>7, <1>8, <1>9, <1>10, <1>11, <1>12

(* What the archive says of a tensor agrees with its shape.                *)
LEMMA ViewExact ==
  ASSUME NEW input \in Inputs, dir = input.dir, ShardsRead(Len(Shards)),
         NEW spec, PieceUsable(spec)
  PROVE  /\ tensors[spec.name].begin \in Int
         /\ tensors[spec.name].nbytes = Numel(spec.shape) * ElemBytes
<1> DEFINE t == spec.name
<1>1. t \in DOMAIN tensors /\ tensors[t].dtype = ElemDtype /\ tensors[t].shape = spec.shape
  BY DEF PieceUsable
<1>2. PICK i \in 1 .. Len(Shards) : t \in Entries(i)
  BY <1>1 DEF ShardsRead
<1> DEFINE n == Shards[i]
           e == dir.files[n].entries[t]
<1>3. n \in DOMAIN dir.files /\ FileReadable(n) /\ t \in DOMAIN dir.files[n].entries
  BY <1>2 DEF ShardsRead, OpenFails, Entries
<1>4. tensors[t] = ViewsOf(n)[t]
  BY <1>2 DEF ShardsRead
<1>5. tensors[t] = [file |-> n, begin |-> e.begin, dtype |-> e.dtype, shape |-> e.shape,
                    nbytes |-> e.end - e.begin]
  <2> HIDE DEF t, n
  <2> QED
    BY <1>3, <1>4 DEF ViewsOf
<1>6. EntryDescribed(dir.files[n], e)
  BY <1>3 DEF FileReadable
<1>7. e # Text /\ e.end - e.begin = Numel(e.shape) * DtypeBytes[e.dtype]
  BY <1>6 DEF EntryDescribed
<1>8. e.begin \in Int
  BY <1>3, <1>7, InputsAssumption
<1> HIDE DEF e, n, t
<1>9. tensors[t].begin = e.begin /\ tensors[t].nbytes = e.end - e.begin
      /\ e.dtype = ElemDtype /\ e.shape = spec.shape
  BY <1>1, <1>5
<1>10. DtypeBytes[ElemDtype] = ElemBytes
  BY LoadAssumption
<1> QED
  BY <1>7, <1>8, <1>9, <1>10 DEF t

(* The required tensors have positive sizes.                               *)
LEMMA SpecSizes ==
  ASSUME SaneConfig, NEW spec,
         (\E i \in DOMAIN RequiredWeights(config) : spec = RequiredWeights(config)[i])
           \/ spec = HeadOf(config)
  PROVE  Numel(spec.shape) \in Nat
<1> DEFINE c == config
<1>1. /\ c.hidden \in Nat /\ c.ffn \in Nat /\ c.vocab \in Nat
      /\ QDim(c) \in Nat /\ KvDim(c) \in Nat
  BY ProductInNat DEF SaneConfig, Positive, QDim, KvDim
<1>2. \A a \in Nat : Numel(<<a>>) \in Nat
  BY NumelOfVector
<1>3. \A a, b \in Nat : Numel(<<a, b>>) \in Nat
  BY NumelOfMatrix, ProductInNat
<1>4. CASE spec = HeadOf(config)
  BY <1>1, <1>3, <1>4 DEF HeadOf, WeightSpec
<1>5. ASSUME NEW i \in DOMAIN RequiredWeights(config), spec = RequiredWeights(config)[i]
      PROVE  Numel(spec.shape) \in Nat
  <2>1. CASE i = 1
    <3>1. spec = WeightSpec(0, "embed_tokens", <<c.vocab, c.hidden>>)
      BY <1>5, <2>1, SpecsListed DEF Embedding
    <3> QED
      BY <1>1, <1>3, <3>1 DEF WeightSpec
  <2>2. CASE i = 9 * config.layers + 2
    <3>1. spec = WeightSpec(0, "norm", <<c.hidden>>)
      BY <1>5, <2>2, SpecsListed DEF FinalNorm
    <3> QED
      BY <1>1, <1>2, <3>1 DEF WeightSpec
  <2>3. ASSUME NEW layer \in 1 .. config.layers, NEW r \in 1 .. 9, i = 9 * (layer - 1) + r + 1
        PROVE  Numel(spec.shape) \in Nat
    <3>1. spec = LayerWeights(c, layer)[r]
      BY <1>5, <2>3, SpecsListed
    <3>2. r = 1 \/ r = 2 \/ r = 3 \/ r = 4 \/ r = 5 \/ r = 6 \/ r = 7 \/ r = 8 \/ r = 9
      OBVIOUS
    <3>3. spec.shape \in {<<c.hidden>>, <<QDim(c), c.hidden>>, <<KvDim(c), c.hidden>>,
                          <<c.hidden, QDim(c)>>, <<c.ffn, c.hidden>>, <<c.hidden, c.ffn>>}
      BY <3>1, <3>2 DEF LayerWeights, WeightSpec
    <3> HIDE DEF c
    <3> QED
      BY <1>1, <1>2, <1>3, <3>3
  <2> QED
    BY <2>1, <2>2, <2>3, SpecCases
<1> QED
  BY <1>4, <1>5

LEMMA BlockIsList ==
  ASSUME SaneConfig, NEW k \in DOMAIN Blocks
  PROVE  /\ Len(Blocks[k].pieces) \in Nat
         /\ DOMAIN Blocks[k].pieces = 1 .. Len(Blocks[k].pieces)
<1>1. CASE k = 1
  <2>1. Blocks[k] = Block(0, "embedding", Embedding(config))
    BY <1>1, BlocksListed
  <2> QED
    BY <2>1 DEF Block, Embedding
<1>2. CASE k = 6 * config.layers + 2
  <2>1. Blocks[k] = Block(0, "final_norm", FinalNorm(config))
    BY <1>2, BlocksListed
  <2> QED
    BY <2>1 DEF Block, FinalNorm
<1>3. CASE HasHead /\ k = 6 * config.layers + 3
  <2>1. Blocks[k] = Block(0, "lm_head", <<HeadOf(config)>>)
    BY <1>3, BlocksListed
  <2> QED
    BY <2>1 DEF Block
<1>4. ASSUME NEW layer \in 1 .. config.layers, NEW b \in 1 .. 6, k = 6 * (layer - 1) + b + 1
      PROVE  /\ Len(Blocks[k].pieces) \in Nat
             /\ DOMAIN Blocks[k].pieces = 1 .. Len(Blocks[k].pieces)
  <2>1. Blocks[k] = LayerBlocks(config, layer)[b]
    BY <1>4, BlocksListed
  <2>2. b = 1 \/ b = 2 \/ b = 3 \/ b = 4 \/ b = 5 \/ b = 6
    OBVIOUS
  <2> QED
    BY <2>1, <2>2 DEF LayerBlocks, Block
<1> QED
  BY <1>1, <1>2, <1>3, <1>4, BlockCases

(* The pieces of a block that passed its checks lie one behind another.    *)
LEMMA PiecesInOrder ==
  ASSUME NEW input \in Inputs, dir = input.dir, ShardsRead(Len(Shards)), SaneConfig,
         NEW k \in DOMAIN Blocks, BlockUsable(k)
  PROVE  /\ BlockBytes(Blocks[k]) \in Nat
         /\ PieceOffset(Blocks[k], 1) = 0
         /\ \A p \in DOMAIN Blocks[k].pieces :
              /\ p \in Nat \ {0}
              /\ PieceOffset(Blocks[k], p) \in Nat /\ PieceBytes(Blocks[k], p) \in Nat
              /\ PieceBytes(Blocks[k], p) = Numel(Blocks[k].pieces[p].shape) * ElemBytes
              /\ tensors[Blocks[k].pieces[p].name].begin \in Int
              /\ PieceOffset(Blocks[k], p) + PieceBytes(Blocks[k], p) <= BlockBytes(Blocks[k])
              /\ p + 1 \in DOMAIN Blocks[k].pieces =>
                   PieceOffset(Blocks[k], p + 1)
                     = PieceOffset(Blocks[k], p) + PieceBytes(Blocks[k], p)
         /\ \A p, q \in DOMAIN Blocks[k].pieces : p < q =>
              PieceOffset(Blocks[k], p) + PieceBytes(Blocks[k], p) <= PieceOffset(Blocks[k], q)
<1> DEFINE block == Blocks[k]
           n == Len(block.pieces)
<1>1. n \in Nat /\ DOMAIN block.pieces = 1 .. n
  BY BlockIsList
<1>2. \A p \in 1 .. n : /\ PieceBytes(block, p) = Numel(block.pieces[p].shape) * ElemBytes
                        /\ tensors[block.pieces[p].name].begin \in Int
                        /\ PieceBytes(block, p) \in Nat
  <2> TAKE p \in 1 .. n
  <2>1. PieceUsable(block.pieces[p])
    BY <1>1 DEF BlockUsable
  <2>2. Numel(block.pieces[p].shape) \in Nat
    BY <1>1, OnlyRequired, SpecSizes
  <2>3. ElemBytes \in Nat
    BY LoadAssumption
  <2>4. tensors[block.pieces[p].name].nbytes = Numel(block.pieces[p].shape) * ElemBytes
        /\ tensors[block.pieces[p].name].begin \in Int
    BY <2>1, ViewExact
  <2> QED
    BY <2>2, <2>3, <2>4, ProductInNat DEF PieceBytes
<1> HIDE DEF block
<1>3. /\ BytesBefore(block, 1) = 0
      /\ \A j \in 1 .. n : BytesBefore(block, j + 1) = BytesBefore(block, j) + PieceBytes(block, j)
      /\ \A j \in 1 .. n + 1 : BytesBefore(block, j) \in Nat
  BY <1>1, <1>2, BytesSummed
<1>4. /\ \A j : PieceOffset(block, j) = BytesBefore(block, j)
      /\ BlockBytes(block) = BytesBefore(block, n + 1)
  BY DEF PieceOffset, BlockBytes
<1> HIDE DEF n
<1> DEFINE f == [i \in 0 .. n |-> BytesBefore(block, i + 1)]
<1>5. f \in [0 .. n -> Nat]
  BY <1>1, <1>3
<1>6. \A i \in 1 .. n : f[i - 1] <= f[i]
  <2> TAKE i \in 1 .. n
  <2>1. f[i] = BytesBefore(block, i + 1) /\ f[i - 1] = BytesBefore(block, i)
        /\ BytesBefore(block, i) \in Nat /\ PieceBytes(block, i) \in Nat
    BY <1>1, <1>2, <1>3
  <2> QED
    BY <1>3, <2>1
<1>7. \A i, j \in 0 .. n : i <= j => f[i] <= f[j]
  <2> HIDE DEF f
  <2> QED
    BY <1>1, <1>5, <1>6, GrowingRun
<1>8. \A p \in 1 .. n : BytesBefore(block, p + 1) <= BytesBefore(block, n + 1)
  <2> TAKE p \in 1 .. n
  <2>1. p \in 0 .. n /\ n \in 0 .. n /\ p <= n
    BY <1>1
  <2> QED
    BY <1>7, <2>1
<1>9. \A p, q \in 1 .. n : p < q => BytesBefore(block, p + 1) <= BytesBefore(block, q)
  <2> TAKE p, q \in 1 .. n
  <2> HAVE p < q
  <2> DEFINE j == q - 1
  <2>1. p \in 0 .. n /\ j \in 0 .. n /\ p <= j /\ j + 1 = q
    BY <1>1
  <2> HIDE DEF j
  <2>2. f[p] <= f[j] /\ f[j] = BytesBefore(block, j + 1)
    BY <1>7, <2>1
  <2> QED
    BY <2>1, <2>2
<1>10. \A p \in 1 .. n : p + 1 \in 1 .. n + 1
  BY <1>1
<1> QED
  BY <1>1, <1>2, <1>3, <1>4, <1>8, <1>9 DEF block

-----------------------------------------------------------------------------
(* Where the blocks end in the one allocation, and where they start.       *)
NumBlocks == 6 * config.layers + 2 + (IF HasHead THEN 1 ELSE 0)

BytesOrZero(k) == IF BlockBytes(Blocks[k]) \in Nat THEN BlockBytes(Blocks[k]) ELSE 0

EndStep == [x \in Nat \X Nat |-> AlignUp(x[2]) + BytesOrZero(x[1] + 1)]
Ends    == CHOOSE e \in Runs(0, EndStep, Nat, NumBlocks) : TRUE
Base(k) == AlignUp(Ends[k - 1])

LEMMA EndsAre ==
  ASSUME SaneConfig
  PROVE  /\ NumBlocks \in Nat /\ DOMAIN Blocks = 1 .. NumBlocks
         /\ \A k \in 0 .. NumBlocks : Ends[k] \in Nat
         /\ Ends[0] = 0
         /\ \A k \in 1 .. NumBlocks :
              Base(k) \in Nat /\ Ends[k - 1] <= Base(k) /\ Ends[k] = Base(k) + BytesOrZero(k)
         /\ \A j, k \in 0 .. NumBlocks : j <= k => Ends[j] <= Ends[k]
<1> DEFINE extra == IF HasHead THEN 1 ELSE 0
           n == 6 * config.layers
<1>1. n \in Nat /\ extra \in Nat /\ NumBlocks = n + 2 + extra
  BY DEF SaneConfig, Positive, NumBlocks
<1>2. DOMAIN Blocks = 1 .. n + 2 + extra
  BY BlocksListed
<1> HIDE DEF n, extra
<1>3. NumBlocks \in Nat /\ DOMAIN Blocks = 1 .. NumBlocks
  BY <1>1, <1>2
<1>4. \A k : BytesOrZero(k) \in Nat
  BY DEF BytesOrZero
<1>5. EndStep \in [Nat \X Nat -> Nat]
  <2>1. ASSUME NEW x \in Nat \X Nat PROVE AlignUp(x[2]) + BytesOrZero(x[1] + 1) \in Nat
    <3>1. x[2] \in Nat
      OBVIOUS
    <3>2. AlignUp(x[2]) \in Nat
      BY <3>1, AlignUpBounds
    <3> QED
      BY <1>4, <3>2
  <2> QED
    BY <2>1 DEF EndStep
<1>6. Ends \in Runs(0, EndStep, Nat, NumBlocks)
  <2>1. Runs(0, EndStep, Nat, NumBlocks) # {}
    BY <1>3, <1>5, RunExists
  <2> QED
    BY <2>1 DEF Ends
<1>7. /\ Ends \in [0 .. NumBlocks -> Nat] /\ Ends[0] = 0
      /\ \A i \in 0 .. NumBlocks - 1 : Ends[i + 1] = EndStep[<<i, Ends[i]>>]
  BY <1>6 DEF Runs
<1>8. \A k \in 1 .. NumBlocks :
        Base(k) \in Nat /\ Ends[k - 1] <= Base(k) /\ Ends[k] = Base(k) + BytesOrZero(k)
  <2> TAKE k \in 1 .. NumBlocks
  <2> DEFINE i == k - 1
  <2>1. i \in 0 .. NumBlocks - 1 /\ i \in Nat /\ i + 1 = k /\ Ends[i] \in Nat
    BY <1>3, <1>7
  <2>2. Ends[k] = EndStep[<<i, Ends[i]>>]
    BY <1>7, <2>1
  <2> HIDE DEF i
  <2>3. EndStep[<<i, Ends[i]>>] = AlignUp(Ends[i]) + BytesOrZero(i + 1)
    BY <2>1 DEF EndStep
  <2>4. AlignUp(Ends[i]) \in Nat /\ Ends[i] <= AlignUp(Ends[i])
    BY <2>1, AlignUpBounds
  <2> QED
    BY <2>1, <2>2, <2>3, <2>4 DEF Base, i
<1>9. \A k \in 1 .. NumBlocks : Ends[k - 1] <= Ends[k]
  <2> TAKE k \in 1 .. NumBlocks
  <2>1. k - 1 \in 0 .. NumBlocks
    BY <1>3
  <2>2. Ends[k - 1] \in Nat /\ Base(k) \in Nat /\ BytesOrZero(k) \in Nat
    BY <1>4, <1>7, <1>8, <2>1
  <2> QED
    BY <1>8, <2>2
<1>10. \A j, k \in 0 .. NumBlocks : j <= k => Ends[j] <= Ends[k]
  BY <1>3, <1>7, <1>9, GrowingRun
<1>11. \A k \in 0 .. NumBlocks : Ends[k] \in Nat
  BY <1>7
<1> QED
  BY <1>3, <1>7, <1>8, <1>10, <1>11

(* The name of the pointer each block is for.                              *)
LayerTargets == <<"input_norm", "qkv_proj", "o_proj", "post_attention_norm",
                  "gate_up_proj", "down_proj">>

LEMMA Targets ==
  ASSUME SaneConfig
  PROVE  /\ Blocks[1].to = <<0, "embedding">>
         /\ \A layer \in 1 .. config.layers, r \in 1 .. 6 :
              Blocks[6 * (layer - 1) + r + 1].to = <<layer, LayerTargets[r]>>
         /\ Blocks[6 * config.layers + 2].to = <<0, "final_norm">>
         /\ HasHead => Blocks[6 * config.layers + 3].to = LmHead
<1>1. Blocks[1].to = <<0, "embedding">>
  BY BlocksListed DEF Block
<1>2. Blocks[6 * config.layers + 2].to = <<0, "final_norm">>
  BY BlocksListed DEF Block
<1>3. HasHead => Blocks[6 * config.layers + 3].to = LmHead
  BY BlocksListed DEF Block, LmHead
<1>4. ASSUME NEW layer \in 1 .. config.layers, NEW r \in 1 .. 6
      PROVE  Blocks[6 * (layer - 1) + r + 1].to = <<layer, LayerTargets[r]>>
  <2>1. Blocks[6 * (layer - 1) + r + 1] = LayerBlocks(config, layer)[r]
    BY BlocksListed
  <2>2. r = 1 \/ r = 2 \/ r = 3 \/ r = 4 \/ r = 5 \/ r = 6
    OBVIOUS
  <2>3. LayerBlocks(config, layer)[r].to = <<layer, LayerTargets[r]>>
    BY <2>2 DEF LayerBlocks, LayerTargets, Block
  <2> QED
    BY <2>1, <2>3
<1> QED
  BY <1>1, <1>2, <1>3, <1>4

LEMMA TargetsDiffer ==
  ASSUME SaneConfig, NEW j \in DOMAIN Blocks, NEW k \in DOMAIN Blocks,
         Blocks[j].to = Blocks[k].to
  PROVE  j = k
<1> DEFINE Layered(i, layer, r) == i = 6 * (layer - 1) + r + 1
           L == config.layers
<1>1. L \in Nat /\ \A layer \in 1 .. L : layer # 0
  BY DEF SaneConfig, Positive
<1>2. \A i \in {j, k} :
         \/ i = 1 /\ Blocks[i].to = <<0, "embedding">>
         \/ \E layer \in 1 .. L, r \in 1 .. 6 :
              Layered(i, layer, r) /\ Blocks[i].to = <<layer, LayerTargets[r]>>
         \/ i = 6 * L + 2 /\ Blocks[i].to = <<0, "final_norm">>
         \/ i = 6 * L + 3 /\ Blocks[i].to = <<0, "lm_head">>
  <2> TAKE i \in {j, k}
  <2>0. i \in DOMAIN Blocks
    OBVIOUS
  <2>1. CASE i = 1
    BY <2>1, Targets
  <2>2. CASE \E layer \in 1 .. L, r \in 1 .. 6 : i = 6 * (layer - 1) + r + 1
    BY <2>2, Targets
  <2>3. CASE i = 6 * L + 2
    BY <2>3, Targets
  <2>4. CASE HasHead /\ i = 6 * L + 3
    BY <2>4, Targets DEF LmHead
  <2> QED
    BY <2>0, <2>1, <2>2, <2>3, <2>4, BlockCases
<1>3. \A r, s \in 1 .. 6 : LayerTargets[r] = LayerTargets[s] => r = s
  <2> TAKE r, s \in 1 .. 6
  <2>1. r = 1 \/ r = 2 \/ r = 3 \/ r = 4 \/ r = 5 \/ r = 6
    OBVIOUS
  <2>2. s = 1 \/ s = 2 \/ s = 3 \/ s = 4 \/ s = 5 \/ s = 6
    OBVIOUS
  <2> QED
    BY <2>1, <2>2 DEF LayerTargets
<1>4. CASE Blocks[j].to[1] = 0
  <2>1. \A i \in {j, k} :
         \/ i = 1 /\ Blocks[i].to = <<0, "embedding">>
         \/ i = 6 * L + 2 /\ Blocks[i].to = <<0, "final_norm">>
         \/ i = 6 * L + 3 /\ Blocks[i].to = <<0, "lm_head">>
    BY <1>1, <1>2, <1>4
  <2> HIDE DEF L
  <2> QED
    BY <2>1
<1>5. CASE Blocks[j].to[1] # 0
  <2>1. PICK layer \in 1 .. L, r \in 1 .. 6 :
          Layered(j, layer, r) /\ Blocks[j].to = <<layer, LayerTargets[r]>>
    BY <1>2, <1>5
  <2>2. PICK m \in 1 .. L, s \in 1 .. 6 :
          Layered(k, m, s) /\ Blocks[k].to = <<m, LayerTargets[s]>>
    BY <1>2, <1>5
  <2>3. layer = m /\ r = s
    BY <1>3, <2>1, <2>2
  <2> QED
    BY <2>1, <2>2, <2>3
<1> QED
  BY <1>4, <1>5

-----------------------------------------------------------------------------
(* A block is in place: its pointer is set, and every byte of its tensors  *)
(* has been copied to where the offset of its piece says.                  *)
ByteAt(k, p, b) == Base(k) + PieceOffset(Blocks[k], p) + b

FirstAt(k) == Blocks[k].to \in DOMAIN pointers /\ pointers[Blocks[k].to] = Base(k)

SizeAt(k, p) == PieceBytes(Blocks[k], p)

CopiedIn(k) ==
  \A p \in DOMAIN Blocks[k].pieces : \A b \in 0 .. SizeAt(k, p) - 1 :
    LET view == tensors[Blocks[k].pieces[p].name]
    IN  memory[ByteAt(k, p, b)] = <<view.file, view.begin + b>>

Allocated == DOMAIN memory = 0 .. Ends[NumBlocks] - 1

PlaceInv ==
  /\ stage \in {"config", "options", "open"} => total = 0
  /\ stage \in {"config", "options", "open", "weights"} => pointers = << >>
  /\ stage \in {"weights", "upload"} => at <= NumBlocks + 1 /\ total = Ends[at - 1]
  /\ stage = "upload" =>
       /\ Allocated
       /\ DOMAIN pointers = {Blocks[k].to : k \in 1 .. at - 1}
       /\ \A k \in DOMAIN Blocks : k < at => FirstAt(k) /\ CopiedIn(k)
  /\ stage \in {"cache"} \cup Planning =>
       /\ Allocated
       /\ \A k \in DOMAIN Blocks : FirstAt(k) /\ CopiedIn(k)
       /\ ~HasHead => pointers[LmHead] = pointers[<<0, "embedding">>]

(* The bytes of a block lie between its start and its end.                 *)
LEMMA ByteBounds ==
  ASSUME NEW input \in Inputs, dir = input.dir, ShardsRead(Len(Shards)), SaneConfig,
         NEW k \in DOMAIN Blocks, BlockUsable(k), NEW p \in DOMAIN Blocks[k].pieces,
         NEW b \in 0 .. PieceBytes(Blocks[k], p) - 1
  PROVE  /\ ByteAt(k, p, b) \in Nat /\ Base(k) \in Nat
         /\ Base(k) <= ByteAt(k, p, b) /\ ByteAt(k, p, b) < Ends[k]
         /\ Ends[k] = Base(k) + BlockBytes(Blocks[k]) /\ Ends[k] <= Ends[NumBlocks]
         /\ ByteAt(k, p, b) \in 0 .. Ends[NumBlocks] - 1
<1>1. /\ BlockBytes(Blocks[k]) \in Nat
      /\ PieceOffset(Blocks[k], p) \in Nat /\ PieceBytes(Blocks[k], p) \in Nat
      /\ PieceOffset(Blocks[k], p) + PieceBytes(Blocks[k], p) <= BlockBytes(Blocks[k])
  BY PiecesInOrder
<1>2. /\ NumBlocks \in Nat /\ k \in 1 .. NumBlocks /\ Base(k) \in Nat
      /\ Ends[k] = Base(k) + BlockBytes(Blocks[k])
  BY <1>1, EndsAre DEF BytesOrZero
<1>3. k \in 0 .. NumBlocks /\ NumBlocks \in 0 .. NumBlocks /\ k <= NumBlocks
  BY <1>2
<1>4. Ends[k] <= Ends[NumBlocks] /\ Ends[k] \in Nat /\ Ends[NumBlocks] \in Nat
  BY <1>3, EndsAre
<1>5. ByteAt(k, p, b) = Base(k) + PieceOffset(Blocks[k], p) + b /\ b \in Nat
      /\ b < PieceBytes(Blocks[k], p)
  BY <1>1 DEF ByteAt
<1> DEFINE base == Base(k)
           off == PieceOffset(Blocks[k], p)
           size == PieceBytes(Blocks[k], p)
           bytes == BlockBytes(Blocks[k])
           last == Ends[NumBlocks]
           at1 == ByteAt(k, p, b)
           stop == Ends[k]
<1>6. /\ base \in Nat /\ off \in Nat /\ size \in Nat /\ bytes \in Nat /\ last \in Nat
      /\ off + size <= bytes /\ stop = base + bytes /\ stop <= last
      /\ at1 = base + off + b /\ b \in Nat /\ b < size
  BY <1>1, <1>2, <1>4, <1>5
<1> HIDE DEF base, off, size, bytes, last, at1, stop
<1>7. /\ at1 \in Nat /\ base <= at1 /\ at1 < stop /\ at1 \in 0 .. last - 1
  BY <1>6
<1> QED
  BY <1>6, <1>7 DEF base, bytes, last, at1, stop

(* One block more is copied: no byte of an earlier one is touched ...      *)
LEMMA OtherBytesKept ==
  ASSUME NEW input \in Inputs, dir = input.dir, ShardsRead(Len(Shards)), SaneConfig,
         NEW n \in DOMAIN Blocks, BlockUsable(n), NEW a \in DOMAIN memory, a \in Nat,
         a < Base(n)
  PROVE  Copied(Blocks[n], Base(n))[a] = memory[a]
<1> DEFINE block == Blocks[n]
           covering == {i \in DOMAIN block.pieces : Covers(block, Base(n), i, a)}
<1>1. \A i \in DOMAIN block.pieces : PieceOffset(block, i) \in Nat /\ Base(n) \in Nat
  BY PiecesInOrder, EndsAre
<1>2. covering = {}
  <2> SUFFICES ASSUME NEW i \in DOMAIN block.pieces PROVE ~Covers(block, Base(n), i, a)
    OBVIOUS
  <2>1. PieceOffset(block, i) \in Nat /\ Base(n) \in Nat
    BY <1>1
  <2> HIDE DEF block
  <2> QED
    BY <2>1 DEF Covers
<1> QED
  BY <1>2 DEF Copied

(* ... and its own bytes come from its tensors.                            *)
LEMMA OwnBytesCopied ==
  ASSUME NEW input \in Inputs, dir = input.dir, ShardsRead(Len(Shards)), SaneConfig,
         NEW n \in DOMAIN Blocks, BlockUsable(n), Allocated,
         NEW p \in DOMAIN Blocks[n].pieces, NEW b \in 0 .. PieceBytes(Blocks[n], p) - 1
  PROVE  LET view == tensors[Blocks[n].pieces[p].name]
         IN  Copied(Blocks[n], Base(n))[ByteAt(n, p, b)] = <<view.file, view.begin + b>>
<1> DEFINE block == Blocks[n]
           base == Base(n)
           a == ByteAt(n, p, b)
           covering == {i \in DOMAIN block.pieces : Covers(block, base, i, a)}
           Off(i) == PieceOffset(block, i)
           Size1(i) == PieceBytes(block, i)
<1>1. a \in DOMAIN memory /\ a \in Nat /\ base \in Nat
  BY ByteBounds DEF Allocated
<1>2. \A i \in DOMAIN block.pieces : /\ i \in Nat /\ Off(i) \in Nat /\ Size1(i) \in Nat
                                     /\ tensors[block.pieces[i].name].begin \in Int
  BY PiecesInOrder
<1>3. \A i, j \in DOMAIN block.pieces : i < j => Off(i) + Size1(i) <= Off(j)
  BY PiecesInOrder
<1>4. a = base + Off(p) + b /\ b \in Nat /\ b < Size1(p) /\ p \in DOMAIN block.pieces
  BY <1>2 DEF ByteAt
<1>5. \A i \in DOMAIN block.pieces :
        Covers(block, base, i, a) <=> a >= base + Off(i) /\ a < base + Off(i) + Size1(i)
  BY DEF Covers, PieceBytes
<1>6. Copied(block, base)[a] =
        LET last == CHOOSE i \in covering : \A j \in covering : j <= i
            view == tensors[block.pieces[last].name]
        IN  IF covering = {} THEN memory[a]
            ELSE <<view.file, view.begin + a - base - PieceOffset(block, last)>>
  BY <1>1 DEF Copied
<1> HIDE DEF block, base, a, Off, Size1
<1>7. covering = {p}
  <2>1. Covers(block, base, p, a)
    BY <1>1, <1>2, <1>4, <1>5
  <2>2. ASSUME NEW i \in DOMAIN block.pieces, Covers(block, base, i, a) PROVE i = p
    <3>1. a >= base + Off(i) /\ a < base + Off(i) + Size1(i)
      BY <1>5, <2>2
    <3>2. /\ i \in Nat /\ Off(i) \in Nat /\ Size1(i) \in Nat
          /\ p \in Nat /\ Off(p) \in Nat /\ Size1(p) \in Nat
      BY <1>2, <1>4
    <3>3. /\ i < p => Off(i) + Size1(i) <= Off(p)
          /\ p < i => Off(p) + Size1(p) <= Off(i)
      BY <1>3, <1>4
    <3> DEFINE oi == Off(i)
               si == Size1(i)
               op == Off(p)
               sp == Size1(p)
    <3>4. /\ i \in Nat /\ oi \in Nat /\ si \in Nat /\ p \in Nat /\ op \in Nat /\ sp \in Nat
          /\ i < p => oi + si <= op
          /\ p < i => op + sp <= oi
          /\ a >= base + oi /\ a < base + oi + si
          /\ a = base + op + b /\ b \in Nat /\ b < sp /\ base \in Nat
      BY <1>1, <1>4, <3>1, <3>2, <3>3
    <3> HIDE DEF oi, si, op, sp
    <3> QED
      BY <3>4
  <2> QED
    BY <1>4, <2>1, <2>2
<1> HIDE DEF covering
<1>8. (CHOOSE i \in covering : \A j \in covering : j <= i) = p
  <2>1. p \in Nat
    BY <1>2, <1>4
  <2>2. p \in covering /\ \A j \in covering : j <= p
    BY <1>7, <2>1
  <2>3. \A i \in covering : i = p
    BY <1>7
  <2> QED
    BY <2>2, <2>3
<1> DEFINE view == tensors[block.pieces[p].name]
<1>9. Copied(block, base)[a] = <<view.file, view.begin + a - base - PieceOffset(block, p)>>
  BY <1>6, <1>7, <1>8
<1>10. view.begin + a - base - PieceOffset(block, p) = view.begin + b
  <2>1. view.begin \in Int /\ PieceOffset(block, p) = Off(p) /\ Off(p) \in Nat
    BY <1>2, <1>4 DEF Off
  <2> HIDE DEF view
  <2> QED
    BY <1>1, <1>4, <2>1
<1>11. Copied(block, base)[a] = <<view.file, view.begin + b>>
  BY <1>9, <1>10
<1> QED
  BY <1>11 DEF block, base, a, view

LEMMA LayoutKept ==
  ASSUME config' = config, tensors' = tensors
  PROVE  /\ Blocks' = Blocks /\ NumBlocks' = NumBlocks /\ Ends' = Ends
         /\ HasHead' <=> HasHead
         /\ \A k : Base(k)' = Base(k)
         /\ \A k, p, b : ByteAt(k, p, b)' = ByteAt(k, p, b)
         /\ \A k, p : SizeAt(k, p)' = SizeAt(k, p)
<1>1. Blocks' = Blocks /\ (HasHead' <=> HasHead) /\ NumBlocks' = NumBlocks
  BY DEF Blocks, HasHead, NumBlocks
<1>2. \A block, i : BytesBefore(block, i)' = BytesBefore(block, i)
  BY DEF BytesBefore
<1>3. \A k : BytesOrZero(k)' = BytesOrZero(k)
  BY <1>1, <1>2 DEF BytesOrZero, BlockBytes
<1>4. EndStep' = EndStep
  BY <1>3 DEF EndStep, AlignUp
<1>5. Ends' = Ends
  BY <1>1, <1>4 DEF Ends, Runs
<1>6. \A k : Base(k)' = Base(k)
  BY <1>5 DEF Base, AlignUp
<1>7. \A k, p, b : ByteAt(k, p, b)' = ByteAt(k, p, b)
  BY <1>1, <1>2, <1>6 DEF ByteAt, PieceOffset
<1>8. \A k, p : SizeAt(k, p)' = SizeAt(k, p)
  BY <1>1 DEF SizeAt, PieceBytes
<1> QED
  BY <1>1, <1>5, <1>6, <1>7, <1>8

LEMMA ContentsKept ==
  ASSUME config' = config, tensors' = tensors, memory' = memory, pointers' = pointers
  PROVE  /\ Allocated' <=> Allocated
         /\ \A k : (FirstAt(k)' <=> FirstAt(k)) /\ (CopiedIn(k)' <=> CopiedIn(k))
<1>1. /\ Blocks' = Blocks /\ NumBlocks' = NumBlocks /\ Ends' = Ends
      /\ \A k : Base(k)' = Base(k)
      /\ \A k, p, b : ByteAt(k, p, b)' = ByteAt(k, p, b)
      /\ \A k, p : SizeAt(k, p)' = SizeAt(k, p)
  BY LayoutKept
<1>2. Allocated' <=> Allocated
  BY <1>1 DEF Allocated
<1>3. \A k : FirstAt(k)' <=> FirstAt(k)
  BY <1>1 DEF FirstAt
<1>4. \A k : CopiedIn(k)' <=> CopiedIn(k)
  BY <1>1 DEF CopiedIn
<1> QED
  BY <1>2, <1>3, <1>4

(* Steps that touch neither the loader's variables nor the archive.        *)
LEMMA PlaceKept ==
  ASSUME PlaceInv, config' = config, tensors' = tensors, memory' = memory,
         pointers' = pointers, total' = total,
         \/ stage' = stage /\ at' = at
         \/ stage \in {"cache"} \cup Planning /\ stage' \in Planning
  PROVE  PlaceInv'
<1>1. /\ Blocks' = Blocks /\ NumBlocks' = NumBlocks /\ Ends' = Ends
      /\ HasHead' <=> HasHead
  BY LayoutKept
<1>2. /\ Allocated' <=> Allocated
      /\ \A k : (FirstAt(k)' <=> FirstAt(k)) /\ (CopiedIn(k)' <=> CopiedIn(k))
  BY ContentsKept
<1>3. CASE stage \in {"cache"} \cup Planning
  <2>1. stage' \in {"cache"} \cup Planning
    BY <1>3
  <2> QED
    BY <1>1, <1>2, <1>3, <2>1 DEF PlaceInv, Planning
<1>4. CASE stage \notin {"cache"} \cup Planning
  <2>1. stage' = stage /\ at' = at
    BY <1>4
  <2>2. stage = "upload" =>
          /\ DOMAIN pointers' = {Blocks'[k].to : k \in 1 .. at' - 1}
          /\ \A k \in DOMAIN Blocks' : k < at' => FirstAt(k)' /\ CopiedIn(k)'
    BY <1>1, <1>2, <2>1 DEF PlaceInv
  <2>3. stage' = "upload" =>
          /\ Allocated'
          /\ DOMAIN pointers' = {Blocks'[k].to : k \in 1 .. at' - 1}
          /\ \A k \in DOMAIN Blocks' : k < at' => FirstAt(k)' /\ CopiedIn(k)'
    BY <1>2, <2>1, <2>2 DEF PlaceInv
  <2>4. stage' \in {"weights", "upload"} => at' <= NumBlocks' + 1 /\ total' = Ends'[at' - 1]
    BY <1>1, <2>1 DEF PlaceInv
  <2>5. stage' \notin {"cache"} \cup Planning
    BY <1>4, <2>1
  <2>6. /\ stage' \in {"config", "options", "open"} => total' = 0
        /\ stage' \in {"config", "options", "open", "weights"} => pointers' = << >>
    BY <2>1 DEF PlaceInv
  <2> QED
    BY <2>3, <2>4, <2>5, <2>6 DEF PlaceInv
<1> QED
  BY <1>3, <1>4

LEMMA PlaceInit == Init => PlaceInv
BY DEF Init, PlaceInv, Planning

(* One block is uploaded.                                                  *)
LEMMA PlaceUpload ==
  ASSUME ArenaInv, OutcomeInv, PlaceInv, UploadBlock
  PROVE  PlaceInv'
<1>1. /\ config' = config /\ tensors' = tensors /\ stage = "upload" /\ stage' = stage
      /\ at' = at + 1 /\ at \in DOMAIN Blocks
  BY DEF UploadBlock, Loading, Again
<1>2. PICK input \in Inputs : dir = input.dir
  BY DEF ArenaInv
<1>3. /\ ShardsRead(Len(Shards)) /\ SaneConfig /\ \A k \in DOMAIN Blocks : BlockUsable(k)
  BY <1>1 DEF OutcomeInv, ArenaInv, Opened
<1>4. /\ total = Ends[at - 1] /\ Allocated
      /\ DOMAIN pointers = {Blocks[k].to : k \in 1 .. at - 1}
      /\ \A k \in DOMAIN Blocks : k < at => FirstAt(k) /\ CopiedIn(k)
  BY <1>1 DEF PlaceInv
<1>5. /\ NumBlocks \in Nat /\ DOMAIN Blocks = 1 .. NumBlocks
      /\ Ends[at] = Base(at) + BytesOrZero(at) /\ Base(at) \in Nat
      /\ \A k \in 0 .. NumBlocks : Ends[k] \in Nat
      /\ \A j, k \in 0 .. NumBlocks : j <= k => Ends[j] <= Ends[k]
      /\ Ends[at - 1] <= Base(at)
  BY <1>1, <1>3, EndsAre
<1>6. BlockBytes(Blocks[at]) \in Nat
  BY <1>1, <1>2, <1>3, PiecesInOrder
<1>7. /\ memory' = Copied(Blocks[at], Base(at))
      /\ pointers' = With(pointers, [to \in {Blocks[at].to} |-> Base(at)])
      /\ total' = Ends[at]
  BY <1>4, <1>5, <1>6 DEF UploadBlock, Base, BytesOrZero
<1>8. at \in 1 .. NumBlocks
  BY <1>1, <1>5
<1>9. /\ Blocks' = Blocks /\ NumBlocks' = NumBlocks /\ Ends' = Ends
      /\ \A k : Base(k)' = Base(k)
      /\ \A k, p, b : ByteAt(k, p, b)' = ByteAt(k, p, b)
      /\ \A k, p : SizeAt(k, p)' = SizeAt(k, p)
  BY <1>1, LayoutKept
<1>10. DOMAIN memory' = DOMAIN memory
  BY <1>7 DEF Copied
<1>11. Allocated'
  BY <1>4, <1>9, <1>10 DEF Allocated
<1>12. Blocks[at].to \notin DOMAIN pointers
  <2> SUFFICES ASSUME NEW k \in 1 .. at - 1, Blocks[at].to = Blocks[k].to PROVE FALSE
    BY <1>4
  <2>1. k \in DOMAIN Blocks /\ k # at
    BY <1>5, <1>8
  <2> QED
    BY <1>1, <1>3, <2>1, TargetsDiffer
<1>13. /\ DOMAIN pointers' = DOMAIN pointers \cup {Blocks[at].to}
       /\ pointers'[Blocks[at].to] = Base(at)
       /\ \A x \in DOMAIN pointers : pointers'[x] = pointers[x]
  <2> DEFINE t == Blocks[at].to
             g == [to \in {t} |-> Base(at)]
  <2>1. DOMAIN g = {t} /\ g[t] = Base(at)
    OBVIOUS
  <2>2. pointers' = [x \in DOMAIN pointers \cup DOMAIN g |->
                       IF x \in DOMAIN pointers THEN pointers[x] ELSE g[x]]
    BY <1>7 DEF With
  <2>3. t \notin DOMAIN pointers
    BY <1>12
  <2> HIDE DEF t, g
  <2>4. /\ DOMAIN pointers' = DOMAIN pointers \cup {t}
        /\ pointers'[t] = Base(at)
        /\ \A x \in DOMAIN pointers : pointers'[x] = pointers[x]
    BY <2>1, <2>2, <2>3
  <2> QED
    BY <2>4 DEF t
<1>14. DOMAIN pointers' = {Blocks[k].to : k \in 1 .. at}
  <2>1. \A k \in 1 .. at : k = at \/ k \in 1 .. at - 1
    BY <1>8
  <2>2. at \in 1 .. at /\ 1 .. at - 1 \subseteq 1 .. at
    BY <1>8
  <2> QED
    BY <1>4, <1>13, <2>1, <2>2
<1>15. ASSUME NEW k \in DOMAIN Blocks, k <= at
       PROVE  FirstAt(k)' /\ CopiedIn(k)'
  <2>1. CASE k = at
    <3>1. FirstAt(k)'
      BY <1>9, <1>13, <2>1 DEF FirstAt
    <3>2. ASSUME NEW p \in DOMAIN Blocks[k].pieces, NEW b \in 0 .. SizeAt(k, p) - 1
          PROVE  LET view == tensors[Blocks[k].pieces[p].name]
                 IN  memory'[ByteAt(k, p, b)] = <<view.file, view.begin + b>>
      <4>1. LET view == tensors[Blocks[k].pieces[p].name]
            IN  Copied(Blocks[k], Base(k))[ByteAt(k, p, b)] = <<view.file, view.begin + b>>
        BY <1>2, <1>3, <1>4, OwnBytesCopied DEF SizeAt
      <4> QED
        BY <1>7, <2>1, <4>1
    <3> QED
      BY <1>1, <1>9, <3>1, <3>2 DEF CopiedIn
  <2>2. CASE k # at
    <3>1. k < at /\ FirstAt(k) /\ CopiedIn(k)
      BY <1>4, <1>5, <1>8, <1>15, <2>2
    <3>2. FirstAt(k)'
      BY <1>9, <1>13, <3>1 DEF FirstAt
    <3>3. Ends[k] <= Base(at) /\ Ends[k] \in Nat
      <4>1. k \in 0 .. NumBlocks /\ at - 1 \in 0 .. NumBlocks /\ k <= at - 1
        BY <1>5, <1>8, <3>1
      <4>2. Ends[k] <= Ends[at - 1] /\ Ends[k] \in Nat /\ Ends[at - 1] \in Nat
        BY <1>5, <4>1
      <4> QED
        BY <1>5, <4>2
    <3>4. ASSUME NEW p \in DOMAIN Blocks[k].pieces, NEW b \in 0 .. SizeAt(k, p) - 1
          PROVE  LET view == tensors[Blocks[k].pieces[p].name]
                 IN  memory'[ByteAt(k, p, b)] = <<view.file, view.begin + b>>
      <4>1. /\ ByteAt(k, p, b) \in Nat /\ ByteAt(k, p, b) < Ends[k]
            /\ ByteAt(k, p, b) \in 0 .. Ends[NumBlocks] - 1
        BY <1>2, <1>3, ByteBounds DEF SizeAt
      <4>2. ByteAt(k, p, b) \in DOMAIN memory /\ ByteAt(k, p, b) < Base(at)
        BY <1>4, <1>5, <3>3, <4>1 DEF Allocated
      <4>3. memory'[ByteAt(k, p, b)] = memory[ByteAt(k, p, b)]
        BY <1>1, <1>2, <1>3, <1>7, <4>1, <4>2, OtherBytesKept
      <4>4. LET view == tensors[Blocks[k].pieces[p].name]
            IN  memory[ByteAt(k, p, b)] = <<view.file, view.begin + b>>
        BY <3>1 DEF CopiedIn
      <4> QED
        BY <4>3, <4>4
    <3> QED
      BY <1>1, <1>9, <3>2, <3>4 DEF CopiedIn
  <2> QED
    BY <2>1, <2>2
<1>16. at' - 1 = at /\ at' <= NumBlocks + 1
  BY <1>1, <1>5, <1>8
<1>17. \A k \in DOMAIN Blocks : k < at' => k <= at
  BY <1>1, <1>5, <1>8
<1> QED
  BY <1>1, <1>7, <1>9, <1>11, <1>14, <1>15, <1>16, <1>17 DEF PlaceInv, Planning

LEMMA PlaceStep == ArenaInv /\ OutcomeInv /\ PlaceInv /\ [Next]_vars => PlaceInv'
<1> SUFFICES ASSUME ArenaInv, OutcomeInv, PlaceInv, [Next]_vars
             PROVE  PlaceInv'
  OBVIOUS
<1> USE DEF Loading
<1>1. CASE ReadConfig
  <2>1. /\ tensors' = tensors /\ tensors = << >> /\ stage = "config"
        /\ (stage' = "config" \/ stage' = "options")
        /\ total' = total /\ pointers' = pointers
    BY <1>1 DEF ReadConfig, Leave, Goto, loaderVars, OutcomeInv
  <2>2. total' = 0 /\ pointers' = << >>
    BY <2>1 DEF PlaceInv
  <2> QED
    BY <2>1, <2>2 DEF PlaceInv, Planning
<1>2. CASE CheckOptions
  <2>1. /\ stage = "options" /\ (stage' = "options" \/ stage' = "open")
        /\ total' = total /\ pointers' = pointers
    BY <1>2 DEF CheckOptions, Leave, Goto, loaderVars
  <2>2. total' = 0 /\ pointers' = << >>
    BY <2>1 DEF PlaceInv
  <2> QED
    BY <2>1, <2>2 DEF PlaceInv, Planning
<1>3. CASE OpenFile
  <2>1. /\ stage = "open" /\ stage' = "open"
        /\ total' = total /\ pointers' = pointers
    BY <1>3 DEF OpenFile, Leave, Again, loaderVars
  <2>2. total' = 0 /\ pointers' = << >>
    BY <2>1 DEF PlaceInv
  <2> QED
    BY <2>1, <2>2 DEF PlaceInv, Planning
<1>4. CASE ArchiveOpen
  <2>1. /\ stage = "open" /\ ((stage' = "weights" /\ at' = 1) \/ stage' = "open")
        /\ total' = total /\ pointers' = pointers /\ config' = config /\ tensors' = tensors
    BY <1>4 DEF ArchiveOpen, Leave, Goto, loaderVars
  <2>2. total' = 0 /\ pointers' = << >>
    BY <2>1 DEF PlaceInv
  <2>3. NumBlocks' = NumBlocks /\ Ends' = Ends /\ NumBlocks \in Nat /\ Ends[0] = 0
    BY <2>1, LayoutKept, EndsAre DEF ArenaInv
  <2>4. stage' = "weights" => at' <= NumBlocks' + 1 /\ total' = Ends'[at' - 1]
    BY <2>1, <2>2, <2>3
  <2> QED
    BY <2>1, <2>2, <2>4 DEF PlaceInv, Planning
<1>5. CASE PlanBlock
  <2>1. /\ stage = "weights" /\ stage' = stage /\ pointers' = pointers /\ at \in DOMAIN Blocks
        /\ config' = config /\ tensors' = tensors /\ memory' = memory /\ dir' = dir
    BY <1>5 DEF PlanBlock, Leave, Again, inputVars
  <2>2. CASE BlockUsable(at)
    <3>1. at' = at + 1 /\ total' = AlignUp(total) + BlockBytes(Blocks[at])
      BY <1>5, <2>2 DEF PlanBlock, Again, BlockUsable
    <3>2. total = Ends[at - 1] /\ pointers = << >>
      BY <2>1 DEF PlaceInv
    <3>3. SaneConfig /\ ShardsRead(Len(Shards)) /\ \E input \in Inputs : dir = input.dir
      BY <2>1 DEF ArenaInv, OutcomeInv, Opened
    <3>4. BlockBytes(Blocks[at]) \in Nat
      BY <2>1, <2>2, <3>3, PiecesInOrder
    <3>5. /\ NumBlocks \in Nat /\ at \in 1 .. NumBlocks /\ Ends[at] = Base(at) + BytesOrZero(at)
      BY <2>1, <3>3, EndsAre
    <3>6. total' = Ends[at]
      BY <3>1, <3>2, <3>4, <3>5 DEF Base, BytesOrZero
    <3>7. NumBlocks' = NumBlocks /\ Ends' = Ends
      BY <2>1, LayoutKept
    <3>8. at' <= NumBlocks' + 1 /\ total' = Ends'[at' - 1]
      BY <3>1, <3>5, <3>6, <3>7
    <3> QED
      BY <2>1, <3>2, <3>8 DEF PlaceInv, Planning
  <2>3. CASE ~BlockUsable(at)
    <3>1. at' = at /\ total' = total
      BY <1>5, <2>3 DEF PlanBlock, Leave, BlockUsable
    <3> QED
      BY <2>1, <3>1, PlaceKept
  <2> QED
    BY <2>2, <2>3
<1>6. CASE AllocateWeights
  <2>1. /\ stage = "weights" /\ pointers' = pointers /\ at \notin DOMAIN Blocks
        /\ config' = config /\ tensors' = tensors
    BY <1>6 DEF AllocateWeights
  <2>2. CASE HeadKnown
    <3>1. /\ stage' = "upload" /\ at' = 1 /\ total' = 0
          /\ memory' = [a \in 0 .. total - 1 |-> Unwritten]
      BY <1>6, <2>2 DEF AllocateWeights, Goto
    <3>2. total = Ends[at - 1] /\ pointers = << >> /\ at <= NumBlocks + 1 /\ at \in Nat \ {0}
      BY <2>1 DEF PlaceInv, OutcomeInv
    <3>3. SaneConfig
      BY <2>1 DEF ArenaInv
    <3>4. NumBlocks \in Nat /\ DOMAIN Blocks = 1 .. NumBlocks /\ Ends[0] = 0
      BY <3>3, EndsAre
    <3>5. at - 1 = NumBlocks
      BY <2>1, <3>2, <3>4
    <3>6. /\ Blocks' = Blocks /\ NumBlocks' = NumBlocks /\ Ends' = Ends
      BY <2>1, LayoutKept
    <3>7. Allocated'
      BY <3>1, <3>2, <3>5, <3>6 DEF Allocated
    <3>8. DOMAIN pointers' = {Blocks'[k].to : k \in 1 .. at' - 1}
      <4>1. 1 .. at' - 1 = {} /\ pointers' = << >>
        BY <2>1, <3>1, <3>2
      <4> QED
        BY <4>1
    <3>9. \A k \in DOMAIN Blocks' : ~(k < at')
      BY <3>1, <3>4, <3>6
    <3>10. at' <= NumBlocks' + 1 /\ total' = Ends'[at' - 1]
      BY <3>1, <3>4, <3>6
    <3> QED
      BY <3>1, <3>7, <3>8, <3>9, <3>10 DEF PlaceInv, Planning
  <2>3. CASE ~HeadKnown
    <3>1. stage' = stage /\ at' = at /\ total' = total /\ memory' = memory
      BY <1>6, <2>3 DEF AllocateWeights, Leave
    <3> QED
      BY <2>1, <3>1, PlaceKept
  <2> QED
    BY <2>2, <2>3
<1>7. CASE UploadBlock
  BY <1>7, PlaceUpload
<1>8. CASE TieHead
  <2>1. /\ stage = "upload" /\ stage' = "cache" /\ at \notin DOMAIN Blocks
        /\ config' = config /\ tensors' = tensors /\ memory' = memory
        /\ pointers' = IF HasHead THEN pointers
                       ELSE With(pointers, [to \in {LmHead} |-> pointers[<<0, "embedding">>]])
    BY <1>8 DEF TieHead, Goto
  <2>2. SaneConfig /\ at \in Nat \ {0}
    BY <2>1 DEF ArenaInv, OutcomeInv
  <2>3. NumBlocks \in Nat /\ DOMAIN Blocks = 1 .. NumBlocks
    BY <2>2, EndsAre
  <2>4. /\ at <= NumBlocks + 1 /\ Allocated
        /\ DOMAIN pointers = {Blocks[k].to : k \in 1 .. at - 1}
        /\ \A k \in DOMAIN Blocks : k < at => FirstAt(k) /\ CopiedIn(k)
    BY <2>1 DEF PlaceInv
  <2>5. at - 1 = NumBlocks
    BY <2>1, <2>2, <2>3, <2>4
  <2>6. \A k \in DOMAIN Blocks : FirstAt(k) /\ CopiedIn(k)
    BY <2>2, <2>3, <2>4, <2>5
  <2>7. /\ Blocks' = Blocks /\ NumBlocks' = NumBlocks /\ Ends' = Ends
        /\ HasHead' <=> HasHead
        /\ \A k : Base(k)' = Base(k)
        /\ \A k, p, b : ByteAt(k, p, b)' = ByteAt(k, p, b)
        /\ \A k, p : SizeAt(k, p)' = SizeAt(k, p)
    BY <2>1, LayoutKept
  <2>8. Allocated' /\ \A k \in DOMAIN Blocks : CopiedIn(k)'
    BY <2>1, <2>4, <2>6, <2>7 DEF Allocated, CopiedIn
  <2>9. /\ \A x \in DOMAIN pointers : x \in DOMAIN pointers' /\ pointers'[x] = pointers[x]
        /\ ~HasHead => pointers'[LmHead] = pointers[<<0, "embedding">>]
    <3>1. CASE HasHead
      BY <2>1, <3>1
    <3>2. CASE ~HasHead
      <4> DEFINE g == [to \in {LmHead} |-> pointers[<<0, "embedding">>]]
      <4>1. DOMAIN g = {LmHead} /\ g[LmHead] = pointers[<<0, "embedding">>]
        OBVIOUS
      <4>2. pointers' = [x \in DOMAIN pointers \cup DOMAIN g |->
                           IF x \in DOMAIN pointers THEN pointers[x] ELSE g[x]]
        BY <2>1, <3>2 DEF With
      <4>3. LmHead \notin DOMAIN pointers
        <5> SUFFICES ASSUME NEW k \in DOMAIN Blocks, Blocks[k].to = LmHead PROVE FALSE
          BY <2>3, <2>4, <2>5
        <5>1. CASE k = 1
          BY <2>2, <5>1, Targets DEF LmHead
        <5>2. CASE k = 6 * config.layers + 2
          BY <2>2, <5>2, Targets DEF LmHead
        <5>3. ASSUME NEW layer \in 1 .. config.layers, NEW r \in 1 .. 6,
                     k = 6 * (layer - 1) + r + 1
              PROVE  FALSE
          <6>1. layer # 0
            BY <2>2 DEF SaneConfig, Positive
          <6> QED
            BY <2>2, <5>3, <6>1, Targets DEF LmHead
        <5> QED
          BY <2>2, <3>2, <5>1, <5>2, <5>3, BlockCases
      <4> HIDE DEF g
      <4> QED
        BY <4>1, <4>2, <4>3
    <3> QED
      BY <3>1, <3>2
  <2>10. \A k \in DOMAIN Blocks : FirstAt(k)'
    BY <2>6, <2>7, <2>9 DEF FirstAt
  <2>11. ~HasHead' => pointers'[LmHead] = pointers'[<<0, "embedding">>]
    <3>1. 1 \in DOMAIN Blocks
      BY <2>2, <2>3 DEF NumBlocks, SaneConfig, Positive
    <3>2. <<0, "embedding">> \in DOMAIN pointers
      BY <2>2, <2>6, <3>1, Targets DEF FirstAt
    <3> QED
      BY <2>7, <2>9, <3>2
  <2> QED
    BY <2>1, <2>7, <2>8, <2>10, <2>11 DEF PlaceInv, Planning
<1>9. CASE BuildCache
  BY <1>9, PlaceKept DEF BuildCache, Leave, Goto, loaderVars, Planning
<1>10. CASE PlanBuffer \/ ReserveArena
  BY <1>10, PlaceKept DEF PlanBuffer, ReserveArena, Again, Goto, loaderVars, Planning
<1>11. CASE CarveBuffer
  BY <1>11, PlaceKept DEF CarveBuffer, Leave, Again, loaderVars, Planning
<1>12. CASE SkipGathered \/ Return \/ SystemFails
  BY <1>12, PlaceKept DEF SkipGathered, Return, SystemFails, Leave, Again, loaderVars, Planning
<1>13. CASE Stopped \/ UNCHANGED vars
  BY <1>13, PlaceKept DEF Stopped, vars, loaderVars
<1> QED
  BY <1>1, <1>2, <1>3, <1>4, <1>5, <1>6, <1>7, <1>8, <1>9, <1>10, <1>11, <1>12, <1>13 DEF Next

-----------------------------------------------------------------------------
(* What holds once the last block is uploaded.                             *)
Complete ==
  /\ SaneConfig
  /\ \E input \in Inputs : dir = input.dir
  /\ ShardsRead(Len(Shards))
  /\ Allocated
  /\ \A k \in DOMAIN Blocks : BlockUsable(k) /\ FirstAt(k) /\ CopiedIn(k)
  /\ HasHead \/ pointers[LmHead] = pointers[<<0, "embedding">>]

LEMMA ReadyIsComplete ==
  ASSUME ArenaInv, OutcomeInv, PlaceInv, status = "ready"
  PROVE  Complete
<1>1. stage \in Planning
  BY DEF OutcomeInv, ArenaInv, Planning
<1>2. /\ SaneConfig /\ ShardsRead(Len(Shards)) /\ \A k \in DOMAIN Blocks : BlockUsable(k)
      /\ \E input \in Inputs : dir = input.dir
  BY <1>1 DEF OutcomeInv, ArenaInv, Opened, Planning
<1>3. /\ Allocated /\ \A k \in DOMAIN Blocks : FirstAt(k) /\ CopiedIn(k)
      /\ HasHead \/ pointers[LmHead] = pointers[<<0, "embedding">>]
  BY <1>1 DEF PlaceInv
<1> QED
  BY <1>2, <1>3 DEF Complete

(* The row of its block at which a layer's tensor is read, and where its   *)
(* piece of the block starts: the same place.                              *)
RoleRow == <<0, 0, QDim(config), QDim(config) + KvDim(config), 0, 0, 0, config.ffn, 0>>

LEMMA LayerReads ==
  ASSUME NEW layer, NEW r \in 1 .. 9, NEW spec, spec = LayerWeights(config, layer)[r]
  PROVE  /\ Reads(spec.name[1], spec.name[2]).to = <<layer, LayerTargets[RoleBlock[r]]>>
         /\ Reads(spec.name[1], spec.name[2]).row = RoleRow[r]
         /\ r \in {3, 4, 8} => spec.shape[Len(spec.shape)] = config.hidden
<1>1. r = 1 \/ r = 2 \/ r = 3 \/ r = 4 \/ r = 5 \/ r = 6 \/ r = 7 \/ r = 8 \/ r = 9
  OBVIOUS
<1> DEFINE roles == <<"input_layernorm", "q_proj", "k_proj", "v_proj", "o_proj",
                      "post_attention_layernorm", "gate_proj", "up_proj", "down_proj">>
<1>2. spec.name[1] = layer /\ spec.name[2] = roles[r]
  BY <1>1 DEF LayerWeights, WeightSpec
<1>3. /\ Reads(layer, roles[r]).to = <<layer, LayerTargets[RoleBlock[r]]>>
      /\ Reads(layer, roles[r]).row = RoleRow[r]
  BY <1>1 DEF Reads, RoleBlock, LayerTargets, RoleRow
<1>4. r \in {3, 4, 8} => spec.shape[Len(spec.shape)] = config.hidden
  <2>1. r \in {3, 4, 8} => \E a : spec.shape = <<a, config.hidden>>
    BY DEF LayerWeights, WeightSpec
  <2>2. ASSUME NEW a, spec.shape = <<a, config.hidden>>
        PROVE  spec.shape[Len(spec.shape)] = config.hidden
    <3>1. Len(spec.shape) = 2 /\ spec.shape[2] = config.hidden
      BY <2>2
    <3> QED
      BY <3>1
  <2> QED
    BY <2>1, <2>2
<1> QED
  BY <1>2, <1>3, <1>4

LEMMA LayerOffsets ==
  ASSUME Complete, NEW layer \in 1 .. config.layers, NEW r \in 1 .. 9,
         NEW k, k = 6 * (layer - 1) + RoleBlock[r] + 1
  PROVE  PieceOffset(Blocks[k], RolePiece[r]) = RoleRow[r] * config.hidden * ElemBytes
<1> DEFINE c == config
           H == c.hidden
           block == Blocks[k]
           b == RoleBlock[r]
<1>1. b \in 1 .. 6 /\ RolePiece[r] \in DOMAIN LayerBlocks(c, layer)[b].pieces
  BY RolePlaced
<1>2. SaneConfig
  BY DEF Complete
<1>3. block = LayerBlocks(c, layer)[b]
  BY <1>1, <1>2, BlocksListed
<1>4. k \in DOMAIN Blocks
  BY <1>2, RequiredPlaced DEF Placement
<1>5. PICK input \in Inputs : dir = input.dir
  BY DEF Complete
<1>6. /\ PieceOffset(block, 1) = 0
      /\ \A p \in DOMAIN block.pieces :
           /\ PieceBytes(block, p) = Numel(block.pieces[p].shape) * ElemBytes
           /\ p + 1 \in DOMAIN block.pieces =>
                PieceOffset(block, p + 1) = PieceOffset(block, p) + PieceBytes(block, p)
  BY <1>2, <1>4, <1>5, PiecesInOrder DEF Complete
<1>7. H \in Nat /\ ElemBytes \in Nat /\ QDim(c) \in Nat /\ KvDim(c) \in Nat /\ c.ffn \in Nat
  BY <1>2, ProductInNat, LoadAssumption DEF SaneConfig, Positive, QDim, KvDim
<1> HIDE DEF block
<1>8. CASE r \notin {3, 4, 8}
  <2>1. RolePiece[r] = 1 /\ RoleRow[r] = 0
    BY <1>8 DEF RolePiece, RoleRow
  <2>2. 0 * H * ElemBytes = 0
    BY <1>7
  <2> QED
    BY <1>6, <2>1, <2>2 DEF block
<1>9. CASE r \in {3, 4}
  <2>1. b = 2 /\ RolePiece[3] = 2 /\ RolePiece[4] = 3
        /\ RoleRow[3] = QDim(c) /\ RoleRow[4] = QDim(c) + KvDim(c)
    BY <1>9 DEF RoleBlock, RolePiece, RoleRow
  <2>2. /\ 1 \in DOMAIN block.pieces /\ 2 \in DOMAIN block.pieces /\ 3 \in DOMAIN block.pieces
        /\ block.pieces[1].shape = <<QDim(c), H>> /\ block.pieces[2].shape = <<KvDim(c), H>>
    BY <1>3, <2>1 DEF LayerBlocks, Block, WeightSpec
  <2>3. /\ PieceOffset(block, 2) = PieceBytes(block, 1)
        /\ PieceOffset(block, 3) = PieceOffset(block, 2) + PieceBytes(block, 2)
        /\ PieceBytes(block, 1) = QDim(c) * H * ElemBytes
        /\ PieceBytes(block, 2) = KvDim(c) * H * ElemBytes
    <3>1. 1 + 1 = 2 /\ 2 + 1 = 3
      OBVIOUS
    <3>2. Numel(<<QDim(c), H>>) = QDim(c) * H /\ Numel(<<KvDim(c), H>>) = KvDim(c) * H
      BY <1>7, NumelOfMatrix
    <3>3. PieceBytes(block, 1) = QDim(c) * H * ElemBytes
      BY <1>6, <2>2, <3>2
    <3>4. PieceBytes(block, 2) = KvDim(c) * H * ElemBytes
      BY <1>6, <2>2, <3>2
    <3>5. PieceOffset(block, 1 + 1) = PieceOffset(block, 1) + PieceBytes(block, 1)
      BY <1>6, <2>2, <3>1
    <3>6. PieceOffset(block, 2 + 1) = PieceOffset(block, 2) + PieceBytes(block, 2)
      BY <1>6, <2>2, <3>1
    <3>7. PieceBytes(block, 1) \in Nat
      BY <1>7, <3>3, ProductInNat
    <3>8. PieceOffset(block, 2) = PieceBytes(block, 1)
      BY <1>6, <3>1, <3>5, <3>7
    <3> QED
      BY <3>1, <3>3, <3>4, <3>6, <3>8
  <2>4. QDim(c) * H * ElemBytes + KvDim(c) * H * ElemBytes
          = (QDim(c) + KvDim(c)) * H * ElemBytes
    <3> DEFINE Q == QDim(c)
               K == KvDim(c)
    <3> HIDE DEF Q, K, H
    <3>1. Q * H + K * H = (Q + K) * H
      BY <1>7 DEF Q, K
    <3>2. Q * H \in Nat /\ K * H \in Nat
      BY <1>7, ProductInNat DEF Q, K
    <3>3. (Q * H) * ElemBytes + (K * H) * ElemBytes = (Q * H + K * H) * ElemBytes
      BY <1>7, <3>2
    <3> QED
      BY <3>1, <3>3 DEF Q, K
  <2>5. CASE r = 3
    BY <2>1, <2>3, <2>5 DEF block
  <2>6. CASE r = 4
    BY <2>1, <2>3, <2>4, <2>6 DEF block
  <2> QED
    BY <1>9, <2>5, <2>6
<1>10. CASE r = 8
  <2>1. b = 5 /\ RolePiece[r] = 2 /\ RoleRow[r] = c.ffn
    BY <1>10 DEF RoleBlock, RolePiece, RoleRow
  <2>2. /\ 1 \in DOMAIN block.pieces /\ 2 \in DOMAIN block.pieces
        /\ block.pieces[1].shape = <<c.ffn, H>>
    BY <1>3, <2>1 DEF LayerBlocks, Block, WeightSpec
  <2>3. Numel(<<c.ffn, H>>) = c.ffn * H
    BY <1>7, NumelOfMatrix
  <2>4. PieceBytes(block, 1) = c.ffn * H * ElemBytes
    BY <1>6, <2>2, <2>3
  <2>5. PieceBytes(block, 1) \in Nat
    BY <1>7, <2>4, ProductInNat
  <2>6. 1 + 1 = 2 /\ PieceOffset(block, 1 + 1) = PieceOffset(block, 1) + PieceBytes(block, 1)
    BY <1>6, <2>2
  <2>7. PieceOffset(block, 2) = PieceBytes(block, 1)
    BY <1>6, <2>5, <2>6
  <2> QED
    BY <2>1, <2>4, <2>7 DEF block
<1> QED
  BY <1>8, <1>9, <1>10

LEMMA LastExtent ==
  ASSUME NEW spec, NEW a, NEW b, spec.shape = <<a>> \/ spec.shape = <<b, a>>
  PROVE  spec.shape[Len(spec.shape)] = a
<1>1. CASE spec.shape = <<a>>
  <2>1. Len(spec.shape) = 1 /\ spec.shape[1] = a
    BY <1>1
  <2> QED
    BY <2>1
<1>2. CASE spec.shape = <<b, a>>
  <2>1. Len(spec.shape) = 2 /\ spec.shape[2] = a
    BY <1>2
  <2> QED
    BY <2>1
<1> QED
  BY <1>1, <1>2

(* A tensor read at the first row of the block of its own.                 *)
LEMMA FirstRow ==
  ASSUME Complete, NEW k \in DOMAIN Blocks, NEW spec,
         Reads(spec.name[1], spec.name[2]).to = Blocks[k].to,
         Reads(spec.name[1], spec.name[2]).row = 0,
         spec.shape[Len(spec.shape)] \in Nat
  PROVE  AddressRead(spec) = Base(k) + PieceOffset(Blocks[k], 1)
<1>1. SaneConfig /\ BlockUsable(k) /\ FirstAt(k) /\ ShardsRead(Len(Shards))
  BY DEF Complete
<1>2. PICK input \in Inputs : dir = input.dir
  BY DEF Complete
<1>3. PieceOffset(Blocks[k], 1) = 0
  BY <1>1, <1>2, PiecesInOrder
<1>4. Base(k) \in Nat
  BY <1>1, EndsAre
<1> DEFINE width == spec.shape[Len(spec.shape)]
<1>5. AddressRead(spec) = Base(k) + 0 * width * ElemBytes
  BY <1>1 DEF AddressRead, FirstAt
<1>6. width \in Nat /\ ElemBytes \in Nat
  BY LoadAssumption
<1> HIDE DEF width
<1>7. 0 * width * ElemBytes = 0
  BY <1>6
<1> QED
  BY <1>3, <1>4, <1>5, <1>7

LEMMA LayerAddress ==
  ASSUME Complete, NEW layer \in 1 .. config.layers, NEW r \in 1 .. 9,
         NEW k, k = 6 * (layer - 1) + RoleBlock[r] + 1,
         NEW spec, spec = LayerWeights(config, layer)[r]
  PROVE  AddressRead(spec) = Base(k) + PieceOffset(Blocks[k], RolePiece[r])
<1>1. SaneConfig
  BY DEF Complete
<1>2. k \in DOMAIN Blocks
  BY <1>1, RequiredPlaced DEF Placement
<1>3. Blocks[k].to = <<layer, LayerTargets[RoleBlock[r]]>>
  BY <1>1, RolePlaced, Targets
<1>4. /\ Reads(spec.name[1], spec.name[2]).to = Blocks[k].to
      /\ Reads(spec.name[1], spec.name[2]).row = RoleRow[r]
      /\ r \in {3, 4, 8} => spec.shape[Len(spec.shape)] = config.hidden
  <2>1. Reads(spec.name[1], spec.name[2]).to = <<layer, LayerTargets[RoleBlock[r]]>>
    BY LayerReads
  <2>2. Reads(spec.name[1], spec.name[2]).row = RoleRow[r]
    BY LayerReads
  <2>3. r \in {3, 4, 8} => spec.shape[Len(spec.shape)] = config.hidden
    BY LayerReads
  <2> QED
    BY <1>3, <2>1, <2>2, <2>3
<1>5. PieceOffset(Blocks[k], RolePiece[r]) = RoleRow[r] * config.hidden * ElemBytes
  BY LayerOffsets
<1>6. FirstAt(k)
  BY <1>2 DEF Complete
<1>7. CASE r \in {3, 4, 8}
  BY <1>4, <1>5, <1>6, <1>7 DEF AddressRead, FirstAt
<1>8. CASE r \notin {3, 4, 8}
  <2>1. RolePiece[r] = 1 /\ RoleRow[r] = 0
    BY <1>8 DEF RolePiece, RoleRow
  <2>2. \E a, b : (spec.shape = <<a>> \/ spec.shape = <<b, a>>)
                    /\ a \in {config.hidden, QDim(config), config.ffn}
    <3>1. CASE r = 1 \/ r = 6
      <4>1. spec.shape = <<config.hidden>>
        BY <3>1 DEF LayerWeights, WeightSpec
      <4> QED
        BY <4>1
    <3>2. CASE r = 2
      <4>1. spec.shape = <<QDim(config), config.hidden>>
        BY <3>2 DEF LayerWeights, WeightSpec
      <4> QED
        BY <4>1
    <3>3. CASE r = 5
      <4>1. spec.shape = <<config.hidden, QDim(config)>>
        BY <3>3 DEF LayerWeights, WeightSpec
      <4> QED
        BY <4>1
    <3>4. CASE r = 7
      <4>1. spec.shape = <<config.ffn, config.hidden>>
        BY <3>4 DEF LayerWeights, WeightSpec
      <4> QED
        BY <4>1
    <3>5. CASE r = 9
      <4>1. spec.shape = <<config.hidden, config.ffn>>
        BY <3>5 DEF LayerWeights, WeightSpec
      <4> QED
        BY <4>1
    <3> QED
      BY <1>8, <3>1, <3>2, <3>3, <3>4, <3>5
  <2>3. config.hidden \in Nat /\ QDim(config) \in Nat /\ config.ffn \in Nat
    BY <1>1, ProductInNat DEF SaneConfig, Positive, QDim
  <2>4. spec.shape[Len(spec.shape)] \in Nat
    BY <2>2, <2>3, LastExtent
  <2> QED
    BY <1>2, <1>4, <2>1, <2>4, FirstRow
<1> QED
  BY <1>7, <1>8

(* Where each required tensor is: its block and its place in the block.    *)
PlacedAt(i, k, p) ==
  \/ i = 1 /\ k = 1 /\ p = 1
  \/ \E layer \in 1 .. config.layers, r \in 1 .. 9 :
       /\ i = 9 * (layer - 1) + r + 1
       /\ k = 6 * (layer - 1) + RoleBlock[r] + 1
       /\ p = RolePiece[r]
  \/ i = 9 * config.layers + 2 /\ k = 6 * config.layers + 2 /\ p = 1

LEMMA EveryPlace ==
  ASSUME SaneConfig, NEW i \in DOMAIN RequiredWeights(config)
  PROVE  \E k, p : PlacedAt(i, k, p)
<1>1. CASE i = 1
  <2>1. PlacedAt(i, 1, 1)
    BY <1>1 DEF PlacedAt
  <2> QED
    BY <2>1
<1>2. CASE \E layer \in 1 .. config.layers, r \in 1 .. 9 : i = 9 * (layer - 1) + r + 1
  <2>1. PICK layer \in 1 .. config.layers, r \in 1 .. 9 : i = 9 * (layer - 1) + r + 1
    BY <1>2
  <2>2. PlacedAt(i, 6 * (layer - 1) + RoleBlock[r] + 1, RolePiece[r])
    BY <2>1 DEF PlacedAt
  <2> QED
    BY <2>2
<1>3. CASE i = 9 * config.layers + 2
  <2>1. PlacedAt(i, 6 * config.layers + 2, 1)
    BY <1>3 DEF PlacedAt
  <2> QED
    BY <2>1
<1> QED
  BY <1>1, <1>2, <1>3, SpecCases

LEMMA PlaceRead ==
  ASSUME Complete, NEW i, NEW k, NEW p, PlacedAt(i, k, p),
         NEW spec, spec = RequiredWeights(config)[i]
  PROVE  /\ Placement(k, p, spec)
         /\ AddressRead(spec) = Base(k) + PieceOffset(Blocks[k], p)
<1>1. SaneConfig
  BY DEF Complete
<1>2. config.hidden \in Nat
  BY <1>1 DEF SaneConfig, Positive
<1>3. CASE i = 1 /\ k = 1 /\ p = 1
  <2>1. Placement(k, p, spec)
    BY <1>1, <1>3, RequiredPlaced
  <2>2. spec = WeightSpec(0, "embed_tokens", <<config.vocab, config.hidden>>)
    BY <1>1, <1>3, SpecsListed DEF Embedding
  <2>3. /\ Reads(spec.name[1], spec.name[2]).to = <<0, "embedding">>
        /\ Reads(spec.name[1], spec.name[2]).row = 0
    BY <2>2 DEF WeightSpec, Reads
  <2>4. spec.shape[Len(spec.shape)] \in Nat
    BY <1>2, <2>2, LastExtent DEF WeightSpec
  <2> QED
    BY <1>1, <1>3, <2>1, <2>3, <2>4, Targets, FirstRow DEF Placement
<1>4. CASE i = 9 * config.layers + 2 /\ k = 6 * config.layers + 2 /\ p = 1
  <2>1. Placement(k, p, spec)
    BY <1>1, <1>4, RequiredPlaced
  <2>2. spec = WeightSpec(0, "norm", <<config.hidden>>)
    BY <1>1, <1>4, SpecsListed DEF FinalNorm
  <2>3. /\ Reads(spec.name[1], spec.name[2]).to = <<0, "final_norm">>
        /\ Reads(spec.name[1], spec.name[2]).row = 0
    BY <2>2 DEF WeightSpec, Reads
  <2>4. spec.shape[Len(spec.shape)] \in Nat
    BY <1>2, <2>2, LastExtent DEF WeightSpec
  <2> QED
    BY <1>1, <1>4, <2>1, <2>3, <2>4, Targets, FirstRow DEF Placement
<1>5. ASSUME NEW layer \in 1 .. config.layers, NEW r \in 1 .. 9,
             i = 9 * (layer - 1) + r + 1,
             k = 6 * (layer - 1) + RoleBlock[r] + 1, p = RolePiece[r]
      PROVE  /\ Placement(k, p, spec)
             /\ AddressRead(spec) = Base(k) + PieceOffset(Blocks[k], p)
  <2>1. Placement(k, p, spec)
    BY <1>1, <1>5, RequiredPlaced
  <2>2. spec = LayerWeights(config, layer)[r]
    BY <1>1, <1>5, SpecsListed
  <2> QED
    BY <1>5, <2>1, <2>2, LayerAddress
<1> QED
  BY <1>3, <1>4, <1>5 DEF PlacedAt

LEMMA HeadRead ==
  ASSUME Complete
  PROVE  IF HasHead
         THEN LET k == 6 * config.layers + 3
              IN  /\ Placement(k, 1, HeadOf(config))
                  /\ AddressRead(HeadOf(config)) = Base(k) + PieceOffset(Blocks[k], 1)
         ELSE AddressRead(HeadOf(config)) = AddressRead(RequiredWeights(config)[1])
<1> DEFINE head == HeadOf(config)
           embed == RequiredWeights(config)[1]
<1>1. SaneConfig
  BY DEF Complete
<1>2. head.shape = <<config.vocab, config.hidden>> /\ head.name = LmHead
  BY DEF HeadOf, WeightSpec, LmHead
<1>3. /\ Reads(head.name[1], head.name[2]).to = LmHead
      /\ Reads(head.name[1], head.name[2]).row = 0
  BY <1>2 DEF Reads, LmHead
<1>4. head.shape[Len(head.shape)] = config.hidden /\ config.hidden \in Nat
  BY <1>1, <1>2, LastExtent DEF SaneConfig, Positive
<1> HIDE DEF head
<1>5. CASE HasHead
  <2> DEFINE k == 6 * config.layers + 3
  <2>1. Placement(k, 1, head) /\ Blocks[k].to = LmHead
    BY <1>1, <1>5, RequiredPlaced, Targets DEF head
  <2> HIDE DEF k
  <2>2. AddressRead(head) = Base(k) + PieceOffset(Blocks[k], 1)
    BY <1>3, <1>4, <2>1, FirstRow DEF Placement
  <2> QED
    BY <1>5, <2>1, <2>2 DEF k, head
<1>6. CASE ~HasHead
  <2>1. embed = WeightSpec(0, "embed_tokens", <<config.vocab, config.hidden>>)
    BY <1>1, SpecsListed DEF Embedding
  <2>2. /\ Reads(embed.name[1], embed.name[2]).to = <<0, "embedding">>
        /\ Reads(embed.name[1], embed.name[2]).row = 0
    BY <2>1 DEF WeightSpec, Reads
  <2>3. embed.shape[Len(embed.shape)] = config.hidden
    BY <2>1, LastExtent DEF WeightSpec
  <2>4. pointers[LmHead] = pointers[<<0, "embedding">>]
    BY <1>6 DEF Complete
  <2> HIDE DEF embed
  <2>5. AddressRead(head) = AddressRead(embed)
    BY <1>3, <1>4, <2>2, <2>3, <2>4 DEF AddressRead
  <2> QED
    BY <1>6, <2>5 DEF head, embed
<1> QED
  BY <1>5, <1>6

(* A tensor's bytes are at the place of its piece.                         *)
LEMMA BytesOfPiece ==
  ASSUME Complete, NEW k, NEW p, NEW spec, Placement(k, p, spec), NEW at0,
         at0 = Base(k) + PieceOffset(Blocks[k], p)
  PROVE  /\ HasHead \/ spec.name # LmHead
         /\ at0 \in Nat /\ Base(k) <= at0
         /\ Numel(spec.shape) * ElemBytes \in Nat
         /\ at0 + Numel(spec.shape) * ElemBytes <= Ends[k]
<1>1. PICK input \in Inputs : dir = input.dir
  BY DEF Complete
<1>2. /\ SaneConfig /\ ShardsRead(Len(Shards)) /\ Allocated
      /\ k \in DOMAIN Blocks /\ p \in DOMAIN Blocks[k].pieces /\ Blocks[k].pieces[p] = spec
      /\ BlockUsable(k) /\ CopiedIn(k)
  BY DEF Complete, Placement
<1>3. HasHead \/ spec.name # LmHead
  BY <1>2 DEF BlockUsable, PieceUsable, HasHead
<1>4. /\ BlockBytes(Blocks[k]) \in Nat
      /\ PieceOffset(Blocks[k], p) \in Nat /\ PieceBytes(Blocks[k], p) \in Nat
      /\ PieceBytes(Blocks[k], p) = Numel(spec.shape) * ElemBytes
      /\ PieceOffset(Blocks[k], p) + PieceBytes(Blocks[k], p) <= BlockBytes(Blocks[k])
  BY <1>1, <1>2, PiecesInOrder
<1>5. Base(k) \in Nat /\ Ends[k] = Base(k) + BlockBytes(Blocks[k])
  BY <1>2, <1>4, EndsAre DEF BytesOrZero
<1>6. /\ at0 \in Nat /\ Base(k) <= at0
      /\ Numel(spec.shape) * ElemBytes \in Nat
      /\ at0 + Numel(spec.shape) * ElemBytes <= Ends[k]
  BY <1>4, <1>5
<1> QED
  BY <1>3, <1>6

LEMMA ByteOfPiece ==
  ASSUME Complete, NEW k, NEW p, NEW spec, Placement(k, p, spec),
         AddressRead(spec) = Base(k) + PieceOffset(Blocks[k], p),
         NEW b \in 0 .. Numel(spec.shape) * ElemBytes - 1
  PROVE  /\ AddressRead(spec) + b \in DOMAIN memory
         /\ memory[AddressRead(spec) + b]
              = <<tensors[spec.name].file, tensors[spec.name].begin + b>>
<1>1. PICK input \in Inputs : dir = input.dir
  BY DEF Complete
<1>2. /\ SaneConfig /\ ShardsRead(Len(Shards)) /\ Allocated
      /\ k \in DOMAIN Blocks /\ p \in DOMAIN Blocks[k].pieces /\ Blocks[k].pieces[p] = spec
      /\ BlockUsable(k) /\ CopiedIn(k)
  BY DEF Complete, Placement
<1>3. PieceBytes(Blocks[k], p) = Numel(spec.shape) * ElemBytes
  BY <1>1, <1>2, PiecesInOrder
<1>4. ByteAt(k, p, b) = AddressRead(spec) + b
  BY DEF ByteAt
<1>5. ByteAt(k, p, b) \in DOMAIN memory
  BY <1>1, <1>2, <1>3, ByteBounds DEF Allocated
<1>6. b \in 0 .. SizeAt(k, p) - 1
  BY <1>3 DEF SizeAt
<1>7. memory[ByteAt(k, p, b)] = <<tensors[spec.name].file, tensors[spec.name].begin + b>>
  BY <1>2, <1>6 DEF CopiedIn
<1> QED
  BY <1>4, <1>5, <1>7

(* The list of required tensors walks the blocks, and the pieces of each,  *)
(* in order.                                                               *)
LEMMA PlacesInOrder ==
  ASSUME SaneConfig, NEW i, NEW j, i < j, NEW k, NEW p, NEW m, NEW q,
         PlacedAt(i, k, p), PlacedAt(j, m, q)
  PROVE  k < m \/ (k = m /\ p < q)
<1> DEFINE L == config.layers
           InLayer(a, c, s, layer, r) ==
             /\ layer \in 1 .. L /\ r \in 1 .. 9
             /\ a = 9 * (layer - 1) + r + 1
             /\ c = 6 * (layer - 1) + RoleBlock[r] + 1
             /\ s = RolePiece[r]
<1>1. L \in Nat \ {0}
  BY DEF SaneConfig, Positive
<1>2. \A r \in 1 .. 9 : RoleBlock[r] \in 1 .. 6 /\ RolePiece[r] \in 1 .. 3
  <2> TAKE r \in 1 .. 9
  <2>1. r = 1 \/ r = 2 \/ r = 3 \/ r = 4 \/ r = 5 \/ r = 6 \/ r = 7 \/ r = 8 \/ r = 9
    OBVIOUS
  <2> QED
    BY <2>1 DEF RoleBlock, RolePiece
<1>3. \A r, s \in 1 .. 9 : r < s =>
        \/ RoleBlock[r] < RoleBlock[s]
        \/ RoleBlock[r] = RoleBlock[s] /\ RolePiece[r] < RolePiece[s]
  <2> TAKE r, s \in 1 .. 9
  <2>1. r = 1 \/ r = 2 \/ r = 3 \/ r = 4 \/ r = 5 \/ r = 6 \/ r = 7 \/ r = 8 \/ r = 9
    OBVIOUS
  <2>2. s = 1 \/ s = 2 \/ s = 3 \/ s = 4 \/ s = 5 \/ s = 6 \/ s = 7 \/ s = 8 \/ s = 9
    OBVIOUS
  <2> QED
    BY <2>1, <2>2 DEF RoleBlock, RolePiece
<1>4. /\ \/ i = 1 /\ k = 1
         \/ \E layer, r : InLayer(i, k, p, layer, r)
         \/ i = 9 * L + 2 /\ k = 6 * L + 2
      /\ \/ j = 1 /\ m = 1
         \/ \E layer, r : InLayer(j, m, q, layer, r)
         \/ j = 9 * L + 2 /\ m = 6 * L + 2
  BY DEF PlacedAt
<1>5. \A a, c, s, layer, r : InLayer(a, c, s, layer, r) =>
        a \in 2 .. 9 * L + 1 /\ c \in 2 .. 6 * L + 1
  BY <1>1, <1>2
<1>6. ASSUME NEW l, NEW r, NEW n, NEW s, InLayer(i, k, p, l, r), InLayer(j, m, q, n, s)
      PROVE  k < m \/ (k = m /\ p < q)
  <2>1. /\ l \in Nat /\ n \in Nat /\ r \in 1 .. 9 /\ s \in 1 .. 9
        /\ 9 * (l - 1) + r + 1 < 9 * (n - 1) + s + 1
    BY <1>1, <1>6
  <2>2. l < n \/ (l = n /\ r < s)
    BY <2>1
  <2>3. RoleBlock[r] \in 1 .. 6 /\ RoleBlock[s] \in 1 .. 6
    BY <1>2, <2>1
  <2>4. CASE l < n
    <3>1. 6 * (l - 1) + RoleBlock[r] + 1 < 6 * (n - 1) + RoleBlock[s] + 1
      BY <2>1, <2>3, <2>4
    <3> QED
      BY <1>6, <3>1
  <2>5. CASE l = n /\ r < s
    <3>1. \/ RoleBlock[r] < RoleBlock[s]
          \/ RoleBlock[r] = RoleBlock[s] /\ RolePiece[r] < RolePiece[s]
      BY <1>3, <2>1, <2>5
    <3>2. CASE RoleBlock[r] < RoleBlock[s]
      <4>1. 6 * (l - 1) + RoleBlock[r] + 1 < 6 * (n - 1) + RoleBlock[s] + 1
        BY <2>1, <2>3, <2>5, <3>2
      <4> QED
        BY <1>6, <4>1
    <3>3. CASE RoleBlock[r] = RoleBlock[s] /\ RolePiece[r] < RolePiece[s]
      BY <1>6, <2>5, <3>3
    <3> QED
      BY <3>1, <3>2, <3>3
  <2> QED
    BY <2>2, <2>4, <2>5
<1>7. CASE \E layer, r : InLayer(i, k, p, layer, r)
  <2>1. i \in 2 .. 9 * L + 1 /\ k \in 2 .. 6 * L + 1
    BY <1>5, <1>7
  <2>2. CASE \E layer, r : InLayer(j, m, q, layer, r)
    BY <1>6, <1>7, <2>2
  <2>3. CASE ~\E layer, r : InLayer(j, m, q, layer, r)
    <3> HIDE DEF InLayer
    <3>1. j = 9 * L + 2 /\ m = 6 * L + 2
      BY <1>1, <1>4, <2>1, <2>3
    <3> QED
      BY <1>1, <2>1, <3>1
  <2> QED
    BY <2>2, <2>3
<1>8. CASE ~\E layer, r : InLayer(i, k, p, layer, r)
  <2> HIDE DEF InLayer
  <2>1. CASE \E layer, r : InLayer(j, m, q, layer, r)
    <3>1. j \in 2 .. 9 * L + 1 /\ m \in 2 .. 6 * L + 1
      BY <1>5, <2>1
    <3> QED
      BY <1>1, <1>4, <1>8, <3>1
  <2>2. CASE ~\E layer, r : InLayer(j, m, q, layer, r)
    BY <1>1, <1>4, <1>8, <2>2
  <2> QED
    BY <2>1, <2>2
<1> QED
  BY <1>7, <1>8

LEMMA Spread ==
  ASSUME Complete
  PROVE  LET specs == RequiredWeights(config)
         IN  /\ \A i, j \in DOMAIN specs : i < j =>
                  AddressRead(specs[i]) + Numel(specs[i].shape) * ElemBytes
                    <= AddressRead(specs[j])
             /\ \A k \in DOMAIN Blocks : \A p \in Range(Blocks[k].pieces) :
                  p.name # LmHead => p \in Range(specs)
<1> DEFINE specs == RequiredWeights(config)
<1>1. SaneConfig /\ ShardsRead(Len(Shards))
  BY DEF Complete
<1>2. PICK input \in Inputs : dir = input.dir
  BY DEF Complete
<1>3. ASSUME NEW i \in DOMAIN specs, NEW j \in DOMAIN specs, i < j
      PROVE  AddressRead(specs[i]) + Numel(specs[i].shape) * ElemBytes
               <= AddressRead(specs[j])
  <2> DEFINE size == Numel(specs[i].shape) * ElemBytes
             from == AddressRead(specs[i])
             next == AddressRead(specs[j])
  <2>1. PICK k, p : PlacedAt(i, k, p)
    BY <1>1, EveryPlace
  <2>2. PICK m, q : PlacedAt(j, m, q)
    BY <1>1, EveryPlace
  <2>3. /\ Placement(k, p, specs[i]) /\ from = Base(k) + PieceOffset(Blocks[k], p)
        /\ Placement(m, q, specs[j]) /\ next = Base(m) + PieceOffset(Blocks[m], q)
    BY <2>1, <2>2, PlaceRead
  <2>4. /\ from \in Nat /\ size \in Nat /\ from + size <= Ends[k]
        /\ next \in Nat /\ Base(m) <= next
    BY <2>3, BytesOfPiece
  <2>5. k \in DOMAIN Blocks /\ m \in DOMAIN Blocks /\ p \in DOMAIN Blocks[k].pieces
        /\ q \in DOMAIN Blocks[m].pieces /\ BlockUsable(k)
    BY <2>3 DEF Placement, Complete
  <2>6. CASE k < m
    <3> DEFINE before == m - 1
    <3>1. k \in 0 .. NumBlocks /\ before \in 0 .. NumBlocks /\ k <= before
          /\ m \in 1 .. NumBlocks
      BY <1>1, <2>5, <2>6, EndsAre
    <3>2. Ends[k] <= Ends[before] /\ Ends[before] <= Base(m) /\ Ends[k] \in Nat
          /\ Ends[before] \in Nat /\ Base(m) \in Nat
      BY <1>1, <3>1, EndsAre
    <3> HIDE DEF from, size, next, before
    <3> QED
      BY <2>4, <3>2 DEF from, size, next
  <2>7. CASE k = m /\ p < q
    <3>1. /\ PieceOffset(Blocks[k], p) + PieceBytes(Blocks[k], p) <= PieceOffset(Blocks[k], q)
          /\ PieceBytes(Blocks[k], p) = Numel(Blocks[k].pieces[p].shape) * ElemBytes
          /\ PieceOffset(Blocks[k], p) \in Nat /\ PieceOffset(Blocks[k], q) \in Nat
      BY <1>1, <1>2, <2>5, <2>7, PiecesInOrder
    <3>2. PieceBytes(Blocks[k], p) = size /\ Base(k) \in Nat
      BY <1>1, <2>3, <2>5, <3>1, EndsAre DEF Placement
    <3> HIDE DEF from, size, next
    <3>3. from + size <= next
      BY <2>3, <2>4, <2>7, <3>1, <3>2
    <3> QED
      BY <3>3 DEF from, size, next
  <2> QED
    BY <1>1, <1>3, <2>1, <2>2, <2>6, <2>7, PlacesInOrder
<1>4. ASSUME NEW k \in DOMAIN Blocks, NEW p \in Range(Blocks[k].pieces), p.name # LmHead
      PROVE  p \in Range(specs)
  <2>1. PICK n \in DOMAIN Blocks[k].pieces : p = Blocks[k].pieces[n]
    BY DEF Range
  <2>2. p # HeadOf(config)
    BY <1>4 DEF HeadOf, WeightSpec, LmHead
  <2>3. \E i \in DOMAIN specs : p = specs[i]
    BY <1>1, <2>1, <2>2, OnlyRequired
  <2> QED
    BY <2>3 DEF Range
<1> QED
  BY <1>3, <1>4

LEMMA EveryByteRead ==
  ASSUME Complete, NEW spec,
         spec \in Range(RequiredWeights(config)) \cup {HeadOf(config)},
         NEW b \in 0 .. Numel(spec.shape) * ElemBytes - 1,
         NEW source,
         source = IF spec.name = LmHead /\ ~HasHead
                    THEN tensors[<<0, "embed_tokens">>] ELSE tensors[spec.name]
  PROVE  /\ AddressRead(spec) + b \in DOMAIN memory
         /\ memory[AddressRead(spec) + b] = <<source.file, source.begin + b>>
<1> DEFINE specs == RequiredWeights(config)
<1>1. SaneConfig
  BY DEF Complete
<1>2. ASSUME NEW i \in DOMAIN specs, NEW n \in 0 .. Numel(specs[i].shape) * ElemBytes - 1
      PROVE  /\ HasHead \/ specs[i].name # LmHead
             /\ AddressRead(specs[i]) + n \in DOMAIN memory
             /\ memory[AddressRead(specs[i]) + n]
                  = <<tensors[specs[i].name].file, tensors[specs[i].name].begin + n>>
  <2> HIDE DEF specs
  <2>1. PICK k, p : PlacedAt(i, k, p)
    BY <1>1, EveryPlace DEF specs
  <2>2. Placement(k, p, specs[i]) /\ AddressRead(specs[i]) = Base(k) + PieceOffset(Blocks[k], p)
    BY <2>1, PlaceRead DEF specs
  <2>3. HasHead \/ specs[i].name # LmHead
    BY <2>2, BytesOfPiece
  <2>4. AddressRead(specs[i]) + n \in DOMAIN memory
    BY <2>2, ByteOfPiece
  <2>5. memory[AddressRead(specs[i]) + n]
          = <<tensors[specs[i].name].file, tensors[specs[i].name].begin + n>>
    BY <2>2, ByteOfPiece
  <2> QED
    BY <2>3, <2>4, <2>5
<1>3. CASE spec \in Range(specs)
  <2>1. PICK i \in DOMAIN specs : spec = specs[i]
    BY <1>3 DEF Range
  <2>2. source = tensors[spec.name]
    BY <1>2, <2>1
  <2> HIDE DEF specs
  <2> QED
    BY <1>2, <2>1, <2>2
<1>4. CASE spec = HeadOf(config) /\ HasHead
  <2> DEFINE k == 6 * config.layers + 3
  <2>1. Placement(k, 1, spec) /\ AddressRead(spec) = Base(k) + PieceOffset(Blocks[k], 1)
    BY <1>4, HeadRead
  <2>2. source = tensors[spec.name]
    BY <1>4
  <2> HIDE DEF k
  <2>3. AddressRead(spec) + b \in DOMAIN memory
    BY <2>1, ByteOfPiece
  <2>4. memory[AddressRead(spec) + b]
          = <<tensors[spec.name].file, tensors[spec.name].begin + b>>
    BY <2>1, ByteOfPiece
  <2> QED
    BY <2>2, <2>3, <2>4
<1>5. CASE spec = HeadOf(config) /\ ~HasHead
  <2>1. spec.name = LmHead /\ spec.shape = <<config.vocab, config.hidden>>
    BY <1>5 DEF HeadOf, WeightSpec, LmHead
  <2>2. 1 \in DOMAIN specs
        /\ specs[1] = WeightSpec(0, "embed_tokens", <<config.vocab, config.hidden>>)
    <3>1. 9 * config.layers + 2 \in Nat \ {0}
      BY <1>1 DEF SaneConfig, Positive
    <3> QED
      BY <1>1, <3>1, SpecsListed DEF Embedding
  <2>3. specs[1].name = <<0, "embed_tokens">> /\ specs[1].shape = spec.shape
    BY <2>1, <2>2 DEF WeightSpec
  <2>4. AddressRead(spec) = AddressRead(specs[1])
    BY <1>5, HeadRead
  <2>5. source = tensors[specs[1].name]
    BY <1>5, <2>1, <2>3
  <2>6. b \in 0 .. Numel(specs[1].shape) * ElemBytes - 1
    BY <2>3
  <2> HIDE DEF specs
  <2> QED
    BY <1>2, <2>2, <2>4, <2>5, <2>6
<1> QED
  BY <1>3, <1>4, <1>5

(* load_weights and run_layers: for every checkpoint that loads, every     *)
(* byte of every tensor is where the kernels look for it.                  *)
THEOREM WeightsLieWhereRead == Spec => []WeightsWhereRead
<1>1. ArenaInv /\ OutcomeInv /\ PlaceInv => WeightsWhereRead
  <2> SUFFICES ASSUME ArenaInv, OutcomeInv, PlaceInv, status = "ready"
               PROVE  WeightsWhereRead
    BY DEF WeightsWhereRead
  <2>1. Complete
    BY ReadyIsComplete
  <2> QED
    BY <2>1, EveryByteRead DEF WeightsWhereRead
<1>2. Init => ArenaInv /\ OutcomeInv /\ PlaceInv
  BY ArenaInit, OutcomeInit, PlaceInit
<1>3. ArenaInv /\ OutcomeInv /\ PlaceInv /\ [Next]_vars => (ArenaInv /\ OutcomeInv /\ PlaceInv)'
  BY ArenaStep, OutcomeStep, PlaceStep
<1> QED
  BY <1>1, <1>2, <1>3, PTL DEF Spec

(* config.h:71: required_weights lists the tensors in the order they lie   *)
(* in memory, and lists everything that is loaded but the output head.     *)
THEOREM WeightsLieInReadingOrder == Spec => []WeightsInReadingOrder
<1>1. ArenaInv /\ OutcomeInv /\ PlaceInv => WeightsInReadingOrder
  <2> SUFFICES ASSUME ArenaInv, OutcomeInv, PlaceInv, status = "ready"
               PROVE  WeightsInReadingOrder
    BY DEF WeightsInReadingOrder
  <2>1. Complete
    BY ReadyIsComplete
  <2> QED
    BY <2>1, Spread DEF WeightsInReadingOrder
<1>2. Init => ArenaInv /\ OutcomeInv /\ PlaceInv
  BY ArenaInit, OutcomeInit, PlaceInit
<1>3. ArenaInv /\ OutcomeInv /\ PlaceInv /\ [Next]_vars => (ArenaInv /\ OutcomeInv /\ PlaceInv)'
  BY ArenaStep, OutcomeStep, PlaceStep
<1> QED
  BY <1>1, <1>2, <1>3, PTL DEF Spec

=============================================================================
