---------------------------- MODULE ForwardProofs -----------------------------
(***************************************************************************)
(* The forward pass implements Transcript: for every model, window, page   *)
(* size, chunk size and sequence of calls, whichever of their checks       *)
(* throw, the cache holds the tokens absorbed since the last reset and the *)
(* logits are theirs.  First the positions and the fused norm, then the    *)
(* contents.                                                               *)
(***************************************************************************)
EXTENDS Forward, SequenceTheorems, FiniteSetTheorems, TLAPS

-----------------------------------------------------------------------------
(* A set of natural numbers has a least member.                            *)
LEMMA LeastNat ==
  ASSUME NEW S \in SUBSET Nat, S # {}
  PROVE  \E m \in S : \A y \in S : m <= y
<1>1. PICK m \in S : \A y \in S : ~ (<<y, m>> \in OpToRel(<, Nat))
  BY NatLessThanWellFounded, WFMin
<1>2. \A y \in S : ~ (y < m)
  BY <1>1 DEF OpToRel
<1> QED
  BY <1>2

(* Induction: a set closed under successor is everything.                  *)
LEMMA Induct ==
  ASSUME NEW S \in SUBSET Nat, 0 \in S, \A n \in S : n + 1 \in S
  PROVE  S = Nat
<1> SUFFICES ASSUME Nat \ S # {} PROVE FALSE
  OBVIOUS
<1>1. PICK m \in Nat \ S : \A y \in Nat \ S : m <= y
  BY LeastNat
<1>2. m - 1 \in Nat /\ m - 1 \notin Nat \ S
  BY <1>1
<1> QED
  BY <1>1, <1>2

-----------------------------------------------------------------------------
(***************************************************************************)
(* The inductive invariant.  A position is reserved when its chunk starts, *)
(* for as many rows as the chunk has; `Rows' carries that number through   *)
(* the layers to the step that moves the position.  `CallFits' says that   *)
(* the one test at the start of a call covers all its chunks, and behind a *)
(* call that threw only `Lengths' is left.                                 *)
(***************************************************************************)
CallOK ==
  /\ call \in [tokens : Seq(Tokens), consumed : Nat,
               at : {"idle", "chunk", "layers"}, layer : Int]
  /\ call.consumed <= Len(call.tokens)

Lengths ==
  /\ transcript \in Seq(Tokens) /\ position = Len(transcript)
  /\ length \in Nat /\ position <= length

CallFits == call.at # "idle" => position + Remaining <= MaxSeq

Rows ==
  call.at = "layers" =>
    /\ Remaining > 0
    /\ DOMAIN x = 1 .. ChunkSize
    /\ position + ChunkSize <= length

IInv == CallOK /\ Lengths /\ CallFits /\ Rows /\ FusedNormMatches

-----------------------------------------------------------------------------
LEMMA LenOfRows ==
  ASSUME NEW n \in Nat, NEW f, f = [i \in 1 .. n |-> f[i]]
  PROVE  Len(f) = n
<1> DEFINE S == {f[i] : i \in 1 .. n}
<1>1. f \in [1 .. n -> S]
  OBVIOUS
<1>2. f \in Seq(S)
  BY <1>1
<1> QED
  BY <1>1, <1>2, LenProperties

LEMMA Options == MaxSeq \in Nat /\ MaxTokens \in Nat \ {0}
BY ForwardAssumption DEF MaxTokens

LEMMA Counts ==
  ASSUME CallOK
  PROVE  /\ Len(call.tokens) \in Nat /\ call.consumed \in Nat /\ Remaining \in Nat
         /\ ChunkSize \in Nat /\ ChunkSize <= Remaining
         /\ Remaining > 0 => ChunkSize > 0
         /\ call.consumed + Remaining = Len(call.tokens)
<1>1. /\ call.tokens \in Seq(Tokens) /\ call.consumed \in Nat
      /\ call.consumed <= Len(call.tokens)
  BY DEF CallOK
<1>2. Len(call.tokens) \in Nat
  BY <1>1, LenProperties
<1>3. /\ Remaining \in Nat /\ call.consumed + Remaining = Len(call.tokens)
  BY <1>1, <1>2 DEF Remaining
<1> QED
  BY <1>1, <1>2, <1>3, Options DEF ChunkSize

(* The chunk is as long as it says, and made of tokens.                    *)
LEMMA ChunkFacts ==
  ASSUME CallOK
  PROVE  LET c == SubSeq(call.tokens, call.consumed + 1, call.consumed + ChunkSize)
         IN  c \in Seq(Tokens) /\ Len(c) = ChunkSize /\ DOMAIN c = 1 .. ChunkSize
<1> DEFINE c == SubSeq(call.tokens, call.consumed + 1, call.consumed + ChunkSize)
<1>1. /\ call.tokens \in Seq(Tokens) /\ call.consumed \in Nat /\ ChunkSize \in Nat
      /\ Len(call.tokens) \in Nat
      /\ call.consumed + ChunkSize <= Len(call.tokens)
  BY Counts DEF CallOK
<1>2. /\ call.consumed + 1 \in 1 .. Len(call.tokens) + 1
      /\ call.consumed + ChunkSize \in call.consumed .. Len(call.tokens)
  BY <1>1
<1>3. c \in Seq(Tokens) /\ Len(c) = ChunkSize
  BY <1>1, <1>2, SubSeqProperties
<1> QED
  BY <1>3, LenProperties

-----------------------------------------------------------------------------
LEMMA InitIInv == Init => IInv
<1> SUFFICES ASSUME Init PROVE IInv
  OBVIOUS
<1>1. /\ position = 0 /\ transcript = << >> /\ length = 0
      /\ call = [tokens |-> << >>, consumed |-> 0, at |-> "idle", layer |-> 0]
  BY DEF Init, Idle, Kv!Init
<1>2. << >> \in Seq(Tokens) /\ Len(<< >>) = 0
  BY EmptySeq
<1> QED
  BY <1>1, <1>2 DEF IInv, CallOK, Lengths, CallFits, Rows, FusedNormMatches

(* A call begins: the test at its start is CallFits.                       *)
LEMMA BeginStep ==
  ASSUME IInv, NEW tokens \in Seq(Tokens), position + Len(tokens) <= MaxSeq, Begin(tokens)
  PROVE  IInv'
<1>1. /\ call' = [tokens |-> tokens, consumed |-> 0, at |-> "chunk", layer |-> 0]
      /\ UNCHANGED <<length, position, transcript>>
  BY DEF Begin, cacheVars
<1>2. Len(tokens) \in Nat
  BY LenProperties
<1>3. CallOK'
  BY <1>1, <1>2 DEF CallOK
<1>4. Lengths'
  BY <1>1 DEF IInv, Lengths
<1>5. CallFits'
  <2>1. Remaining' = Len(tokens) - 0
    BY <1>1 DEF Remaining
  <2> QED
    BY <1>1, <1>2, <2>1 DEF CallFits
<1>6. Rows' /\ FusedNormMatches'
  BY <1>1 DEF Rows, FusedNormMatches
<1> QED
  BY <1>3, <1>4, <1>5, <1>6 DEF IInv

LEMMA PrefillStep ==
  ASSUME IInv, NEW n \in 1 .. MaxSeq, NEW tokens \in [1 .. n -> Tokens], Prefill(tokens)
  PROVE  IInv'
<1>1. tokens \in Seq(Tokens)
  BY Options
<1> QED
  BY <1>1, BeginStep DEF Prefill

LEMMA DecodeStep ==
  ASSUME IInv, NEW token \in Tokens, Decode(token)
  PROVE  IInv'
<1>1. <<token>> \in Seq(Tokens) /\ Len(<<token>>) = 1
  OBVIOUS
<1>2. position \in Nat /\ MaxSeq \in Nat /\ position < MaxSeq
  BY Options, LenProperties DEF Decode, IInv, Lengths
<1>3. position + Len(<<token>>) <= MaxSeq
  BY <1>1, <1>2
<1> QED
  BY <1>1, <1>3, BeginStep DEF Decode

LEMMA ResetStep ==
  ASSUME IInv, Reset
  PROVE  IInv'
<1>1. /\ call.at = "idle" /\ position' = 0 /\ transcript' = << >>
      /\ call' = call /\ length' = length
  BY DEF Reset, cacheVars
<1>2. << >> \in Seq(Tokens) /\ Len(<< >>) = 0
  BY EmptySeq
<1> QED
  BY <1>1, <1>2 DEF IInv, CallOK, Lengths, CallFits, Rows, FusedNormMatches

(* Whatever throws, the call is over, and the length and the position are  *)
(* those before it.                                                        *)
LEMMA ThrowStep ==
  ASSUME IInv, Throw
  PROVE  IInv'
<1>1. /\ call' = [tokens |-> << >>, consumed |-> 0, at |-> "idle", layer |-> 0]
      /\ UNCHANGED <<length, position, transcript>>
  BY DEF Throw, Idle, cacheVars, Kv!PoolExhausted, Kv!CopyFails
<1>2. << >> \in Seq(Tokens) /\ Len(<< >>) = 0
  BY EmptySeq
<1> QED
  BY <1>1, <1>2 DEF IInv, CallOK, Lengths, CallFits, Rows, FusedNormMatches

-----------------------------------------------------------------------------
(* reserve_length returned: the chunk's positions are below the length,    *)
(* which did not shrink.                                                   *)
LEMMA ReserveFacts ==
  ASSUME NEW n \in Nat, length \in Nat, Reserve(n)
  PROVE  length' \in Nat /\ n <= length' /\ length <= length'
<1>1. CASE Kv!ReserveLength(n)
  BY <1>1 DEF Kv!ReserveLength
<1>2. CASE n <= length /\ UNCHANGED cacheVars
  BY <1>2 DEF cacheVars
<1> QED
  BY <1>1, <1>2 DEF Reserve

LEMMA StartChunkStep ==
  ASSUME IInv, StartChunk
  PROVE  IInv'
<1>1. /\ call.at = "chunk" /\ Remaining > 0 /\ Reserve(position + ChunkSize)
      /\ x' = SubSeq(call.tokens, call.consumed + 1, call.consumed + ChunkSize)
      /\ normDone' = FALSE
      /\ call' = [call EXCEPT !.at = "layers", !.layer = 0]
      /\ UNCHANGED <<position, transcript>>
  BY DEF StartChunk, ReservedEnd, Chunk, NormDoneAtStart
<1>2. /\ position \in Nat /\ length \in Nat /\ ChunkSize \in Nat /\ position <= length
  BY Counts, LenProperties DEF IInv, Lengths
<1>3. length' \in Nat /\ position + ChunkSize <= length' /\ length <= length'
  BY <1>1, <1>2, ReserveFacts
<1>4. /\ call' \in [tokens : Seq(Tokens), consumed : Nat,
                    at : {"idle", "chunk", "layers"}, layer : Int]
      /\ call'.tokens = call.tokens /\ call'.consumed = call.consumed /\ call'.at = "layers"
  <2>1. call \in [tokens : Seq(Tokens), consumed : Nat,
                  at : {"idle", "chunk", "layers"}, layer : Int]
    BY DEF IInv, CallOK
  <2>2. call' = [tokens |-> call.tokens, consumed |-> call.consumed,
                 at |-> "layers", layer |-> 0]
    BY <1>1, <2>1
  <2> QED
    BY <2>1, <2>2
<1>5. Remaining' = Remaining /\ ChunkSize' = ChunkSize
  BY <1>4 DEF Remaining, ChunkSize, MaxTokens
<1>6. CallOK'
  BY <1>4 DEF IInv, CallOK
<1>7. Lengths'
  <2>1. position <= length'
    BY <1>2, <1>3
  <2> QED
    BY <1>1, <1>3, <2>1 DEF IInv, Lengths
<1>8. CallFits'
  BY <1>1, <1>5 DEF IInv, CallFits
<1>9. Rows'
  BY <1>1, <1>3, <1>5, ChunkFacts DEF IInv, Rows
<1>10. FusedNormMatches'
  BY <1>1 DEF FusedNormMatches
<1> QED
  BY <1>6, <1>7, <1>8, <1>9, <1>10 DEF IInv

LEMMA RunLayerStep ==
  ASSUME IInv, NEW l \in 0 .. NumLayers - 1, RunLayer(l)
  PROVE  IInv'
<1>1. /\ call.at = "layers" /\ call.layer = l
      /\ normDone' = TRUE
      /\ call' = [call EXCEPT !.layer = l + 1]
      /\ UNCHANGED <<position, transcript, length>>
  BY DEF RunLayer, Kv!WriteKv
<1>2. /\ DOMAIN x' = DOMAIN x
      /\ normed' = [i \in DOMAIN x |-> T!Norm(l + 1, x'[i])]
  BY DEF RunLayer, NextNorm
<1>3. /\ call' \in [tokens : Seq(Tokens), consumed : Nat,
                    at : {"idle", "chunk", "layers"}, layer : Int]
      /\ call'.tokens = call.tokens /\ call'.consumed = call.consumed /\ call'.at = "layers"
      /\ call'.layer = l + 1
  BY <1>1 DEF IInv, CallOK
<1>4. Remaining' = Remaining /\ ChunkSize' = ChunkSize
  BY <1>3 DEF Remaining, ChunkSize, MaxTokens
<1>5. CallOK' /\ Lengths'
  BY <1>1, <1>3 DEF IInv, CallOK, Lengths
<1>6. CallFits'
  BY <1>1, <1>4 DEF IInv, CallFits
<1>7. Rows'
  BY <1>1, <1>2, <1>4 DEF IInv, Rows
<1>8. FusedNormMatches'
  BY <1>2, <1>3 DEF FusedNormMatches
<1> QED
  BY <1>5, <1>6, <1>7, <1>8 DEF IInv

(* The position moves by as many rows as were reserved and computed.       *)
LEMMA FinishChunkStep ==
  ASSUME IInv, FinishChunk
  PROVE  IInv'
<1>1. /\ call.at = "layers"
      /\ position' = position + Len(x)
      /\ transcript' = transcript \o SubSeq(call.tokens, call.consumed + 1,
                                            call.consumed + Len(x))
      /\ call' = [call EXCEPT !.at = "chunk", !.consumed = @ + Len(x)]
      /\ length' = length
  BY DEF FinishChunk, cacheVars
<1>2. /\ ChunkSize \in Nat /\ Remaining \in Nat /\ ChunkSize <= Remaining
      /\ call.consumed \in Nat /\ Len(call.tokens) \in Nat
      /\ call.consumed + Remaining = Len(call.tokens)
  BY Counts DEF IInv
<1>3. Len(x) = ChunkSize
  <2>1. DOMAIN x = 1 .. ChunkSize
    BY <1>1 DEF IInv, Rows
  <2> QED
    BY <1>2, <2>1
<1>4. /\ transcript \in Seq(Tokens) /\ position = Len(transcript) /\ length \in Nat
      /\ position \in Nat /\ position + ChunkSize <= length
      /\ position + Remaining <= MaxSeq
  BY <1>1, LenProperties DEF IInv, Lengths, Rows, CallFits
<1>5. /\ call' \in [tokens : Seq(Tokens), consumed : Nat,
                    at : {"idle", "chunk", "layers"}, layer : Int]
      /\ call'.tokens = call.tokens /\ call'.at = "chunk"
      /\ call'.consumed = call.consumed + ChunkSize
  <2>1. call.consumed + ChunkSize \in Nat
    BY <1>2
  <2> QED
    BY <1>1, <1>3, <2>1 DEF IInv, CallOK
<1>6. CallOK'
  <2>1. call.consumed + ChunkSize <= Len(call.tokens)
    BY <1>2
  <2> QED
    BY <1>5, <2>1 DEF CallOK
<1>7. Lengths'
  <2> DEFINE c == SubSeq(call.tokens, call.consumed + 1, call.consumed + ChunkSize)
  <2>1. c \in Seq(Tokens) /\ Len(c) = ChunkSize
    BY ChunkFacts DEF IInv
  <2>2. transcript' = transcript \o c
    BY <1>1, <1>3
  <2> HIDE DEF c
  <2>3. transcript' \in Seq(Tokens) /\ Len(transcript') = position + ChunkSize
    BY <1>4, <2>1, <2>2, ConcatProperties
  <2> QED
    BY <1>1, <1>3, <1>4, <2>3 DEF Lengths
<1>8. CallFits'
  <2>1. Remaining' = Remaining - ChunkSize
    <3>1. Len(call.tokens) - (call.consumed + ChunkSize)
            = (Len(call.tokens) - call.consumed) - ChunkSize
      BY <1>2
    <3> QED
      BY <1>5, <3>1 DEF Remaining
  <2>2. (position + ChunkSize) + (Remaining - ChunkSize) <= MaxSeq
    BY <1>2, <1>4, Options
  <2> QED
    BY <1>1, <1>3, <2>1, <2>2 DEF CallFits
<1>9. Rows' /\ FusedNormMatches'
  BY <1>5 DEF Rows, FusedNormMatches
<1> QED
  BY <1>6, <1>7, <1>8, <1>9 DEF IInv

LEMMA QuietStep ==
  ASSUME IInv, Return \/ UNCHANGED vars
  PROVE  IInv'
<1>1. CASE Return
  <2>1. /\ call' = [tokens |-> << >>, consumed |-> 0, at |-> "idle", layer |-> 0]
        /\ UNCHANGED <<length, position, transcript>>
    BY <1>1 DEF Return, Idle, cacheVars
  <2>2. << >> \in Seq(Tokens) /\ Len(<< >>) = 0
    BY EmptySeq
  <2> QED
    BY <2>1, <2>2 DEF IInv, CallOK, Lengths, CallFits, Rows, FusedNormMatches
<1>2. CASE UNCHANGED vars
  BY <1>2 DEF vars, cacheVars, IInv, CallOK, Lengths, CallFits, Rows, FusedNormMatches,
              Remaining, ChunkSize
<1> QED
  BY <1>1, <1>2

LEMMA NextIInv == IInv /\ [Next]_vars => IInv'
BY PrefillStep, DecodeStep, ResetStep, ThrowStep, StartChunkStep, RunLayerStep,
   FinishChunkStep, QuietStep DEF Next, Step

LEMMA IInvAlways == Spec => []IInv
BY InitIInv, NextIInv, PTL DEF Spec

-----------------------------------------------------------------------------
(* model.cu:332 and 362: every position of the sequence and of the chunk   *)
(* under way is reserved before a kernel touches it, after failed calls    *)
(* and resets too, and the position never strays from the tokens absorbed. *)
THEOREM PositionsReserved == Spec => []PositionReserved
<1>1. IInv => PositionReserved
  <2> SUFFICES ASSUME IInv PROVE PositionReserved
    OBVIOUS
  <2>1. ASSUME call.at = "layers" PROVE position + Len(x) <= length
    <3>1. DOMAIN x = 1 .. ChunkSize /\ position + ChunkSize <= length /\ ChunkSize \in Nat
      BY <2>1, Counts DEF IInv, Rows
    <3> QED
      BY <3>1
  <2> QED
    BY <2>1 DEF IInv, Lengths, PositionReserved
<1> QED
  BY <1>1, IInvAlways, PTL

(* model.cu:444: the norm one layer computes ahead is consumed by the next *)
(* layer of the same call only, on the rows it was computed from, however  *)
(* an earlier call ended.                                                  *)
THEOREM FusedNormAlwaysMatches == Spec => []FusedNormMatches
<1>1. IInv => FusedNormMatches
  BY DEF IInv
<1> QED
  BY <1>1, IInvAlways, PTL

(* model.cu:311 and 348: the test at the start of a call covers all of its *)
(* chunks, so the one in reserve_length never refuses it.                  *)
THEOREM ChunksFit == Spec => [](call.at = "chunk" /\ Remaining > 0 => ReservedEnd <= MaxSeq)
<1>1. IInv => (call.at = "chunk" /\ Remaining > 0 => ReservedEnd <= MaxSeq)
  <2> SUFFICES ASSUME IInv, call.at = "chunk" PROVE position + ChunkSize <= MaxSeq
    BY DEF ReservedEnd
  <2>1. /\ position \in Nat /\ ChunkSize \in Nat /\ Remaining \in Nat /\ MaxSeq \in Nat
        /\ ChunkSize <= Remaining /\ position + Remaining <= MaxSeq
    BY Counts, Options, LenProperties DEF IInv, Lengths, CallFits
  <2> QED
    BY <2>1
<1> QED
  BY <1>1, IInvAlways, PTL

-----------------------------------------------------------------------------
(***************************************************************************)
(* The reference of Transcript, layer by layer: Residual is a recursive    *)
(* function, and a function that satisfies its equation exists because one *)
(* that satisfies it up to some layer can be extended by the next.         *)
(***************************************************************************)
LayerOf(t, l, below) ==
  [i \in 1 .. Len(t) |->
     T!Join(below[i], T!Norm(l, below[i]), i - 1,
            [q \in 1 .. i |-> T!KvOf(T!Norm(l, below[q]), q - 1)])]

IsStream(f, t, n) ==
  f = [l \in 0 .. n |-> IF l = 0 THEN t ELSE LayerOf(t, l - 1, f[l - 1])]

LEMMA StreamExists ==
  ASSUME NEW t, NEW n \in Nat
  PROVE  \E f : IsStream(f, t, n)
<1> DEFINE S == {m \in Nat : \E f : IsStream(f, t, m)}
<1>1. 0 \in S
  <2> DEFINE f == [l \in 0 .. 0 |-> t]
  <2>1. IsStream(f, t, 0)
    BY DEF IsStream
  <2> QED
    BY <2>1
<1>2. ASSUME NEW m \in S PROVE m + 1 \in S
  <2>1. PICK f : IsStream(f, t, m)
    OBVIOUS
  <2> DEFINE top == LayerOf(t, m, f[m])
             g == [l \in 0 .. m + 1 |-> IF l = m + 1 THEN top ELSE f[l]]
  <2>2. \A l \in 0 .. m : f[l] = IF l = 0 THEN t ELSE LayerOf(t, l - 1, f[l - 1])
    BY <2>1 DEF IsStream
  <2> HIDE DEF top
  <2>3. \A l \in 0 .. m : g[l] = f[l]
    OBVIOUS
  <2>4. g[m + 1] = LayerOf(t, m, g[m])
    BY <2>3 DEF top
  <2>5. \A l \in 0 .. m + 1 : g[l] = IF l = 0 THEN t ELSE LayerOf(t, l - 1, g[l - 1])
    <3> SUFFICES ASSUME NEW l \in 0 .. m + 1
                 PROVE  g[l] = IF l = 0 THEN t ELSE LayerOf(t, l - 1, g[l - 1])
      OBVIOUS
    <3> HIDE DEF g
    <3>1. CASE l = m + 1
      BY <3>1, <2>4
    <3>2. CASE l = 0
      BY <3>2, <2>2, <2>3
    <3>3. CASE l \in 1 .. m
      <4>1. l \in 0 .. m /\ l - 1 \in 0 .. m
        BY <3>3
      <4> QED
        BY <3>3, <4>1, <2>2, <2>3
    <3> QED
      BY <3>1, <3>2, <3>3
  <2>6. IsStream(g, t, m + 1)
    BY <2>5 DEF IsStream
  <2> QED
    BY <2>6
<1> HIDE DEF S
<1>3. S \in SUBSET Nat
  BY DEF S
<1>4. S = Nat
  BY <1>1, <1>2, <1>3, Induct
<1> QED
  BY <1>4 DEF S

LEMMA ResidualIsStream ==
  ASSUME NEW t
  PROVE  IsStream(T!Residual(t), t, NumLayers)
<1>1. NumLayers \in Nat
  BY ForwardAssumption
<1>2. PICK f : IsStream(f, t, NumLayers)
  BY <1>1, StreamExists
<1> QED
  BY <1>2 DEF T!Residual, IsStream, LayerOf

(* The equation, without the recursion.                                    *)
LEMMA ResidualRows ==
  ASSUME NEW t
  PROVE  /\ T!Residual(t)[0] = t
         /\ \A l \in 0 .. NumLayers - 1 : T!Residual(t)[l + 1] = LayerOf(t, l, T!Residual(t)[l])
<1> DEFINE R == T!Residual(t)
<1>1. R = [l \in 0 .. NumLayers |-> IF l = 0 THEN t ELSE LayerOf(t, l - 1, R[l - 1])]
  BY ResidualIsStream DEF IsStream
<1>2. NumLayers \in Nat
  BY ForwardAssumption
<1> HIDE DEF R
<1>3. R[0] = t
  BY <1>1, <1>2
<1>4. ASSUME NEW l \in 0 .. NumLayers - 1 PROVE R[l + 1] = LayerOf(t, l, R[l])
  <2>1. l + 1 \in 0 .. NumLayers /\ l + 1 # 0 /\ (l + 1) - 1 = l
    BY <1>2
  <2>2. R[l + 1] = IF l + 1 = 0 THEN t ELSE LayerOf(t, (l + 1) - 1, R[(l + 1) - 1])
    BY <1>1, <2>1
  <2> QED
    BY <2>1, <2>2
<1> QED
  BY <1>3, <1>4 DEF R

(* What a position holds depends on the tokens up to it only.              *)
LEMMA ResidualIsCausal ==
  ASSUME NEW t, NEW u, Len(t) \in Nat, Len(u) \in Nat, Len(t) <= Len(u),
         \A i \in 1 .. Len(t) : u[i] = t[i]
  PROVE  \A l \in 0 .. NumLayers : \A i \in 1 .. Len(t) :
           T!Residual(u)[l][i] = T!Residual(t)[l][i]
<1> DEFINE R == T!Residual(t)
           Q == T!Residual(u)
           S == {m \in Nat : m <= NumLayers => \A i \in 1 .. Len(t) : Q[m][i] = R[m][i]}
<1>1. 0 \in S
  BY ResidualRows
<1>2. ASSUME NEW m \in S PROVE m + 1 \in S
  <2> SUFFICES ASSUME m + 1 <= NumLayers, NEW i \in 1 .. Len(t) PROVE Q[m + 1][i] = R[m + 1][i]
    OBVIOUS
  <2>1. m \in 0 .. NumLayers - 1 /\ m <= NumLayers
    BY ForwardAssumption
  <2>2. R[m + 1] = LayerOf(t, m, R[m]) /\ Q[m + 1] = LayerOf(u, m, Q[m])
    BY <2>1, ResidualRows
  <2>3. \A q \in 1 .. Len(t) : Q[m][q] = R[m][q]
    BY <2>1
  <2> HIDE DEF Q, R, S
  <2>4. i \in 1 .. Len(u) /\ \A q \in 1 .. i : Q[m][q] = R[m][q]
    BY <2>3
  <2> QED
    BY <2>2, <2>3, <2>4 DEF LayerOf
<1> HIDE DEF S
<1>3. S \in SUBSET Nat
  BY DEF S
<1>4. S = Nat
  BY <1>1, <1>2, <1>3, Induct
<1> QED
  BY <1>4, ForwardAssumption DEF S

-----------------------------------------------------------------------------
(***************************************************************************)
(* The proofs about the cache, for the cache of the forward pass.  `Cache' is *)
(* the same instance as `Kv', and its definitions have the same bodies.    *)
(***************************************************************************)
Cache == INSTANCE KvCacheProofs WITH Values <- {}, CopyMayFail <- CallsMayFail

LEMMA CacheAssumption == Cache!KvAssumption
BY ForwardAssumption DEF Cache!KvAssumption


LEMMA SameReads ==
  ASSUME NEW l, NEW p
  PROVE  /\ Kv!ReadKv(l, p) = Cache!ReadKv(l, p)
         /\ Kv!ReadKv(l, p)' = Cache!ReadKv(l, p)'
BY DEF Kv!ReadKv, Cache!ReadKv, Kv!PhysicalPage, Cache!PhysicalPage, Kv!SlotOf, Cache!SlotOf,
       Kv!PageSize, Cache!PageSize, Kv!Unmapped, Cache!Unmapped

LEMMA SameInit == Kv!Init => Cache!Init
BY DEF Kv!Init, Cache!Init, Kv!Layer, Cache!Layer, Kv!Page, Cache!Page,
       Kv!PoolPage, Cache!PoolPage, Kv!Slot, Cache!Slot, Kv!PoolPages, Cache!PoolPages,
       Kv!MaxPages, Cache!MaxPages, Kv!PageSize, Cache!PageSize,
       Kv!CeilDiv, Cache!CeilDiv,
       Kv!Unmapped, Cache!Unmapped

LEMMA SameCalls ==
  ASSUME NEW n
  PROVE  /\ Kv!ReserveLength(n) => Cache!ReserveLength(n)
         /\ Kv!PoolExhausted(n) => Cache!PoolExhausted(n)
         /\ Kv!CopyFails(n) => Cache!CopyFails(n)
<1> USE DEF Kv!Layer, Cache!Layer, Kv!Page, Cache!Page,
       Kv!PoolPages, Cache!PoolPages, Kv!MaxPages, Cache!MaxPages,
       Kv!PageSize, Cache!PageSize, Kv!CeilDiv, Cache!CeilDiv, Kv!Have, Cache!Have,
       Kv!Need, Cache!Need, Kv!Wanted, Cache!Wanted, Kv!Room, Cache!Room,
       Kv!LengthFits, Cache!LengthFits, Kv!MapPages, Cache!MapPages, Kv!Rank, Cache!Rank,
       Kv!Copied, Cache!Copied
<1>1. Kv!ReserveLength(n) => Cache!ReserveLength(n)
  BY DEF Kv!ReserveLength, Cache!ReserveLength
<1>2. Kv!PoolExhausted(n) => Cache!PoolExhausted(n)
  BY DEF Kv!PoolExhausted, Cache!PoolExhausted
<1>3. Kv!CopyFails(n) => Cache!CopyFails(n)
  BY DEF Kv!CopyFails, Cache!CopyFails
<1> QED
  BY <1>1, <1>2, <1>3

LEMMA SameWrite ==
  ASSUME NEW l, NEW start, NEW vals
  PROVE  Kv!WriteKv(l, start, vals) => Cache!WriteKv(l, start, vals)
BY DEF Kv!WriteKv, Cache!WriteKv, Kv!PoolPage, Cache!PoolPage, Kv!Slot, Cache!Slot,
       Kv!PoolPages, Cache!PoolPages, Kv!MaxPages, Cache!MaxPages, Kv!PageSize, Cache!PageSize,
       Kv!CeilDiv, Cache!CeilDiv,
       Kv!PhysicalPage, Cache!PhysicalPage, Kv!SlotOf, Cache!SlotOf

Layers == 0 .. NumLayers - 1

(* What a reserved position reads, in the terms of Forward.                *)
ReadsKept ==
  \A l \in Layers : \A p \in 0 .. length - 1 : Kv!ReadKv(l, p)' = Kv!ReadKv(l, p)

LEMMA KeptReads ==
  ASSUME Cache!IInv,
         \/ UNCHANGED cacheVars
         \/ \E n \in Nat \ {0} : \/ Kv!ReserveLength(n)
                                 \/ Kv!PoolExhausted(n)
                                 \/ Kv!CopyFails(n)
  PROVE  Cache!IInv' /\ ReadsKept
<1>1. CASE UNCHANGED cacheVars
  <2>1. UNCHANGED Cache!vars
    BY <1>1 DEF cacheVars, Cache!vars
  <2>2. Cache!IInv'
    BY <2>1, CacheAssumption, Cache!NextIInv
  <2>3. ReadsKept
    BY <1>1 DEF cacheVars, ReadsKept, Kv!ReadKv, Kv!PhysicalPage
  <2> QED
    BY <2>2, <2>3
<1>2. ASSUME NEW n \in Nat \ {0},
             Kv!ReserveLength(n) \/ Kv!PoolExhausted(n) \/ Kv!CopyFails(n)
      PROVE  Cache!IInv' /\ ReadsKept
  <2>1. Cache!ReserveLength(n) \/ Cache!PoolExhausted(n) \/ Cache!CopyFails(n)
    BY <1>2, SameCalls
  <2>2. n \in 1 .. MaxSeq
    BY <1>2, Options DEF Kv!ReserveLength, Kv!PoolExhausted, Kv!CopyFails, Kv!LengthFits
  <2>3. Cache!IInv'
    BY <2>1, <2>2, CacheAssumption, Cache!ReserveStep, Cache!ExhaustedStep, Cache!CopyFailsStep
  <2>4. ASSUME NEW l \in Layers, NEW p \in 0 .. length - 1
        PROVE  Kv!ReadKv(l, p)' = Kv!ReadKv(l, p)
    <3>1. l \in Cache!Layer /\ p \in Cache!Reserved
      BY DEF Layers, Cache!Layer, Cache!Reserved
    <3>2. Cache!ReadKv(l, p)' = Cache!ReadKv(l, p)
      BY <2>1, <3>1, CacheAssumption, Cache!CallsKeepReads DEF Cache!IInv
    <3> QED
      BY <3>2, SameReads
  <2> QED
    BY <2>3, <2>4 DEF ReadsKept
<1> QED
  BY <1>1, <1>2

(* A kernel changes the positions it writes, and no other.                 *)
LEMMA WrittenReads ==
  ASSUME Cache!IInv, NEW l \in Layers, NEW start \in Nat, NEW n \in Nat,
         NEW vals, Len(vals) = n, start + n <= length, Kv!WriteKv(l, start, vals)
  PROVE  /\ Cache!IInv'
         /\ \A m \in Layers : \A p \in 0 .. length - 1 :
              Kv!ReadKv(m, p)' = IF m = l /\ p \in start .. start + n - 1
                                   THEN vals[p - start + 1] ELSE Kv!ReadKv(m, p)
<1>1. Cache!WriteKv(l, start, vals)
  BY SameWrite
<1>2. Cache!IInv'
  BY <1>1, CacheAssumption, Cache!WriteStep
<1>3. ASSUME NEW m \in Layers, NEW p \in 0 .. length - 1
      PROVE  Kv!ReadKv(m, p)' = IF m = l /\ p \in start .. start + n - 1
                                  THEN vals[p - start + 1] ELSE Kv!ReadKv(m, p)
  <2>1. l \in Cache!Layer /\ m \in Cache!Layer /\ p \in Cache!Reserved
    BY DEF Layers, Cache!Layer, Cache!Reserved
  <2>2. Cache!ReadKv(m, p)' = IF m = l /\ p \in start .. start + n - 1
                                THEN vals[p - start + 1] ELSE Cache!ReadKv(m, p)
    BY <1>1, <2>1, CacheAssumption, Cache!WriteReads
  <2>3. Cache!ReadKv(m, p)' = Kv!ReadKv(m, p)' /\ Cache!ReadKv(m, p) = Kv!ReadKv(m, p)
    BY SameReads
  <2> QED
    BY <2>2, <2>3
<1> QED
  BY <1>2, <1>3

-----------------------------------------------------------------------------
(***************************************************************************)
(* The invariant about contents.  While a chunk is at some layer, x_ holds *)
(* the residual stream below that layer for the rows of the chunk, and the *)
(* caches of the layers below it hold the chunk as well as the transcript; *)
(* the others hold the transcript, at whose positions nothing is written.  *)
(***************************************************************************)
Context == transcript \o Chunk

Holds(tokens, l, upto) ==
  \A p \in 0 .. upto - 1 :
    Kv!ReadKv(l, p) = T!KvOf(T!Norm(l, T!Residual(tokens)[l][p + 1]), p)

Computed ==
  call.at = "layers" =>
    /\ call.layer \in 0 .. NumLayers
    /\ x = [i \in 1 .. ChunkSize |-> T!Residual(Context)[call.layer][position + i]]
    /\ \A l \in 0 .. call.layer - 1 : Holds(Context, l, position + ChunkSize)

StreamInv == IInv /\ Cache!IInv /\ CacheHoldsTranscript /\ Computed

LEMMA ContextFacts ==
  ASSUME IInv
  PROVE  /\ Context \in Seq(Tokens) /\ Len(Context) = position + ChunkSize
         /\ position \in Nat /\ ChunkSize \in Nat /\ Len(transcript) = position
         /\ \A i \in 1 .. position : Context[i] = transcript[i]
         /\ \A i \in 1 .. ChunkSize : Context[position + i] = Chunk[i]
<1>1. transcript \in Seq(Tokens) /\ Len(transcript) = position /\ position \in Nat
  BY LenProperties DEF IInv, Lengths
<1>2. Chunk \in Seq(Tokens) /\ Len(Chunk) = ChunkSize /\ ChunkSize \in Nat
  BY ChunkFacts, Counts DEF IInv, Chunk
<1> HIDE DEF Chunk, ChunkSize
<1>3. /\ Context \in Seq(Tokens) /\ Len(Context) = position + ChunkSize
      /\ \A i \in 1 .. position + ChunkSize :
           Context[i] = IF i <= position THEN transcript[i] ELSE Chunk[i - position]
  BY <1>1, <1>2, ConcatProperties DEF Context
<1>4. ASSUME NEW i \in 1 .. ChunkSize PROVE Context[position + i] = Chunk[i]
  <2>1. position + i \in 1 .. position + ChunkSize /\ ~ (position + i <= position)
        /\ (position + i) - position = i
    BY <1>1, <1>2
  <2> QED
    BY <1>3, <2>1
<1>5. ASSUME NEW i \in 1 .. position PROVE Context[i] = transcript[i]
  BY <1>1, <1>2, <1>3
<1> QED
  BY <1>1, <1>2, <1>3, <1>4, <1>5

(* A step that leaves the call where it was leaves the chunk.              *)
LEMMA ContextKept ==
  ASSUME UNCHANGED transcript, call'.tokens = call.tokens, call'.consumed = call.consumed
  PROVE  ChunkSize' = ChunkSize /\ Chunk' = Chunk /\ Context' = Context
<1>1. ChunkSize' = ChunkSize
  BY DEF ChunkSize, MaxTokens, Remaining
<1>2. Chunk' = Chunk
  BY <1>1 DEF Chunk
<1> QED
  BY <1>1, <1>2 DEF Context

(* The chunk does not change what the positions before it hold.            *)
LEMMA ContextExtends ==
  ASSUME IInv, NEW l \in 0 .. NumLayers, NEW p \in 0 .. position - 1
  PROVE  T!Residual(Context)[l][p + 1] = T!Residual(transcript)[l][p + 1]
<1>1. /\ Len(transcript) \in Nat /\ Len(Context) \in Nat /\ Len(transcript) <= Len(Context)
      /\ \A i \in 1 .. Len(transcript) : Context[i] = transcript[i]
      /\ p + 1 \in 1 .. Len(transcript)
  BY ContextFacts
<1> QED
  BY <1>1, ResidualIsCausal

(* What keeps the reads and the position keeps the transcript.             *)
LEMMA HoldsKept ==
  ASSUME IInv, CacheHoldsTranscript, ReadsKept,
         \/ UNCHANGED <<position, transcript>>
         \/ position' = 0
  PROVE  CacheHoldsTranscript'
<1>1. CASE position' = 0
  BY <1>1 DEF CacheHoldsTranscript
<1>2. CASE UNCHANGED <<position, transcript>>
  <2> SUFFICES ASSUME NEW l \in 0 .. NumLayers - 1, NEW p \in 0 .. position - 1
               PROVE  Kv!ReadKv(l, p)' = T!KvOf(T!Norm(l, T!Residual(transcript)[l][p + 1]), p)
    BY <1>2 DEF CacheHoldsTranscript
  <2>1. p \in 0 .. length - 1
    BY LenProperties DEF IInv, Lengths
  <2>2. Kv!ReadKv(l, p)' = Kv!ReadKv(l, p)
    BY <2>1 DEF ReadsKept, Layers
  <2> QED
    BY <2>2 DEF CacheHoldsTranscript
<1> QED
  BY <1>1, <1>2

(* A chunk starts with its tokens: the stream below layer zero.            *)
LEMMA StartChunkStream ==
  ASSUME StreamInv, IInv', StartChunk
  PROVE  StreamInv'
<1>1. /\ call.at = "chunk" /\ Remaining > 0 /\ Reserve(position + ChunkSize)
      /\ x' = Chunk
      /\ call' = [call EXCEPT !.at = "layers", !.layer = 0]
      /\ UNCHANGED <<position, transcript>>
  BY DEF StartChunk, ReservedEnd
<1>2. position \in Nat /\ ChunkSize \in Nat \ {0}
  BY <1>1, Counts, ContextFacts DEF StreamInv, IInv
<1>3. Cache!IInv' /\ ReadsKept
  <2>1. position + ChunkSize \in Nat \ {0}
    BY <1>2
  <2> QED
    BY <1>1, <2>1, KeptReads DEF Reserve, StreamInv
<1>4. CacheHoldsTranscript'
  BY <1>1, <1>3, HoldsKept DEF StreamInv
<1>5. Computed'
  <2>1. /\ call'.tokens = call.tokens /\ call'.consumed = call.consumed
        /\ call'.layer = 0
    BY <1>1 DEF StreamInv, IInv, CallOK
  <2>2. Chunk' = Chunk /\ ChunkSize' = ChunkSize /\ Context' = Context
    BY <1>1, <2>1, ContextKept
  <2>3. T!Residual(Context)[0] = Context
    BY ResidualRows
  <2>4. Chunk = [i \in 1 .. ChunkSize |-> Context[position + i]]
    <3>1. DOMAIN Chunk = 1 .. ChunkSize /\ Chunk \in Seq(Tokens)
      BY ChunkFacts DEF StreamInv, IInv, Chunk
    <3>2. Chunk = [i \in 1 .. ChunkSize |-> Chunk[i]]
      BY <3>1
    <3> QED
      BY <3>2, ContextFacts DEF StreamInv
  <2>5. x' = [i \in 1 .. ChunkSize' |-> T!Residual(Context')[call'.layer][position' + i]]
    BY <1>1, <2>1, <2>2, <2>3, <2>4
  <2> QED
    BY <2>1, <2>5, ForwardAssumption DEF Computed
<1> QED
  BY <1>3, <1>4, <1>5 DEF StreamInv

LEMMA QuietStream ==
  ASSUME StreamInv, IInv', UNCHANGED cacheVars, call'.at # "layers",
         UNCHANGED <<position, transcript>> \/ position' = 0
  PROVE  StreamInv'
<1>1. Cache!IInv' /\ ReadsKept
  BY KeptReads DEF StreamInv
<1> QED
  BY <1>1, HoldsKept DEF StreamInv, Computed

(* A throw may have handed out pages, but of no reserved position.         *)
LEMMA ThrowStream ==
  ASSUME StreamInv, IInv', Throw
  PROVE  StreamInv'
<1>1. call'.at # "layers" /\ UNCHANGED <<position, transcript>>
  BY DEF Throw, Idle
<1>2. Cache!IInv' /\ ReadsKept
  <2>1. ASSUME call.at = "chunk", Remaining > 0,
               Kv!PoolExhausted(ReservedEnd) \/ Kv!CopyFails(ReservedEnd)
        PROVE  Cache!IInv' /\ ReadsKept
    <3>1. ReservedEnd \in Nat \ {0}
      BY <2>1, Counts, ContextFacts DEF StreamInv, IInv, ReservedEnd
    <3> QED
      BY <2>1, <3>1, KeptReads DEF StreamInv
  <2>2. ASSUME UNCHANGED cacheVars PROVE Cache!IInv' /\ ReadsKept
    BY <2>2, KeptReads DEF StreamInv
  <2> QED
    BY <2>1, <2>2 DEF Throw
<1> QED
  BY <1>1, <1>2, HoldsKept DEF StreamInv, Computed

(***************************************************************************)
(* One layer: its rows are written behind the transcript, so every key a row *)
(* may see is then in the cache, and what the row becomes is the reference's *)
(* term for the layer above.                                               *)
(***************************************************************************)
LEMMA RunLayerStream ==
  ASSUME StreamInv, IInv', NEW l \in 0 .. NumLayers - 1, RunLayer(l)
  PROVE  StreamInv'
<1> DEFINE n == ChunkSize
           R == T!Residual(Context)
           input == IF normDone THEN normed ELSE [i \in DOMAIN x |-> T!Norm(l, x[i])]
           kv == [i \in DOMAIN x |-> T!KvOf(input[i], position + i - 1)]
<1>1. /\ call.at = "layers" /\ call.layer = l
      /\ Kv!WriteKv(l, position, kv)
      /\ x' = [i \in DOMAIN x |-> T!Join(x[i], input[i], position + i - 1,
                 [q \in 1 .. VisibleKeys(i) |-> Kv!ReadKv(l, q - 1)'])]
      /\ call' = [call EXCEPT !.layer = l + 1]
      /\ UNCHANGED <<position, transcript>>
  BY DEF RunLayer, WriteStart
<1>2. /\ position \in Nat /\ n \in Nat \ {0} /\ length \in Nat /\ position + n <= length
      /\ position <= length /\ NumLayers \in Nat /\ l \in Nat
  BY <1>1, Counts, ContextFacts, ForwardAssumption DEF StreamInv, IInv, Rows, Lengths
<1>3. /\ x = [i \in 1 .. n |-> R[l][position + i]]
      /\ \A m \in 0 .. l - 1 : Holds(Context, m, position + n)
  BY <1>1 DEF StreamInv, Computed
<1>3a. \A m \in 0 .. l - 1 : \A p \in 0 .. (position + n) - 1 :
        Kv!ReadKv(m, p) = T!KvOf(T!Norm(m, R[m][p + 1]), p)
  <2> SUFFICES ASSUME NEW m \in 0 .. l - 1 PROVE \A p \in 0 .. (position + n) - 1 :
        Kv!ReadKv(m, p) = T!KvOf(T!Norm(m, R[m][p + 1]), p)
    OBVIOUS
  <2>1. Holds(Context, m, position + n)
    BY <1>3
  <2> QED
    BY <2>1 DEF Holds
<1>4. DOMAIN x = 1 .. n /\ Len(x) = n
  BY <1>2, <1>3, LenOfRows
<1>5. \A i \in 1 .. n : input[i] = T!Norm(l, R[l][position + i])
  BY <1>1, <1>3, <1>4 DEF StreamInv, IInv, FusedNormMatches
<1>6. /\ Len(kv) = n
      /\ \A i \in 1 .. n : kv[i] = T!KvOf(T!Norm(l, R[l][position + i]), position + i - 1)
  <2>1. kv = [i \in 1 .. n |-> kv[i]]
    BY <1>4
  <2> QED
    BY <1>2, <1>4, <1>5, <2>1, LenOfRows
<1>7. R[l + 1] = LayerOf(Context, l, R[l]) /\ Len(Context) = position + n
  BY ResidualRows, ContextFacts DEF StreamInv
<1>8. /\ call'.tokens = call.tokens /\ call'.consumed = call.consumed
      /\ call'.layer = l + 1
  BY <1>1 DEF StreamInv, IInv, CallOK
<1>9. ChunkSize' = n /\ Context' = Context
  BY <1>1, <1>8, ContextKept
<1>10. /\ Cache!IInv'
       /\ \A m \in Layers : \A p \in 0 .. length - 1 :
            Kv!ReadKv(m, p)' = IF m = l /\ p \in position .. position + n - 1
                                 THEN kv[p - position + 1] ELSE Kv!ReadKv(m, p)
  BY <1>1, <1>2, <1>6, WrittenReads DEF StreamInv, Layers
<1> HIDE DEF n, R, kv
<1>11. ASSUME NEW p \in 0 .. (position + n) - 1
       PROVE  Kv!ReadKv(l, p)' = T!KvOf(T!Norm(l, R[l][p + 1]), p)
  <2>0. p \in 0 .. length - 1 /\ l \in Layers
    BY <1>2 DEF Layers
  <2>1. CASE p \in position .. position + n - 1
    <3>1. p - position + 1 \in 1 .. n /\ position + (p - position + 1) = p + 1
          /\ position + (p - position + 1) - 1 = p
      BY <1>2, <2>1
    <3>2. Kv!ReadKv(l, p)' = kv[p - position + 1]
      BY <1>10, <2>0, <2>1
    <3> QED
      BY <1>6, <3>1, <3>2
  <2>2. CASE p \in 0 .. position - 1
    <3>1. Kv!ReadKv(l, p)' = Kv!ReadKv(l, p)
      BY <1>2, <1>10, <2>0, <2>2
    <3>2. Kv!ReadKv(l, p) = T!KvOf(T!Norm(l, T!Residual(transcript)[l][p + 1]), p)
      BY <2>2 DEF StreamInv, CacheHoldsTranscript
    <3>3. R[l][p + 1] = T!Residual(transcript)[l][p + 1]
      BY <1>2, <2>2, ContextExtends DEF StreamInv, R
    <3> QED
      BY <3>1, <3>2, <3>3
  <2> QED
    BY <1>2, <2>1, <2>2
<1>12. ASSUME NEW m \in Layers, NEW p \in 0 .. length - 1, m # l \/ p < position
       PROVE  Kv!ReadKv(m, p)' = Kv!ReadKv(m, p)
  BY <1>2, <1>10, <1>12
<1>13. CacheHoldsTranscript'
  <2> SUFFICES ASSUME NEW m \in 0 .. NumLayers - 1, NEW p \in 0 .. position - 1
               PROVE  Kv!ReadKv(m, p)' = T!KvOf(T!Norm(m, T!Residual(transcript)[m][p + 1]), p)
    BY <1>1 DEF CacheHoldsTranscript
  <2>1. m \in Layers /\ p \in 0 .. length - 1 /\ p < position
    BY <1>2 DEF Layers
  <2>2. Kv!ReadKv(m, p)' = Kv!ReadKv(m, p)
    BY <1>12, <2>1
  <2> QED
    BY <2>2 DEF StreamInv, CacheHoldsTranscript
<1>14. \A i \in 1 .. n : x'[i] = R[l + 1][position + i]
  <2> SUFFICES ASSUME NEW i \in 1 .. n PROVE x'[i] = R[l + 1][position + i]
    OBVIOUS
  <2>1. VisibleKeys(i) = position + i
    BY <1>2, <1>4 DEF VisibleKeys
  <2>2. \A q \in 1 .. position + i : Kv!ReadKv(l, q - 1)' = T!KvOf(T!Norm(l, R[l][q]), q - 1)
    <3> SUFFICES ASSUME NEW q \in 1 .. position + i
                 PROVE  Kv!ReadKv(l, q - 1)' = T!KvOf(T!Norm(l, R[l][q]), q - 1)
      OBVIOUS
    <3>1. q - 1 \in 0 .. (position + n) - 1 /\ (q - 1) + 1 = q
      BY <1>2
    <3> QED
      BY <1>11, <3>1
  <2>3. x'[i] = T!Join(R[l][position + i], T!Norm(l, R[l][position + i]), (position + i) - 1,
                  [q \in 1 .. position + i |-> T!KvOf(T!Norm(l, R[l][q]), q - 1)])
    <3> DEFINE keys  == [q \in 1 .. position + i |-> Kv!ReadKv(l, q - 1)']
               terms == [q \in 1 .. position + i |-> T!KvOf(T!Norm(l, R[l][q]), q - 1)]
    <3>1. keys = terms
      BY <2>2
    <3>2. x'[i] = T!Join(x[i], input[i], (position + i) - 1, keys)
      <4>1. position + i - 1 = (position + i) - 1
        BY <1>2
      <4> QED
        BY <1>1, <1>4, <2>1, <4>1
    <3>3. x[i] = R[l][position + i] /\ input[i] = T!Norm(l, R[l][position + i])
      BY <1>3, <1>5 DEF R, n
    <3> HIDE DEF keys, terms, input
    <3>4. x'[i] = T!Join(R[l][position + i], T!Norm(l, R[l][position + i]),
                         (position + i) - 1, terms)
      BY <3>1, <3>2, <3>3
    <3> QED
      BY <3>4 DEF terms
  <2>4. position + i \in 1 .. Len(Context)
    BY <1>2, <1>7
  <2>5. LayerOf(Context, l, R[l])[position + i] =
          T!Join(R[l][position + i], T!Norm(l, R[l][position + i]), (position + i) - 1,
                  [q \in 1 .. position + i |-> T!KvOf(T!Norm(l, R[l][q]), q - 1)])
    BY <2>4 DEF LayerOf
  <2> QED
    BY <1>7, <2>3, <2>5
<1>15. x' = [i \in 1 .. n |-> R[l + 1][position + i]]
  <2>1. x' = [i \in 1 .. n |-> x'[i]]
    BY <1>1, <1>4
  <2> QED
    BY <1>14, <2>1
<1>16. ASSUME NEW m \in 0 .. l, NEW p \in 0 .. (position + n) - 1
       PROVE  Kv!ReadKv(m, p)' = T!KvOf(T!Norm(m, R[m][p + 1]), p)
  <2>1. CASE m = l
    BY <1>11, <2>1
  <2>2. CASE m # l
    <3>1. m \in Layers /\ m \in 0 .. l - 1 /\ p \in 0 .. length - 1
      BY <1>2, <2>2 DEF Layers
    <3> QED
      BY <1>3a, <1>12, <2>2, <3>1
  <2> QED
    BY <2>1, <2>2
<1>17. Computed'
  <2>1. \A m \in 0 .. call'.layer - 1 : \A p \in 0 .. (position' + ChunkSize') - 1 :
          Kv!ReadKv(m, p)' = T!KvOf(T!Norm(m, T!Residual(Context')[m][p + 1]), p)
    <3>1. 0 .. call'.layer - 1 = 0 .. l /\ (position' + ChunkSize') - 1 = (position + n) - 1
      BY <1>1, <1>2, <1>8, <1>9
    <3> QED
      BY <1>9, <1>16, <3>1 DEF R
  <2>2. x' = [i \in 1 .. ChunkSize' |-> T!Residual(Context')[call'.layer][position' + i]]
    BY <1>1, <1>8, <1>9, <1>15 DEF R
  <2>3. call'.layer \in 0 .. NumLayers
    BY <1>2, <1>8
  <2> QED
    <3>1. ASSUME NEW m \in 0 .. call'.layer - 1 PROVE Holds(Context, m, position + ChunkSize)'
      BY <2>1 DEF Holds
    <3> QED
      BY <2>2, <2>3, <3>1 DEF Computed
<1> QED
  BY <1>10, <1>13, <1>17 DEF StreamInv

(* The position moves: the chunk becomes part of the transcript.           *)
LEMMA FinishChunkStream ==
  ASSUME StreamInv, IInv', FinishChunk
  PROVE  /\ StreamInv'
         /\ transcript' = Context /\ logits' = T!LogitsOf(Context)
         /\ Chunk \in [1 .. ChunkSize -> Tokens] /\ ChunkSize \in 1 .. MaxSeq
         /\ position + ChunkSize <= MaxSeq
<1>1. /\ call.at = "layers" /\ call.layer = NumLayers
      /\ logits' = FinalNorm[Len(x)]
      /\ position' = position + Len(x)
      /\ transcript' = transcript \o SubSeq(call.tokens, call.consumed + 1,
                                            call.consumed + Len(x))
      /\ call' = [call EXCEPT !.at = "chunk", !.consumed = @ + Len(x)]
      /\ UNCHANGED cacheVars
  BY DEF FinishChunk
<1>2. /\ position \in Nat /\ ChunkSize \in Nat \ {0} /\ NumLayers \in Nat
      /\ position + ChunkSize <= MaxSeq /\ MaxSeq \in Nat
  <2>1. /\ Remaining \in Nat /\ ChunkSize \in Nat \ {0} /\ ChunkSize <= Remaining
        /\ position \in Nat
    BY <1>1, Counts, ContextFacts DEF StreamInv, IInv, Rows
  <2>2. position + Remaining <= MaxSeq
    BY <1>1 DEF StreamInv, IInv, CallFits
  <2> QED
    BY <2>1, <2>2, ForwardAssumption
<1>3. /\ x = [i \in 1 .. ChunkSize |-> T!Residual(Context)[NumLayers][position + i]]
      /\ \A l \in 0 .. NumLayers - 1 : Holds(Context, l, position + ChunkSize)
  BY <1>1 DEF StreamInv, Computed
<1>4. Len(x) = ChunkSize /\ DOMAIN x = 1 .. ChunkSize
  BY <1>2, <1>3, LenOfRows
<1>5. transcript' = Context /\ position' = position + ChunkSize
  BY <1>1, <1>4 DEF Context, Chunk
<1>6. logits' = T!LogitsOf(Context)
  <2>1. Len(Context) = position + ChunkSize
    BY ContextFacts DEF StreamInv
  <2>2. ChunkSize \in 1 .. ChunkSize
    BY <1>2
  <2>3. FinalNorm[ChunkSize] = T!Norm(NumLayers, x[ChunkSize])
    BY <1>1, <1>4, <2>2 DEF FinalNorm, StreamInv, IInv, FusedNormMatches
  <2>4. x[ChunkSize] = T!Residual(Context)[NumLayers][position + ChunkSize]
    BY <1>3, <2>2
  <2> QED
    BY <1>1, <1>4, <2>1, <2>3, <2>4 DEF T!LogitsOf
<1>7. call'.at = "chunk"
  BY <1>1 DEF StreamInv, IInv, CallOK
<1>8. Cache!IInv'
  BY <1>1, KeptReads DEF StreamInv
<1>9. CacheHoldsTranscript'
  <2> SUFFICES ASSUME NEW l \in 0 .. NumLayers - 1, NEW p \in 0 .. (position + ChunkSize) - 1
               PROVE  Kv!ReadKv(l, p)' = T!KvOf(T!Norm(l, T!Residual(Context)[l][p + 1]), p)
    BY <1>5 DEF CacheHoldsTranscript
  <2>1. Kv!ReadKv(l, p)' = Kv!ReadKv(l, p)
    BY <1>1 DEF cacheVars, Kv!ReadKv, Kv!PhysicalPage
  <2> QED
    BY <1>3, <2>1 DEF Holds
<1>10. Chunk \in [1 .. ChunkSize -> Tokens]
  <2>1. Chunk \in Seq(Tokens) /\ Len(Chunk) = ChunkSize
    BY ChunkFacts DEF StreamInv, IInv, Chunk
  <2> HIDE DEF Chunk, ChunkSize
  <2> QED
    BY <2>1, LenProperties
<1> QED
  BY <1>2, <1>5, <1>6, <1>7, <1>8, <1>9, <1>10 DEF StreamInv, Computed

-----------------------------------------------------------------------------
(***************************************************************************)
(* The captured rows.  A chunk that is over is the last of the transcript. *)
(***************************************************************************)
RowsOf(tokens, first, n, l) == [i \in 1 .. n |-> T!Residual(tokens)[l][first + i]]

WholeTaps(tokens, first, n) ==
  Append([m \in 1 .. NumLayers + 1 |-> RowsOf(tokens, first, n, m - 1)],
         [i \in 1 .. n |-> T!Norm(NumLayers, RowsOf(tokens, first, n, NumLayers)[i])])

TapsOK ==
  Capture =>
    /\ call.at = "layers" =>
         taps = [m \in 1 .. call.layer + 1 |-> RowsOf(Context, position, ChunkSize, m - 1)]
    /\ call.at = "chunk" /\ call.consumed > 0 =>
         \E n \in Nat \ {0} :
           /\ DOMAIN x = 1 .. n
           /\ taps = WholeTaps(transcript, position - n, n)

(* Appending a row to rows.                                                *)
LEMMA AppendRow ==
  ASSUME NEW n \in Nat, NEW f, f = [i \in 1 .. n |-> f[i]], NEW e
  PROVE  Append(f, e) = [i \in 1 .. n + 1 |-> IF i = n + 1 THEN e ELSE f[i]]
<1> DEFINE S == {f[i] : i \in 1 .. n} \cup {e}
<1>1. f \in [1 .. n -> S]
  OBVIOUS
<1>2. f \in Seq(S) /\ Len(f) = n /\ e \in S
  BY <1>1, LenOfRows
<1> HIDE DEF S
<1> QED
  BY <1>2, AppendProperties

LEMMA StartChunkTaps ==
  ASSUME StreamInv, StreamInv', StartChunk
  PROVE  TapsOK'
<1>1. /\ Remaining > 0 /\ x' = Chunk
      /\ Capture => taps' = Append(<< >>, Chunk)
      /\ call' = [call EXCEPT !.at = "layers", !.layer = 0]
      /\ UNCHANGED <<position, transcript>>
  BY DEF StartChunk, TapsAtStart, Tapped
<1>2. /\ call'.tokens = call.tokens /\ call'.consumed = call.consumed
      /\ call'.layer = 0 /\ call'.at = "layers"
  BY <1>1 DEF StreamInv, IInv, CallOK
<1>3. ChunkSize' = ChunkSize /\ Context' = Context
  BY <1>1, <1>2, ContextKept
<1>4. Chunk = RowsOf(Context, position, ChunkSize, 0)
  BY <1>1, <1>2, <1>3 DEF StreamInv, Computed, RowsOf
<1>5. ASSUME Capture
      PROVE  taps' = [m \in 1 .. 0 + 1 |-> RowsOf(Context, position, ChunkSize, m - 1)]
  <2>1. taps' = <<Chunk>>
    BY <1>1, <1>5
  <2> HIDE DEF Chunk
  <2> DEFINE f == [m \in 1 .. 0 + 1 |-> RowsOf(Context, position, ChunkSize, m - 1)]
  <2>2. f = [m \in 1 .. 1 |-> Chunk]
    <3>1. \A m \in 1 .. 0 + 1 : m - 1 = 0
      OBVIOUS
    <3> QED
      BY <1>4, <3>1
  <2>3. [m \in 1 .. 1 |-> Chunk] = <<Chunk>>
    OBVIOUS
  <2> QED
    BY <2>1, <2>2, <2>3
<1>6. taps' = [m \in 1 .. 0 + 1 |-> RowsOf(Context, position, ChunkSize, m - 1)]
      => taps' = [m \in 1 .. call'.layer + 1 |-> RowsOf(Context', position', ChunkSize', m - 1)]
  BY <1>1, <1>2, <1>3
<1> QED
  BY <1>2, <1>5, <1>6 DEF TapsOK

LEMMA RunLayerTaps ==
  ASSUME StreamInv, StreamInv', TapsOK, NEW l \in 0 .. NumLayers - 1, RunLayer(l)
  PROVE  TapsOK'
<1>1. /\ call.at = "layers" /\ call.layer = l
      /\ Capture => taps' = Append(taps, x')
      /\ call' = [call EXCEPT !.layer = l + 1]
      /\ UNCHANGED <<position, transcript>>
  BY DEF RunLayer, Tapped
<1>2. /\ call'.tokens = call.tokens /\ call'.consumed = call.consumed
      /\ call'.layer = l + 1 /\ call'.at = "layers"
  BY <1>1 DEF StreamInv, IInv, CallOK
<1>3. ChunkSize' = ChunkSize /\ Context' = Context
  BY <1>1, <1>2, ContextKept
<1> DEFINE row(m) == RowsOf(Context, position, ChunkSize, m)
<1>4. x' = row(l + 1)
  BY <1>1, <1>2, <1>3 DEF StreamInv, Computed, RowsOf
<1>5. ASSUME Capture
      PROVE  taps' = [m \in 1 .. l + 1 + 1 |-> row(m - 1)]
  <2>1. taps = [m \in 1 .. l + 1 |-> row(m - 1)]
    BY <1>1, <1>5 DEF TapsOK
  <2>2. l + 1 \in Nat
    BY ForwardAssumption
  <2> HIDE DEF row
  <2>3. taps = [m \in 1 .. l + 1 |-> taps[m]] /\ \A m \in 1 .. l + 1 : taps[m] = row(m - 1)
    BY <2>1
  <2>4. taps' = [m \in 1 .. l + 1 + 1 |-> IF m = l + 1 + 1 THEN row(l + 1) ELSE taps[m]]
    BY <1>1, <1>4, <1>5, <2>2, <2>3, AppendRow
  <2>5. \A m \in 1 .. l + 1 + 1 :
          (IF m = l + 1 + 1 THEN row(l + 1) ELSE taps[m]) = row(m - 1)
    <3> SUFFICES ASSUME NEW m \in 1 .. l + 1 + 1
                 PROVE  (IF m = l + 1 + 1 THEN row(l + 1) ELSE taps[m]) = row(m - 1)
      OBVIOUS
    <3>1. m = l + 1 + 1 => m - 1 = l + 1
      BY <2>2
    <3>2. m # l + 1 + 1 => m \in 1 .. l + 1
      BY <2>2
    <3> QED
      BY <2>3, <3>1, <3>2
  <2> QED
    BY <2>4, <2>5
<1>6. taps' = [m \in 1 .. l + 1 + 1 |-> row(m - 1)]
      => taps' = [m \in 1 .. call'.layer + 1 |-> RowsOf(Context', position', ChunkSize', m - 1)]
  BY <1>1, <1>2, <1>3
<1> QED
  BY <1>2, <1>5, <1>6 DEF TapsOK

LEMMA FinishChunkTaps ==
  ASSUME StreamInv, IInv', TapsOK, FinishChunk
  PROVE  TapsOK'
<1>1. /\ call.at = "layers" /\ call.layer = NumLayers
      /\ position' = position + Len(x)
      /\ call' = [call EXCEPT !.at = "chunk", !.consumed = @ + Len(x)]
      /\ x' = x
      /\ Capture => taps' = Append(taps, FinalNorm)
  BY DEF FinishChunk, Tapped
<1>2. /\ position \in Nat /\ ChunkSize \in Nat \ {0}
  BY <1>1, Counts, ContextFacts DEF StreamInv, IInv, Rows
<1>3. x = RowsOf(Context, position, ChunkSize, NumLayers)
  BY <1>1 DEF StreamInv, Computed, RowsOf
<1>4. DOMAIN x = 1 .. ChunkSize /\ Len(x) = ChunkSize
  BY <1>2, <1>3, LenOfRows DEF RowsOf
<1>5. FinalNorm = [i \in 1 .. ChunkSize |-> T!Norm(NumLayers, x[i])]
  BY <1>1, <1>4 DEF FinalNorm, StreamInv, IInv, FusedNormMatches
<1>6. transcript' = Context /\ position' - ChunkSize = position
  BY <1>1, <1>2, <1>4, FinishChunkStream
<1>7. call'.at = "chunk"
  BY <1>1 DEF StreamInv, IInv, CallOK
<1>8. ASSUME Capture
      PROVE  taps' = WholeTaps(Context, position, ChunkSize)
  BY <1>1, <1>3, <1>5, <1>8 DEF TapsOK, WholeTaps
<1> DEFINE n == ChunkSize
<1>9. n \in Nat \ {0} /\ DOMAIN x' = 1 .. n
  BY <1>1, <1>2, <1>4
<1>10. ASSUME Capture
       PROVE  taps' = WholeTaps(transcript', position' - n, n)
  BY <1>6, <1>8, <1>10
<1> HIDE DEF n
<1>11. ASSUME Capture
       PROVE  \E k \in Nat \ {0} :
                 /\ DOMAIN x' = 1 .. k
                 /\ taps' = WholeTaps(transcript', position' - k, k)
  BY <1>9, <1>10, <1>11
<1> QED
  BY <1>7, <1>11 DEF TapsOK, WholeTaps, RowsOf

LEMMA TapsOKSuffices ==
  ASSUME StreamInv, TapsOK
  PROVE  TapsAreResidual
<1> SUFFICES ASSUME Capture, call.at = "layers" \/ (call.at = "chunk" /\ call.consumed > 0)
             PROVE  TapsAreResidual
  BY DEF TapsAreResidual
<1>1. CASE call.at = "layers"
  <2>1. /\ position \in Nat /\ ChunkSize \in Nat /\ Len(Context) = position + ChunkSize
        /\ DOMAIN x = 1 .. ChunkSize
    BY <1>1, ContextFacts DEF StreamInv, IInv, Rows
  <2>2. Len(x) = ChunkSize
    BY <2>1
  <2>3. Len(Context) - Len(x) = position
    BY <2>1, <2>2
  <2>4. taps = [m \in 1 .. call.layer + 1 |->
                  [i \in DOMAIN x |-> T!Residual(Context)[m - 1][(Len(Context) - Len(x)) + i]]]
    BY <1>1, <2>1, <2>3 DEF TapsOK, RowsOf
  <2> QED
    BY <1>1, <2>4 DEF TapsAreResidual, Context
<1>2. CASE call.at = "chunk" /\ call.consumed > 0
  <2>1. PICK n \in Nat \ {0} :
           /\ DOMAIN x = 1 .. n
           /\ taps = WholeTaps(transcript, position - n, n)
    BY <1>2 DEF TapsOK
  <2>2. Len(x) = n
    BY <2>1
  <2>3. Len(transcript) - Len(x) = position - n
    BY <2>2, ContextFacts DEF StreamInv
  <2> DEFINE first == Len(transcript) - Len(x)
             rows(l) == [i \in DOMAIN x |-> T!Residual(transcript)[l][first + i]]
  <2>4. taps = Append([m \in 1 .. NumLayers + 1 |-> rows(m - 1)],
                      [i \in DOMAIN x |-> T!Norm(NumLayers, rows(NumLayers)[i])])
    BY <2>1, <2>3 DEF RowsOf, WholeTaps
  <2> QED
    BY <1>2, <2>4 DEF TapsAreResidual
<1> QED
  BY <1>1, <1>2

-----------------------------------------------------------------------------
FullInv == StreamInv /\ TapsOK

LEMMA InitFullInv == Init => FullInv
<1> SUFFICES ASSUME Init PROVE FullInv
  OBVIOUS
<1>1. call.at = "idle" /\ position = 0
  BY DEF Init, Idle
<1>2. Cache!IInv
  BY SameInit, CacheAssumption, Cache!InitIInv DEF Init
<1>3. CacheHoldsTranscript
  BY <1>1 DEF CacheHoldsTranscript
<1> QED
  BY <1>1, <1>2, <1>3, InitIInv DEF FullInv, StreamInv, Computed, TapsOK

LEMMA NextFullInv == FullInv /\ [Next]_vars => FullInv'
<1> SUFFICES ASSUME FullInv, [Next]_vars PROVE FullInv'
  OBVIOUS
<1>1. StreamInv /\ TapsOK /\ IInv'
  BY NextIInv DEF FullInv, StreamInv
<1>2. ASSUME UNCHANGED cacheVars,
             call'.at = "idle" \/ (call'.at = "chunk" /\ call'.consumed = 0),
             UNCHANGED <<position, transcript>> \/ position' = 0
      PROVE  FullInv'
  BY <1>1, <1>2, QuietStream DEF FullInv, TapsOK
<1>3. ASSUME NEW tokens, Begin(tokens) PROVE FullInv'
  BY <1>2, <1>3 DEF Begin
<1>4. CASE Reset
  BY <1>2, <1>4 DEF Reset
<1>5. CASE StartChunk
  BY <1>1, <1>5, StartChunkStream, StartChunkTaps DEF FullInv
<1>6. ASSUME NEW l \in 0 .. NumLayers - 1, RunLayer(l) PROVE FullInv'
  BY <1>1, <1>6, RunLayerStream, RunLayerTaps DEF FullInv
<1>7. CASE FinishChunk
  BY <1>1, <1>7, FinishChunkStream, FinishChunkTaps DEF FullInv
<1>8. CASE Return
  BY <1>2, <1>8 DEF Return, Idle
<1>9. CASE Throw
  <2>1. call'.at = "idle"
    BY <1>9 DEF Throw, Idle
  <2> QED
    BY <1>1, <1>9, <2>1, ThrowStream DEF FullInv, TapsOK
<1>10. CASE UNCHANGED vars
  <2>1. UNCHANGED <<cacheVars, position, transcript, call, x, taps>>
    BY <1>10 DEF vars
  <2>2. ReadsKept /\ Cache!IInv'
    BY <1>1, <2>1, KeptReads DEF StreamInv
  <2>3. CacheHoldsTranscript'
    BY <1>1, <2>1, <2>2, HoldsKept DEF StreamInv
  <2>4. ChunkSize' = ChunkSize /\ Context' = Context
    BY <2>1, ContextKept
  <2>5. \A l, p : Kv!ReadKv(l, p)' = Kv!ReadKv(l, p)
    BY <2>1 DEF cacheVars, Kv!ReadKv, Kv!PhysicalPage
  <2>6. Computed'
    BY <1>1, <2>1, <2>4, <2>5 DEF StreamInv, Computed, Holds
  <2>7. TapsOK'
    BY <1>1, <2>1, <2>4 DEF TapsOK
  <2> QED
    BY <1>1, <2>2, <2>3, <2>6, <2>7 DEF FullInv, StreamInv
<1> QED
  BY <1>3, <1>4, <1>5, <1>6, <1>7, <1>8, <1>9, <1>10 DEF Next, Step, Prefill, Decode

LEMMA FullInvAlways == Spec => []FullInv
BY InitFullInv, NextFullInv, PTL DEF Spec

(* model.cu: after any sequence of calls, resets and failures the caches of *)
(* all layers hold the keys and values of this sequence's tokens, and of   *)
(* nothing a previous one left in the same slots.                          *)
THEOREM CacheAlwaysHoldsTranscript == Spec => []CacheHoldsTranscript
<1>1. FullInv => CacheHoldsTranscript
  BY DEF FullInv, StreamInv
<1> QED
  BY <1>1, FullInvAlways, PTL

(* model.cu:444: what capture_activations hands out is the residual stream *)
(* of the last chunk, fused norms or not.                                  *)
THEOREM TapsAlwaysResidual == Spec => []TapsAreResidual
<1>1. FullInv => TapsAreResidual
  BY TapsOKSuffices DEF FullInv
<1> QED
  BY <1>1, FullInvAlways, PTL

(* Model::prefill and Model::decode: chunking, paging, resets and failed   *)
(* calls are invisible.  The logits are those of a causal transformer over *)
(* exactly the tokens absorbed since the last reset.                       *)
THEOREM TranscriptImplemented == Spec => ImplementsTranscript
<1>1. Init => T!Init
  BY DEF Init, T!Init
<1>2. FullInv /\ FullInv' /\ [Next]_vars => [T!Next]_T!vars
  <2> SUFFICES ASSUME FullInv, FullInv', [Next]_vars PROVE T!Next \/ UNCHANGED T!vars
    OBVIOUS
  <2>1. CASE FinishChunk
    <3>1. /\ transcript' = transcript \o Chunk /\ logits' = T!LogitsOf(transcript')
          /\ Chunk \in [1 .. ChunkSize -> Tokens] /\ ChunkSize \in 1 .. MaxSeq
          /\ position + ChunkSize <= MaxSeq
      BY <2>1, FinishChunkStream DEF FullInv, StreamInv, Context
    <3>2. Len(transcript) = position /\ Len(Chunk) = ChunkSize
      BY ContextFacts, ChunkFacts DEF FullInv, StreamInv, IInv, Chunk
    <3>3. T!Absorb(Chunk)
      BY <3>1, <3>2 DEF T!Absorb
    <3> QED
      BY <3>1, <3>3 DEF T!Next
  <2>2. CASE Reset
    BY <2>2 DEF Reset, T!Next, T!Reset
  <2>3. CASE UNCHANGED <<transcript, logits>>
    BY <2>3 DEF T!vars
  <2> QED
    BY <2>1, <2>2, <2>3 DEF Next, Step, vars, Prefill, Decode, Begin,
                                  StartChunk, RunLayer, Return, Throw
<1> QED
  BY <1>1, <1>2, FullInvAlways, PTL DEF Spec, ImplementsTranscript, T!Spec

=============================================================================
