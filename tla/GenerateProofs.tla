---------------------------- MODULE GenerateProofs ----------------------------
(***************************************************************************)
(* The generation loop of run() for every prompt, limit, warmup count,     *)
(* cache size and choice of tokens, with or without the profiler.          *)
(***************************************************************************)
EXTENDS Generate, SequenceTheorems, FiniteSetTheorems, TLAPS

-----------------------------------------------------------------------------
(* A set of natural numbers has a least member.                            *)
LEMMA LeastNat ==
  ASSUME NEW S \in SUBSET Nat, S # {}
  PROVE  \E x \in S : \A y \in S : x <= y
<1>1. PICK x \in S : \A y \in S : ~ (<<y, x>> \in OpToRel(<, Nat))
  BY NatLessThanWellFounded, WFMin
<1>2. \A y \in S : ~ (y < x)
  BY <1>1 DEF OpToRel
<1> QED
  BY <1>2

(* Induction: a set closed under successor is everything.                  *)
LEMMA Induct ==
  ASSUME NEW S \in SUBSET Nat, 0 \in S, \A n \in S : n + 1 \in S
  PROVE  S = Nat
<1> SUFFICES ASSUME Nat \ S # {} PROVE FALSE
  OBVIOUS
<1>1. PICK x \in Nat \ S : \A y \in Nat \ S : x <= y
  BY LeastNat
<1>2. x - 1 \in Nat /\ x - 1 \notin Nat \ S
  BY <1>1
<1> QED
  BY <1>1, <1>2

-----------------------------------------------------------------------------
(* Arithmetic of the report.                                               *)
LEMMA MeanGrows ==
  ASSUME NEW p \in Nat, NEW d \in Nat, NEW k \in Nat,
         2 * k = d * (2 * p + d + 1)
  PROVE  2 * (k + (p + d + 1)) = (d + 1) * (2 * p + (d + 1) + 1)
OBVIOUS

LEMMA OneLess ==
  ASSUME NEW a \in Int, NEW w \in Int, a <= w
  PROVE  a - 1 \in Int /\ a - 1 < w /\ a - 1 <= w /\ (a > 0 => a - 1 >= 0)
OBVIOUS

-----------------------------------------------------------------------------
(***************************************************************************)
(* The inductive invariant, statement by statement.  `Started' is where    *)
(* the prompt is known to fit.  None of the properties is inductive alone: *)
(* that calls fit needs the lengths the loop keeps, those need that        *)
(* context and output continue the prompt, and the resident length needs   *)
(* to know how many warmup passes there have been.                         *)
(***************************************************************************)
Token   == Tokens \cup {Filler}
Started == {"warmup", "warm decode", "warm reset", "prefill", "loop", "decode", "report"}
InLoop  == {"loop", "decode", "report"}

Types ==
  /\ args.promptLength \in 0 .. MaxSeq
  /\ args.maxNew \in Int /\ args.warmup \in Int
  /\ warmLeft \in Int /\ warmLeft <= args.warmup
  /\ warmLeft < args.warmup => warmLeft >= 0
  /\ context \in Seq(Token) /\ emitted \in Seq(Token) /\ next \in Token
  /\ resident \in Nat /\ decodeSteps \in Nat /\ keysRead \in Nat

Fits == pc \in Started => args.promptLength \in 1 .. MaxSeq - 1

NothingYet ==
  /\ pc \notin InLoop \cup {"failed", "terminated"} =>
        emitted = << >> /\ decodeSteps = 0 /\ keysRead = 0
  /\ pc \in {"check", "warmup", "prefill"} => context = << >>
  /\ pc = "warm decode" => Len(context) = args.promptLength /\ warmLeft > 0
  /\ pc = "warm reset" => warmLeft > 0

Continues ==
  /\ pc = "loop"   => context = Prompt \o emitted /\ logits = context
  /\ pc = "decode" => context \o <<next>> = Prompt \o emitted

Counts ==
  /\ pc \in InLoop => Len(context) = args.promptLength + decodeSteps
  /\ pc = "loop"   => Len(emitted) = decodeSteps
  /\ pc = "decode" => Len(emitted) = decodeSteps + 1 /\ Len(emitted) < Budget
  /\ pc = "report" => \/ Len(emitted) = decodeSteps
                      \/ Len(emitted) = decodeSteps + 1 /\ Len(emitted) = Budget
  /\ pc \in InLoop => 2 * keysRead = decodeSteps * (2 * args.promptLength + decodeSteps + 1)

(* What the warmup passes so far have raised the cache's length to.        *)
Warmed == IF warmLeft < args.warmup THEN args.promptLength + 1 ELSE 0

HighWater ==
  /\ pc \in {"check", "warmup", "prefill"} => resident = Warmed
  /\ pc = "check" => warmLeft = args.warmup
  /\ pc = "warm decode" => resident = Larger(Warmed, args.promptLength)
  /\ pc = "warm reset" => resident = args.promptLength + 1
  /\ pc \in InLoop => resident = Larger(Warmed, Len(context))
  /\ pc \in InLoop \cup {"prefill"} => warmLeft <= 0

IInv == Types /\ Fits /\ NothingYet /\ Continues /\ Counts /\ HighWater

-----------------------------------------------------------------------------
LEMMA NumberTypes ==
  ASSUME IInv
  PROVE  /\ MaxSeq \in Nat /\ args.promptLength \in Nat /\ args.promptLength <= MaxSeq
         /\ warmLeft \in Int /\ args.warmup \in Int /\ warmLeft <= args.warmup
         /\ warmLeft < args.warmup => warmLeft >= 0
         /\ resident \in Nat /\ decodeSteps \in Nat /\ keysRead \in Nat
<1>1. MaxSeq \in Nat
  BY GenerateAssumption
<1> QED
  BY <1>1 DEF IInv, Types

LEMMA PromptFacts ==
  ASSUME Types
  PROVE  Prompt \in Seq(Token) /\ Len(Prompt) = args.promptLength
<1>1. MaxSeq \in Nat /\ Filler \in Token
  BY GenerateAssumption DEF Token
<1>2. args.promptLength \in Nat
  BY <1>1 DEF Types
<1> QED
  BY <1>1, <1>2 DEF Prompt

(* A call of the model that returns: the tokens are appended, the logits   *)
(* are of the new context, and the cache is as long as it ever was.        *)
LEMMA AbsorbFacts ==
  ASSUME Types, NEW tokens \in Seq(Token), Absorb(tokens)
  PROVE  /\ context' = context \o tokens /\ context' \in Seq(Token)
         /\ Len(context') = Len(context) + Len(tokens)
         /\ logits' = context'
         /\ resident' = Larger(resident, Len(context'))
         /\ resident' \in Nat
<1>1. /\ context' = context \o tokens /\ logits' = context'
      /\ resident' = Larger(resident, Len(context'))
  BY DEF Absorb
<1>2. context \in Seq(Token) /\ resident \in Nat
  BY DEF Types
<1>3. context \o tokens \in Seq(Token) /\ Len(context \o tokens) = Len(context) + Len(tokens)
  BY <1>2, ConcatProperties
<1>4. Len(context \o tokens) \in Nat
  BY <1>3, LenProperties
<1> QED
  BY <1>1, <1>2, <1>3, <1>4 DEF Larger

(* Calls that throw, stages of the profiler and steps that leave the       *)
(* program where it is.                                                    *)
LEMMA FailingStep ==
  ASSUME IInv, Throw \/ Terminate
  PROVE  IInv'
<1>1. /\ pc' \in {"failed", "terminated"}
      /\ UNCHANGED <<args, warmLeft, context, logits, resident, emitted, next,
                     decodeSteps, keysRead>>
  BY DEF Throw, Terminate, Goto, loopVars, modelVars
<1>2. pc' \notin Started \cup InLoop \cup {"check"}
  BY <1>1 DEF Started, InLoop
<1> QED
  BY <1>1, <1>2 DEF IInv, Types, Fits, NothingYet, Continues, Counts, HighWater, Started, InLoop

LEMMA QuietStep ==
  ASSUME IInv, BeginStage \/ EndStage \/ Stopped \/ UNCHANGED vars
  PROVE  IInv'
<1>1. UNCHANGED <<args, pc, warmLeft, context, logits, resident, emitted, next,
                  decodeSteps, keysRead>>
  BY DEF BeginStage, EndStage, Stopped, vars, loopVars, modelVars
<1>2. Prompt' = Prompt /\ Budget' = Budget /\ Warmed' = Warmed
  BY <1>1 DEF Prompt, Budget, Warmed
<1>3. Types' /\ Fits' /\ NothingYet'
  BY <1>1 DEF IInv, Types, Fits, NothingYet
<1>4. Continues' /\ Counts' /\ HighWater'
  BY <1>1, <1>2 DEF IInv, Continues, Counts, HighWater
<1> QED
  BY <1>3, <1>4 DEF IInv

-----------------------------------------------------------------------------
LEMMA InitIInv == Init => IInv
<1> SUFFICES ASSUME Init PROVE IInv
  OBVIOUS
<1>1. PICK length \in 0 .. MaxSeq, limit \in -1 .. MaxNew, profile \in BOOLEAN, bench \in BOOLEAN,
           given \in {NotGiven} \cup (-1 .. MaxWarmup) :
        args = [promptLength |-> length, maxNew |-> limit, profile |-> profile,
                warmup |-> WarmupOf(given, Reports(profile, bench))]
  BY DEF Init
<1>2. WarmupOf(given, Reports(profile, bench)) \in Int
  BY DEF WarmupOf
<1>3. /\ args.promptLength \in 0 .. MaxSeq /\ args.maxNew \in Int /\ args.warmup \in Int
  BY <1>1, <1>2
<1>4. /\ pc = "check" /\ warmLeft = args.warmup
      /\ context = << >> /\ resident = 0 /\ emitted = << >> /\ next = Filler
      /\ decodeSteps = 0 /\ keysRead = 0
  BY DEF Init
<1>5. Types
  BY <1>3, <1>4 DEF Types, Token
<1>6. Fits /\ NothingYet /\ Continues /\ Counts
  BY <1>4 DEF Fits, NothingYet, Continues, Counts, Started, InLoop
<1>7. HighWater
  BY <1>3, <1>4 DEF HighWater, Warmed, InLoop
<1> QED
  BY <1>5, <1>6, <1>7 DEF IInv

LEMMA CheckPromptStep ==
  ASSUME IInv, CheckPrompt
  PROVE  IInv'
<1>1. /\ pc = "check" /\ pc' \in {"warmup", "refused"}
      /\ pc' = "warmup" => PromptFits
      /\ UNCHANGED <<args, warmLeft, context, logits, resident, emitted, next,
                     decodeSteps, keysRead>>
  BY DEF CheckPrompt, Goto, loopVars, modelVars
<1>2. MaxSeq \in Nat /\ args.promptLength \in Nat
  BY NumberTypes
<1>3. Fits'
  <2>1. CASE pc' = "warmup"
    BY <1>1, <1>2, <2>1 DEF Fits, PromptFits
  <2>2. CASE pc' = "refused"
    BY <2>2 DEF Fits, Started
  <2> QED
    BY <1>1, <2>1, <2>2
<1> QED
  BY <1>1, <1>3 DEF IInv, Types, NothingYet, Continues, Counts, HighWater, InLoop, Warmed

LEMMA WarmPrefillStep ==
  ASSUME IInv, WarmPrefill
  PROVE  IInv'
<1>1. /\ pc = "warmup" /\ warmLeft > 0 /\ Absorb(Prompt) /\ pc' = "warm decode"
      /\ UNCHANGED <<args, warmLeft, emitted, next, decodeSteps, keysRead>>
  BY DEF WarmPrefill, Goto, loopVars
<1>2. /\ Prompt \in Seq(Token) /\ Len(Prompt) = args.promptLength
      /\ args.promptLength \in Nat /\ warmLeft \in Int /\ args.warmup \in Int
  BY PromptFacts, NumberTypes DEF IInv
<1>3. context = << >> /\ resident = Warmed
  BY <1>1 DEF IInv, NothingYet, HighWater
<1>4. /\ context' \in Seq(Token) /\ Len(context') = args.promptLength
      /\ resident' = Larger(resident, args.promptLength) /\ resident' \in Nat
  <2>1. /\ context' \in Seq(Token) /\ Len(context') = Len(context) + Len(Prompt)
        /\ resident' = Larger(resident, Len(context')) /\ resident' \in Nat
    BY <1>1, <1>2, AbsorbFacts DEF IInv
  <2> QED
    BY <1>2, <1>3, <2>1
<1>5. Types'
  BY <1>1, <1>4 DEF IInv, Types
<1>6. Fits' /\ NothingYet' /\ Continues' /\ Counts'
  BY <1>1, <1>4 DEF IInv, Fits, NothingYet, Continues, Counts, Started, InLoop
<1>7. HighWater'
  BY <1>1, <1>3, <1>4 DEF HighWater, InLoop, Warmed
<1> QED
  BY <1>5, <1>6, <1>7 DEF IInv

LEMMA WarmDecodeStep ==
  ASSUME IInv, WarmDecode
  PROVE  IInv'
<1>1. PICK token \in Tokens : Absorb(<<token>>)
  BY DEF WarmDecode
<1>2. /\ pc = "warm decode" /\ pc' = "warm reset"
      /\ UNCHANGED <<args, warmLeft, emitted, next, decodeSteps, keysRead>>
  BY DEF WarmDecode, Goto, loopVars
<1>3. /\ args.promptLength \in Nat /\ warmLeft \in Int /\ args.warmup \in Int
      /\ resident \in Nat
      /\ <<token>> \in Seq(Token) /\ Len(<<token>>) = 1
  BY NumberTypes DEF Token
<1>4. /\ Len(context) = args.promptLength /\ warmLeft > 0
      /\ resident = Larger(Warmed, args.promptLength)
  BY <1>2 DEF IInv, NothingYet, HighWater
<1>5. /\ context' \in Seq(Token) /\ resident' \in Nat
      /\ resident' = Larger(resident, args.promptLength + 1)
  BY <1>1, <1>3, <1>4, AbsorbFacts DEF IInv
<1>6. resident' = args.promptLength + 1
  BY <1>3, <1>4, <1>5 DEF Larger, Warmed
<1>7. Types'
  BY <1>2, <1>5 DEF IInv, Types
<1>8. Fits' /\ NothingYet' /\ Continues' /\ Counts' /\ HighWater'
  BY <1>2, <1>4, <1>6 DEF IInv, Fits, NothingYet, Continues, Counts, HighWater, Started, InLoop
<1> QED
  BY <1>7, <1>8 DEF IInv

LEMMA WarmResetStep ==
  ASSUME IInv, WarmReset
  PROVE  IInv'
<1>1. /\ pc = "warm reset" /\ pc' = "warmup"
      /\ context' = << >> /\ warmLeft' = warmLeft - 1
      /\ UNCHANGED <<args, logits, resident, emitted, next, decodeSteps, keysRead>>
  BY DEF WarmReset, Goto, loopVars
<1>2. /\ args.promptLength \in Nat /\ warmLeft \in Int /\ args.warmup \in Int
      /\ warmLeft <= args.warmup /\ warmLeft > 0
      /\ resident = args.promptLength + 1
  BY <1>1, NumberTypes DEF IInv, HighWater, NothingYet
<1>3. warmLeft - 1 \in Int /\ warmLeft - 1 < args.warmup /\ warmLeft - 1 <= args.warmup
      /\ warmLeft - 1 >= 0
  BY <1>2, OneLess
<1>4. /\ warmLeft' \in Int /\ warmLeft' <= args.warmup' /\ warmLeft' < args.warmup'
      /\ warmLeft' >= 0
      /\ context' \in Seq(Token)
  <2>1. args.warmup' = args.warmup
    BY <1>1
  <2>2. << >> \in Seq(Token)
    OBVIOUS
  <2> QED
    BY <1>1, <1>3, <2>1, <2>2
<1>5. Types'
  BY <1>1, <1>4 DEF IInv, Types
<1>6. Warmed' = args.promptLength + 1
  BY <1>1, <1>4 DEF Warmed
<1>7. HighWater'
  BY <1>1, <1>2, <1>6 DEF HighWater, InLoop
<1> QED
  BY <1>1, <1>5, <1>7 DEF IInv, Fits, NothingYet, Continues, Counts, Started, InLoop

LEMMA EnableStep ==
  ASSUME IInv, EnableProfiler
  PROVE  IInv'
<1>1. /\ pc = "warmup" /\ warmLeft <= 0 /\ pc' = "prefill"
      /\ UNCHANGED <<args, warmLeft, context, logits, resident, emitted, next,
                     decodeSteps, keysRead>>
  BY DEF EnableProfiler, Goto, loopVars
<1> QED
  BY <1>1 DEF IInv, Types, Fits, NothingYet, Continues, Counts, HighWater,
              Started, InLoop, Warmed

LEMMA TimedPrefillStep ==
  ASSUME IInv, TimedPrefill
  PROVE  IInv'
<1>1. /\ pc = "prefill" /\ Absorb(Prompt) /\ pc' = "loop"
      /\ UNCHANGED <<args, warmLeft, emitted, next, decodeSteps, keysRead>>
  BY DEF TimedPrefill, Goto, loopVars
<1>2. /\ Prompt \in Seq(Token) /\ Len(Prompt) = args.promptLength
      /\ args.promptLength \in Nat /\ warmLeft \in Int /\ args.warmup \in Int
  BY PromptFacts, NumberTypes DEF IInv
<1>3. /\ context = << >> /\ emitted = << >> /\ decodeSteps = 0 /\ keysRead = 0
      /\ resident = Warmed /\ warmLeft <= 0
  BY <1>1 DEF IInv, NothingYet, HighWater, InLoop
<1>4. /\ context' = context \o Prompt /\ logits' = context' /\ context' \in Seq(Token)
      /\ Len(context') = args.promptLength
      /\ resident' = Larger(resident, Len(context')) /\ resident' \in Nat
  BY <1>1, <1>2, <1>3, AbsorbFacts DEF IInv
<1>5. context' = Prompt \o emitted' /\ Prompt' = Prompt
  BY <1>1, <1>2, <1>3, <1>4, ConcatEmptySeq DEF Prompt
<1>6. Types'
  BY <1>1, <1>4 DEF IInv, Types
<1>7. Fits' /\ NothingYet' /\ Continues'
  BY <1>1, <1>4, <1>5 DEF IInv, Fits, NothingYet, Continues, Started, InLoop
<1>8. Counts'
  BY <1>1, <1>2, <1>3, <1>4 DEF Counts, InLoop
<1>9. HighWater'
  BY <1>1, <1>3, <1>4 DEF HighWater, InLoop, Warmed
<1> QED
  BY <1>6, <1>7, <1>8, <1>9 DEF IInv

LEMMA SampleStep ==
  ASSUME IInv, Sample
  PROVE  IInv'
<1>1. PICK token \in Tokens :
        IF IsEos(token)
          THEN Goto("report") /\ UNCHANGED <<emitted, next>>
          ELSE /\ emitted' = Append(emitted, token)
               /\ IF BudgetSpent(Len(emitted'))
                    THEN Goto("report") /\ UNCHANGED next
                    ELSE Goto("decode") /\ next' = token
  BY DEF Sample
<1>2. /\ pc = "loop" /\ decodeSteps < Budget
      /\ UNCHANGED <<args, warmLeft, context, logits, resident, decodeSteps, keysRead>>
  BY DEF Sample, modelVars
<1>3. /\ context = Prompt \o emitted /\ Len(emitted) = decodeSteps
      /\ Len(context) = args.promptLength + decodeSteps
      /\ 2 * keysRead = decodeSteps * (2 * args.promptLength + decodeSteps + 1)
      /\ warmLeft <= 0 /\ resident = Larger(Warmed, Len(context))
  BY <1>2 DEF IInv, Continues, Counts, HighWater, InLoop
<1>4. /\ emitted \in Seq(Token) /\ token \in Token /\ Prompt \in Seq(Token)
      /\ args.promptLength \in 1 .. MaxSeq - 1 /\ next \in Token
      /\ decodeSteps \in Nat /\ Budget \in Int
  <2>1. args.promptLength \in 1 .. MaxSeq - 1
    BY <1>2 DEF IInv, Fits, Started
  <2>2. args.maxNew \in Int /\ MaxSeq \in Nat /\ args.promptLength \in Nat /\ decodeSteps \in Nat
    BY NumberTypes DEF IInv, Types
  <2>3. Budget \in Int
    BY <2>2 DEF Budget
  <2> QED
    BY <2>1, <2>2, <2>3, PromptFacts DEF IInv, Types, Token
<1>5. Prompt' = Prompt /\ Budget' = Budget /\ Warmed' = Warmed
  BY <1>2 DEF Prompt, Budget, Warmed
<1>6. CASE IsEos(token)
  <2>1. pc' = "report" /\ emitted' = emitted /\ next' = next
    BY <1>1, <1>6 DEF Goto
  <2>2. Types' /\ Fits' /\ NothingYet' /\ Continues'
    BY <1>2, <2>1 DEF IInv, Types, Fits, NothingYet, Continues, Started, InLoop
  <2>3. Counts' /\ HighWater'
    BY <1>2, <1>3, <1>5, <2>1 DEF Counts, HighWater, InLoop
  <2> QED
    BY <2>2, <2>3 DEF IInv
<1>7. CASE ~ IsEos(token)
  <2>1. /\ emitted' = Append(emitted, token) /\ pc' \in {"report", "decode"}
        /\ next' \in {next, token}
        /\ pc' = "report" => Len(emitted') >= Budget
        /\ pc' = "decode" => next' = token /\ ~ (Len(emitted') >= Budget)
    BY <1>1, <1>7 DEF Goto, BudgetSpent
  <2>2. emitted' \in Seq(Token) /\ Len(emitted') = decodeSteps + 1
    BY <1>3, <1>4, <2>1, AppendProperties
  <2>3. Types'
    BY <1>2, <1>4, <2>1, <2>2 DEF IInv, Types
  <2>4. Fits' /\ NothingYet'
    BY <1>2, <2>1 DEF IInv, Fits, NothingYet, Started, InLoop
  <2>5. Continues'
    <3>1. context \o <<token>> = Prompt \o Append(emitted, token)
      <4>1. <<token>> \in Seq(Token)
        BY <1>4
      <4>2. (Prompt \o emitted) \o <<token>> = Prompt \o (emitted \o <<token>>)
        BY <1>4, <4>1, ConcatAssociative
      <4>3. Append(emitted, token) = emitted \o <<token>>
        BY <1>4, AppendIsConcat
      <4> QED
        BY <1>3, <4>2, <4>3
    <3>2. pc' = "decode" => next' = token
      BY <2>1
    <3> QED
      BY <1>2, <1>5, <2>1, <3>1, <3>2 DEF Continues
  <2>6. Counts'
    <3> DEFINE produced == Len(emitted')
               budget   == Budget
    <3>1. /\ produced = decodeSteps + 1 /\ decodeSteps \in Nat /\ budget \in Int
          /\ decodeSteps < budget
          /\ pc' = "report" => produced >= budget
          /\ pc' = "decode" => ~ (produced >= budget)
      BY <1>2, <1>4, <2>1, <2>2
    <3> HIDE DEF produced, budget
    <3>2. /\ pc' = "report" => produced = budget
          /\ pc' = "decode" => produced < budget
      BY <3>1
    <3> QED
      BY <1>2, <1>3, <1>5, <2>1, <3>1, <3>2 DEF Counts, InLoop, produced, budget
  <2>7. HighWater'
    BY <1>2, <1>3, <1>5, <2>1 DEF HighWater, InLoop
  <2> QED
    BY <2>3, <2>4, <2>5, <2>6, <2>7 DEF IInv
<1> QED
  BY <1>6, <1>7

LEMMA LoopEndsStep ==
  ASSUME IInv, LoopEnds
  PROVE  IInv'
<1>1. /\ pc = "loop" /\ pc' = "report"
      /\ UNCHANGED <<args, warmLeft, context, logits, resident, emitted, next,
                     decodeSteps, keysRead>>
  BY DEF LoopEnds, Goto, loopVars, modelVars
<1>2. Warmed' = Warmed /\ Budget' = Budget
  BY <1>1 DEF Warmed, Budget
<1> QED
  BY <1>1, <1>2 DEF IInv, Types, Fits, NothingYet, Continues, Counts, HighWater,
                    Started, InLoop

LEMMA TimedDecodeStep ==
  ASSUME IInv, TimedDecode
  PROVE  IInv'
<1>1. /\ pc = "decode" /\ Absorb(<<next>>) /\ pc' = "loop"
      /\ decodeSteps' = decodeSteps + 1 /\ keysRead' = keysRead + Len(context')
      /\ UNCHANGED <<args, warmLeft, emitted, next>>
  BY DEF TimedDecode, Goto
<1>2. /\ next \in Token /\ <<next>> \in Seq(Token) /\ Len(<<next>>) = 1
  BY DEF IInv, Types
<1>3. /\ context \o <<next>> = Prompt \o emitted
      /\ Len(context) = args.promptLength + decodeSteps
      /\ Len(emitted) = decodeSteps + 1
      /\ 2 * keysRead = decodeSteps * (2 * args.promptLength + decodeSteps + 1)
      /\ warmLeft <= 0 /\ resident = Larger(Warmed, Len(context))
  BY <1>1 DEF IInv, Continues, Counts, HighWater, InLoop
<1>4. /\ args.promptLength \in Nat /\ decodeSteps \in Nat /\ keysRead \in Nat
      /\ Warmed \in Nat
  BY NumberTypes DEF Warmed
<1>5. /\ context' = context \o <<next>> /\ logits' = context' /\ context' \in Seq(Token)
      /\ Len(context') = args.promptLength + decodeSteps + 1
      /\ resident' = Larger(resident, Len(context')) /\ resident' \in Nat
  <2>1. /\ context' = context \o <<next>> /\ logits' = context' /\ context' \in Seq(Token)
        /\ Len(context') = Len(context) + Len(<<next>>)
        /\ resident' = Larger(resident, Len(context')) /\ resident' \in Nat
    BY <1>1, <1>2, AbsorbFacts DEF IInv
  <2> QED
    BY <1>2, <1>3, <1>4, <2>1
<1>6. Prompt' = Prompt /\ Warmed' = Warmed
  BY <1>1 DEF Prompt, Warmed
<1>7. decodeSteps' \in Nat /\ keysRead' \in Nat
  BY <1>1, <1>4, <1>5
<1>8. Types'
  BY <1>1, <1>5, <1>7 DEF IInv, Types
<1>9. Fits' /\ NothingYet'
  BY <1>1 DEF IInv, Fits, NothingYet, Started, InLoop
<1>10. Continues'
  BY <1>1, <1>3, <1>5, <1>6 DEF Continues
<1>11. Counts'
  <2>1. 2 * (keysRead + (args.promptLength + decodeSteps + 1))
          = (decodeSteps + 1) * (2 * args.promptLength + (decodeSteps + 1) + 1)
    BY <1>3, <1>4, MeanGrows
  <2>2. 2 * keysRead' = decodeSteps' * (2 * args.promptLength' + decodeSteps' + 1)
    <3>1. keysRead' = keysRead + (args.promptLength + decodeSteps + 1)
      BY <1>1, <1>5
    <3>2. args.promptLength' = args.promptLength
      BY <1>1
    <3> QED
      BY <1>1, <2>1, <3>1, <3>2
  <2>3. Len(context)' = args.promptLength' + decodeSteps'
    <3>1. args.promptLength + decodeSteps + 1 = args.promptLength + (decodeSteps + 1)
      BY <1>4
    <3> QED
      BY <1>1, <1>5, <3>1
  <2>4. Len(emitted') = decodeSteps'
    BY <1>1, <1>3
  <2> QED
    BY <1>1, <2>2, <2>3, <2>4 DEF Counts, InLoop
<1>12. HighWater'
  <2> DEFINE longer == Len(context')
             before == Len(context)
  <2>1. longer = before + 1 /\ before \in Nat
    BY <1>3, <1>4, <1>5
  <2>2. resident' = Larger(Larger(Warmed, before), longer)
    BY <1>3, <1>5
  <2> HIDE DEF longer, before
  <2>3. resident' = Larger(Warmed, longer)
    BY <1>4, <2>1, <2>2 DEF Larger
  <2> QED
    BY <1>1, <1>3, <1>6, <2>3 DEF HighWater, InLoop, longer
<1> QED
  BY <1>8, <1>9, <1>10, <1>11, <1>12 DEF IInv

LEMMA NextIInv == IInv /\ [Next]_vars => IInv'
BY FailingStep, QuietStep, CheckPromptStep, WarmPrefillStep, WarmDecodeStep, WarmResetStep,
   EnableStep, TimedPrefillStep, SampleStep, LoopEndsStep, TimedDecodeStep DEF Next

LEMMA IInvAlways == Spec => []IInv
<1> QED
  BY InitIInv, NextIInv, PTL DEF Spec

-----------------------------------------------------------------------------
(* main.cu:415: one test before the warmup is enough for every prefill and *)
(* decode of the run, whatever the limit and the tokens sampled.           *)
THEOREM CallsAlwaysFit == Spec => []CallsFit
<1>1. IInv => CallsFit
  <2> SUFFICES ASSUME IInv PROVE CallsFit
    OBVIOUS
  <2>1. /\ MaxSeq \in Nat /\ args.promptLength \in Nat /\ args.promptLength <= MaxSeq
        /\ decodeSteps \in Nat
    BY NumberTypes
  <2>2. ASSUME pc \in Started PROVE args.promptLength \in 1 .. MaxSeq - 1
    BY <2>2 DEF IInv, Fits
  <2>3. ASSUME pc = "prefill" \/ pc = "warmup" PROVE Len(context) + args.promptLength <= MaxSeq
    <3>1. Len(context) = 0
      BY <2>3, EmptySeq DEF IInv, NothingYet
    <3> QED
      BY <2>1, <3>1
  <2>4. ASSUME pc = "warm decode" PROVE Len(context) < MaxSeq
    <3>1. Len(context) = args.promptLength /\ args.promptLength \in 1 .. MaxSeq - 1
      BY <2>2, <2>4 DEF IInv, NothingYet, Started
    <3> QED
      BY <2>1, <3>1
  <2>5. ASSUME pc = "decode" PROVE Len(context) < MaxSeq
    <3>1. /\ Len(context) = args.promptLength + decodeSteps
          /\ Len(emitted) = decodeSteps + 1 /\ Len(emitted) < Budget
      BY <2>5 DEF IInv, Counts, InLoop
    <3>2. args.maxNew \in Int
      BY DEF IInv, Types
    <3>3. Budget \in Int /\ Budget <= MaxSeq - args.promptLength
      BY <2>1, <3>2 DEF Budget
    <3> QED
      BY <2>1, <3>1, <3>3
  <2> QED
    BY <2>3, <2>4, <2>5 DEF CallsFit
<1> QED
  BY <1>1, IInvAlways, PTL

(* main.cu:456: every token is sampled from the prompt and exactly the     *)
(* tokens printed before it, whatever the warmup left in the model.        *)
THEOREM PromptContinued == Spec => []ContinuesPrompt
<1>1. IInv => ContinuesPrompt
  BY DEF IInv, Continues, ContinuesPrompt
<1> QED
  BY <1>1, IInvAlways, PTL

(* The decode steps and the tokens printed stay aligned on all three exits *)
(* of the loop, and the budget is never exceeded.                          *)
THEOREM StepsAligned == Spec => []StepsFollowTokens
<1>1. IInv => StepsFollowTokens
  BY DEF IInv, Counts, StepsFollowTokens
<1> QED
  BY <1>1, IInvAlways, PTL

(* main.cu:213: the closed form of the mean cache length is exact, and the *)
(* resident length is off by the warmup's one position at most.            *)
THEOREM ReportAlwaysExact == Spec => []ReportExact
<1>1. IInv => ReportExact
  <2> SUFFICES ASSUME IInv, pc = "report"
               PROVE  /\ 2 * keysRead = decodeSteps * TwiceMeanLength
                      /\ resident = Len(context)
                           + IF args.warmup > 0 /\ decodeSteps = 0 THEN 1 ELSE 0
    BY DEF ReportExact
  <2>1. /\ args.promptLength \in Nat /\ decodeSteps \in Nat
        /\ warmLeft \in Int /\ args.warmup \in Int /\ warmLeft <= args.warmup
        /\ warmLeft < args.warmup => warmLeft >= 0
    BY NumberTypes
  <2>2. /\ 2 * keysRead = decodeSteps * (2 * args.promptLength + decodeSteps + 1)
        /\ Len(context) = args.promptLength + decodeSteps
        /\ resident = Larger(Warmed, Len(context)) /\ warmLeft <= 0
    BY DEF IInv, Counts, HighWater, InLoop
  <2>3. 2 * keysRead = decodeSteps * TwiceMeanLength
    BY <2>2 DEF TwiceMeanLength
  <2>4. resident = Larger(IF args.warmup > 0 THEN args.promptLength + 1 ELSE 0,
                          args.promptLength + decodeSteps)
    <3>1. warmLeft < args.warmup <=> args.warmup > 0
      BY <2>1, <2>2
    <3> QED
      BY <2>2, <3>1 DEF Warmed
  <2>5. resident = args.promptLength + decodeSteps
                     + IF args.warmup > 0 /\ decodeSteps = 0 THEN 1 ELSE 0
    BY <2>1, <2>4 DEF Larger
  <2> QED
    BY <2>2, <2>3, <2>5
<1> QED
  BY <1>1, IInvAlways, PTL

-----------------------------------------------------------------------------
(***************************************************************************)
(* The events of the profiler.  While a call is measured its spans are the *)
(* stages done and the one under way, and span i holds events 2i - 1 and   *)
(* 2i: this makes the invariant inductive, for it says which event of the  *)
(* pool comes next.                                                        *)
(***************************************************************************)
Span     == [name : StageNames, start : Nat, stop : Nat \cup {Open}]
Measured == {"prefill", "decode", "failed", "terminated"}

PrefillPasses == (args.promptLength + Chunk - 1) \div Chunk
MostStages    == Len(PassStages) * PrefillPasses
Opened        == IF HasOpenSpan THEN 1 ELSE 0

EventTypes ==
  /\ spans \in Seq(Span) /\ pool \in Seq(Int) /\ now \in Int
  /\ poolUsed \in Nat /\ stagesDone \in Nat

InOrder ==
  \A i \in 1 .. Len(spans) :
    /\ spans[i].start = 2 * i - 1
    /\ spans[i].stop = 2 * i \/ (spans[i].stop = Open /\ i = Len(spans))

PoolCovers ==
  /\ poolUsed = 2 * Len(spans) - Opened
  /\ poolUsed <= Len(pool)
  /\ Len(pool) <= 2 * MostStages

SpansAreStages ==
  /\ profiling => pc \notin {"check", "warmup", "warm decode", "warm reset"}
  /\ ~profiling \/ pc \notin Measured => spans = << >> /\ stagesDone = 0
  /\ HasOpenSpan => pc \in {"prefill", "decode", "terminated"}
  /\ pc \in {"prefill", "decode"} =>
       Len(spans) = stagesDone + Opened /\ Len(spans) <= AllStages

EventsInv == EventTypes /\ InOrder /\ PoolCovers /\ SpansAreStages

-----------------------------------------------------------------------------
LEMMA QuotientAtLeastOne ==
  ASSUME NEW p \in Nat, NEW c \in Nat \ {0}
  PROVE  /\ (p + c - 1) \div c \in Nat
         /\ p > 0 => (p + c - 1) \div c >= 1
<1> DEFINE q == (p + c - 1) \div c
<1>1. q \in Int /\ c * q <= p + c - 1 /\ p + c - 1 < c * q + c
  OBVIOUS
<1> HIDE DEF q
<1>2. q >= 0
  <2>1. ASSUME q < 0 PROVE FALSE
    <3>1. c * q + c <= 0
      <4>1. q + 1 <= 0
        BY <1>1, <2>1
      <4>2. c * (q + 1) <= 0
        BY <1>1, <4>1
      <4> QED
        BY <1>1, <4>2
    <3> QED
      BY <1>1, <3>1
  <2> QED
    BY <1>1, <2>1
<1>3. ASSUME p > 0, q = 0 PROVE FALSE
  BY <1>1, <1>3
<1> QED
  BY <1>1, <1>2, <1>3 DEF q

LEMMA ListedIsSeq ==
  ASSUME NEW S, NEW n \in Nat, NEW f, f = [i \in 1 .. n |-> f[i]],
         \A i \in 1 .. n : f[i] \in S
  PROVE  f \in Seq(S)
<1>1. f \in [1 .. n -> S]
  OBVIOUS
<1> QED
  BY <1>1, SeqDef

LEMMA AroundSeq ==
  ASSUME NEW S, NEW s \in Seq(S), NEW a \in S, NEW b \in S
  PROVE  <<a>> \o s \o <<b>> \in Seq(S) /\ Len(<<a>> \o s \o <<b>>) = Len(s) + 2
<1>1. <<a>> \in Seq(S) /\ <<b>> \in Seq(S) /\ Len(<<a>>) = 1 /\ Len(<<b>>) = 1
      /\ Len(s) \in Nat
  BY LenProperties
<1>2. <<a>> \o s \in Seq(S) /\ Len(<<a>> \o s) = 1 + Len(s)
  BY <1>1, ConcatProperties
<1>3. (<<a>> \o s) \o <<b>> \in Seq(S) /\ Len((<<a>> \o s) \o <<b>>) = (1 + Len(s)) + 1
  BY <1>1, <1>2, ConcatProperties
<1> QED
  BY <1>1, <1>3

LEMMA StagesBounded ==
  ASSUME Types
  PROVE  /\ Len(PassStages) \in Nat \ {0} /\ PassStages \in Seq(StageNames)
         /\ MostStages \in Nat /\ PrefillPasses \in Nat
         /\ 2 * Len(PassStages) * PrefillPasses = 2 * MostStages
         /\ AllStages \in Nat
         /\ args.promptLength > 0 => AllStages <= MostStages
<1>1. args.promptLength \in Nat /\ Chunk \in Nat \ {0}
  BY GenerateAssumption DEF Types
<1>2. Len(PassStages) \in Nat \ {0} /\ PassStages \in Seq(StageNames)
  <2> DEFINE n     == NumLayers * Len(LayerStages)
             Names == {AllLayers[i] : i \in 1 .. n} \cup {"rmsnorm", "lm_head (GEMM)"}
  <2>1. n \in Nat
    <3>1. Len(LayerStages) = 9
      BY DEF LayerStages
    <3> QED
      BY <3>1, ProfilerAssumption
  <2>2. AllLayers = [i \in 1 .. n |-> AllLayers[i]]
    BY DEF AllLayers
  <2>3. /\ \A i \in 1 .. n : AllLayers[i] \in Names
        /\ "rmsnorm" \in Names /\ "lm_head (GEMM)" \in Names
    OBVIOUS
  <2> HIDE DEF n, Names
  <2>4. AllLayers \in Seq(Names)
    BY <2>1, <2>2, <2>3, ListedIsSeq
  <2>5. PassStages \in Seq(Names) /\ Len(PassStages) = Len(AllLayers) + 2
    BY <2>3, <2>4, AroundSeq DEF PassStages
  <2>6. Len(PassStages) \in Nat \ {0} /\ DOMAIN PassStages = 1 .. Len(PassStages)
        /\ PassStages = [i \in 1 .. Len(PassStages) |-> PassStages[i]]
    <3>1. Len(AllLayers) \in Nat
      BY <2>4, LenProperties
    <3> QED
      BY <2>5, <3>1, LenProperties
  <2>7. \A i \in 1 .. Len(PassStages) : PassStages[i] \in StageNames
    BY <2>6 DEF StageNames, ToSet
  <2> QED
    BY <2>6, <2>7, ListedIsSeq
<1>4. PrefillPasses \in Nat /\ (args.promptLength > 0 => PrefillPasses >= 1)
  BY <1>1, QuotientAtLeastOne DEF PrefillPasses
<1>5. Passes \in Nat /\ (args.promptLength > 0 => Passes <= PrefillPasses)
  BY <1>4 DEF Passes, PrefillPasses
<1> DEFINE n == Len(PassStages)
           most == PrefillPasses
           some == Passes
<1>6. /\ n \in Nat /\ most \in Nat /\ some \in Nat
      /\ args.promptLength > 0 => some <= most
  BY <1>2, <1>4, <1>5
<1>7. AllStages = some * n /\ MostStages = n * most
  BY DEF AllStages, MostStages
<1> HIDE DEF n, most, some
<1>8. some * n \in Nat /\ n * most \in Nat /\ (2 * n) * most = 2 * (n * most)
  BY <1>6
<1>9. ASSUME some <= most PROVE some * n <= n * most
  <2>1. PICK more \in Nat : most = some + more
    <3>1. most - some \in Nat /\ most = some + (most - some)
      BY <1>6, <1>9
    <3> QED
      BY <3>1
  <2>2. n * (some + more) = some * n + n * more /\ n * more \in Nat
    BY <1>6
  <2> QED
    BY <1>6, <1>8, <2>1, <2>2
<1> QED
  BY <1>2, <1>4, <1>6, <1>7, <1>8, <1>9 DEF n, most

(* acquire_event extends the pool only when all its events are in use.     *)
LEMMA RecordedFacts ==
  ASSUME EventTypes, poolUsed <= Len(pool), NEW time \in Int
  PROVE  /\ Recorded(Event, time) \in Seq(Int)
         /\ Len(Recorded(Event, time)) = Larger(Len(pool), poolUsed + 1)
<1>1. pool \in Seq(Int) /\ Len(pool) \in Nat /\ poolUsed \in Nat /\ DOMAIN pool = 1 .. Len(pool)
  BY LenProperties DEF EventTypes
<1> DEFINE e == Event
           l == Len(pool)
<1>2. e = poolUsed + 1 /\ l \in Nat /\ poolUsed <= l
  BY <1>1 DEF Event
<1>3. CASE e \in DOMAIN pool
  <2>1. Recorded(e, time) = [pool EXCEPT ![e] = time]
    BY <1>3 DEF Recorded
  <2>2. [pool EXCEPT ![e] = time] \in Seq(Int)
        /\ Len([pool EXCEPT ![e] = time]) = Len(pool)
    BY <1>1, <1>3, ExceptSeq
  <2> HIDE DEF e, l
  <2>3. Larger(l, poolUsed + 1) = l
    <3>1. e \in 1 .. l
      BY <1>1, <1>3 DEF l
    <3> QED
      BY <1>1, <1>2, <3>1 DEF Larger
  <2> QED
    BY <2>1, <2>2, <2>3 DEF e, l
<1>4. CASE e \notin DOMAIN pool
  <2>1. Recorded(e, time) = Append(pool, time)
    BY <1>4 DEF Recorded
  <2>2. Append(pool, time) \in Seq(Int) /\ Len(Append(pool, time)) = l + 1
    BY <1>1, AppendProperties
  <2>3. e \notin 1 .. l
    BY <1>1, <1>4
  <2> HIDE DEF e, l
  <2>4. Larger(l, poolUsed + 1) = l + 1
    BY <1>1, <1>2, <2>3 DEF Larger
  <2> QED
    BY <2>1, <2>2, <2>4 DEF e, l
<1> QED
  BY <1>3, <1>4

LEMMA SpanFacts ==
  ASSUME EventsInv
  PROVE  /\ Len(spans) \in Nat /\ Len(pool) \in Nat /\ poolUsed \in Nat /\ stagesDone \in Nat
         /\ Opened \in {0, 1} /\ (Opened = 1 <=> HasOpenSpan)
         /\ spans = << >> => ~HasOpenSpan /\ Len(spans) = 0 /\ Opened = 0 /\ poolUsed = 0
         /\ HasOpenSpan => Len(spans) > 0 /\ spans[Len(spans)].stop = Open
         /\ Open \notin Nat
<1>1. Len(spans) \in Nat /\ Len(pool) \in Nat /\ poolUsed \in Nat /\ stagesDone \in Nat
  BY LenProperties DEF EventsInv, EventTypes
<1>2. Opened \in {0, 1} /\ (Opened = 1 <=> HasOpenSpan)
  BY DEF Opened
<1>3. spans = << >> => ~HasOpenSpan /\ Len(spans) = 0
  BY EmptySeq DEF HasOpenSpan
<1>4. HasOpenSpan => Len(spans) > 0 /\ spans[Len(spans)].stop = Open
  <2>1. spans # << >> => Len(spans) \in Nat \ {0}
    BY EmptySeq DEF EventsInv, EventTypes
  <2> QED
    BY <2>1 DEF HasOpenSpan, Last
<1>5. Opened = 0 /\ Len(spans) = 0 => poolUsed = 0
  BY <1>1 DEF EventsInv, PoolCovers
<1> QED
  BY <1>1, <1>2, <1>3, <1>4, <1>5, ProfilerAssumption

(* A step that leaves the profiler alone.                                  *)
LEMMA ProfilerAlone ==
  ASSUME EventsInv, UNCHANGED <<args, stagesDone, profilerVars>>, SpansAreStages'
  PROVE  EventsInv'
<1>1. UNCHANGED <<args, stagesDone, profiling, spans, pool, poolUsed, now>>
  BY DEF profilerVars
<1>2. Opened' = Opened /\ MostStages' = MostStages
  BY <1>1 DEF Opened, HasOpenSpan, MostStages, PrefillPasses
<1> QED
  BY <1>1, <1>2 DEF EventsInv, EventTypes, InOrder, PoolCovers

LEMMA AloneStep ==
  ASSUME IInv, EventsInv,
         CheckPrompt \/ WarmReset \/ Sample \/ LoopEnds \/ Terminate \/ Stopped \/ UNCHANGED vars
  PROVE  EventsInv'
<1>1. UNCHANGED <<args, stagesDone, profilerVars>>
  BY DEF CheckPrompt, WarmReset, Sample, LoopEnds, Terminate, Stopped, modelVars, vars
<1>2. /\ profiling' = profiling /\ spans' = spans /\ stagesDone' = stagesDone
      /\ HasOpenSpan' = HasOpenSpan /\ Opened' = Opened
  BY <1>1 DEF profilerVars, HasOpenSpan, Opened
<1>3. SpansAreStages
  BY DEF EventsInv
<1>4. ASSUME pc' = pc PROVE SpansAreStages'
  <2>1. AllStages' = AllStages
    BY <1>1, <1>4 DEF AllStages, Passes
  <2> QED
    BY <1>2, <1>3, <1>4, <2>1 DEF SpansAreStages
<1>5. ASSUME pc \notin Measured, pc' \in {"report", "refused"}
      PROVE  SpansAreStages'
  BY <1>2, <1>3, <1>5 DEF SpansAreStages, Measured
<1>6. ASSUME pc \in {"check", "warm reset"}, pc' \in {"warmup", "refused"}
      PROVE  SpansAreStages'
  BY <1>2, <1>3, <1>6 DEF SpansAreStages, Measured
<1>7. ASSUME pc = "loop", pc' = "decode" PROVE SpansAreStages'
  <2>1. spans = << >> /\ stagesDone = 0
    BY <1>3, <1>7 DEF SpansAreStages, Measured
  <2>2. ~HasOpenSpan /\ Len(spans) = 0 /\ Opened = 0
    BY <2>1, SpanFacts
  <2>3. AllStages' \in Nat
    <3>1. Len(PassStages) \in Nat
      BY StagesBounded DEF IInv
    <3>2. AllStages' = 1 * Len(PassStages)
      BY <1>7 DEF AllStages, Passes
    <3> QED
      BY <3>1, <3>2
  <2>4. 0 = 0 + 0 /\ 0 <= AllStages'
    BY <2>3
  <2> QED
    BY <1>2, <1>3, <1>7, <2>1, <2>2, <2>4 DEF SpansAreStages, Measured
<1>8. ASSUME pc \in {"prefill", "decode"} \/ ~HasOpenSpan, pc' = "terminated", HasOpenSpan
      PROVE  SpansAreStages'
  BY <1>2, <1>3, <1>8, SpanFacts DEF SpansAreStages, Measured
<1>9. CASE CheckPrompt
  BY <1>1, <1>6, <1>9, ProfilerAlone DEF CheckPrompt, Goto
<1>10. CASE WarmReset
  BY <1>1, <1>6, <1>10, ProfilerAlone DEF WarmReset, Goto
<1>11. CASE Sample
  <2>1. pc = "loop" /\ pc' \in {"report", "decode"}
    BY <1>11 DEF Sample, Goto
  <2> QED
    BY <1>1, <1>5, <1>7, <2>1, ProfilerAlone DEF Measured
<1>12. CASE LoopEnds
  BY <1>1, <1>5, <1>12, ProfilerAlone DEF LoopEnds, Goto, Measured
<1>13. CASE Terminate
  <2>1. HasOpenSpan /\ pc' = "terminated" /\ pc # "terminated"
    BY <1>13 DEF Terminate, Goto, Calling
  <2>2. pc \in {"prefill", "decode"}
    BY <1>3, <2>1 DEF SpansAreStages
  <2> QED
    BY <1>1, <1>8, <2>1, <2>2, ProfilerAlone
<1>14. CASE Stopped \/ UNCHANGED vars
  BY <1>1, <1>4, <1>14, ProfilerAlone DEF Stopped, vars
<1> QED
  BY <1>9, <1>10, <1>11, <1>12, <1>13, <1>14

(* The first event of a stage, and the last.                               *)
LEMMA BeginStep ==
  ASSUME IInv, EventsInv, BeginStage
  PROVE  EventsInv'
<1> DEFINE name == PassStages[(stagesDone % Len(PassStages)) + 1]
           span == [name |-> name, start |-> Event, stop |-> Open]
           n    == Len(spans)
<1>1. /\ Calling /\ profiling /\ ~HasOpenSpan /\ stagesDone < AllStages
      /\ now' = now + 1 /\ pool' = Recorded(Event, now') /\ poolUsed' = poolUsed + 1
      /\ spans' = Append(spans, span)
      /\ UNCHANGED <<args, pc, profiling, stagesDone>>
  BY DEF BeginStage, Begin
<1>2. pc \in {"prefill", "decode"}
  BY <1>1 DEF EventsInv, SpansAreStages, Calling
<1>3. /\ Opened = 0 /\ n \in Nat /\ n = stagesDone /\ poolUsed \in Nat /\ Len(pool) \in Nat
      /\ poolUsed = 2 * n /\ poolUsed <= Len(pool) /\ Len(pool) <= 2 * MostStages
  <2>1. /\ Opened = 0 /\ n \in Nat /\ poolUsed \in Nat /\ Len(pool) \in Nat /\ stagesDone \in Nat
    BY <1>1, SpanFacts
  <2>2. n = stagesDone + Opened /\ poolUsed = 2 * n - Opened
        /\ poolUsed <= Len(pool) /\ Len(pool) <= 2 * MostStages
    BY <1>2 DEF EventsInv, SpansAreStages, PoolCovers
  <2> HIDE DEF n
  <2> QED
    BY <2>1, <2>2
<1>4. /\ AllStages \in Nat /\ MostStages \in Nat /\ AllStages <= MostStages
  <2>1. args.promptLength > 0
    <3>1. args.promptLength \in 1 .. MaxSeq - 1
      BY <1>2 DEF IInv, Fits, Started
    <3> QED
      BY <3>1
  <2> QED
    BY <2>1, StagesBounded DEF IInv
<1>5. span \in Span
  <2>1. name \in StageNames
    <3>1. Len(PassStages) \in Nat \ {0} /\ PassStages \in Seq(StageNames)
      BY StagesBounded DEF IInv
    <3>2. (stagesDone % Len(PassStages)) + 1 \in 1 .. Len(PassStages)
      BY <1>3, <3>1
    <3> QED
      BY <3>1, <3>2, ElementOfSeq
  <2>2. Event \in Nat
    BY <1>3 DEF Event
  <2> HIDE DEF name
  <2> QED
    BY <2>1, <2>2 DEF Span
<1>6. /\ spans' \in Seq(Span) /\ Len(spans') = n + 1
      /\ \A i \in 1 .. n : spans'[i] = spans[i]
      /\ spans'[n + 1] = span
  BY <1>1, <1>5, AppendProperties DEF EventsInv, EventTypes
<1>7. /\ pool' \in Seq(Int) /\ Len(pool') = Larger(Len(pool), poolUsed + 1) /\ now' \in Int
  <2>1. now' \in Int
    BY <1>1 DEF EventsInv, EventTypes
  <2> QED
    BY <1>1, <1>3, <2>1, RecordedFacts DEF EventsInv
<1>8. EventTypes'
  BY <1>1, <1>3, <1>6, <1>7 DEF EventsInv, EventTypes
<1>9. InOrder'
  <2>1. span.start = 2 * n + 1 /\ span.stop = Open
    BY <1>3 DEF Event
  <2>2. \A i \in 1 .. n : spans[i].start = 2 * i - 1 /\ spans[i].stop = 2 * i
    <3>1. \A i \in 1 .. n : spans[i].start = 2 * i - 1
                            /\ (spans[i].stop = 2 * i \/ (spans[i].stop = Open /\ i = n))
      BY DEF EventsInv, InOrder
    <3>2. n > 0 => spans[n].stop # Open
      <4>1. n = Len(spans) /\ Len(<< >>) = 0
        BY EmptySeq
      <4> QED
        BY <1>1, <4>1 DEF HasOpenSpan, Last
    <3> QED
      BY <1>3, <3>1, <3>2
  <2> HIDE DEF n, span
  <2>3. SUFFICES ASSUME NEW i \in 1 .. n + 1
                 PROVE  spans'[i].start = 2 * i - 1
                        /\ (spans'[i].stop = 2 * i \/ (spans'[i].stop = Open /\ i = n + 1))
    BY <1>6 DEF InOrder
  <2>4. CASE i \in 1 .. n
    BY <1>6, <2>2, <2>4
  <2>5. CASE i = n + 1
    <3>1. 2 * i - 1 = 2 * n + 1
      BY <1>3, <2>5
    <3> QED
      BY <1>6, <2>1, <2>5, <3>1
  <2> QED
    BY <1>3, <2>4, <2>5
<1>10. HasOpenSpan' /\ Opened' = 1
  <2>1. Len(spans') # 0
    BY <1>3, <1>6
  <2>2. spans' # << >>
    BY <2>1, EmptySeq
  <2>3. spans'[Len(spans')].stop = Open
    BY <1>6
  <2> QED
    BY <2>2, <2>3 DEF HasOpenSpan, Opened, Last
<1>11. PoolCovers'
  <2>1. MostStages' = MostStages
    BY <1>1 DEF MostStages, PrefillPasses
  <2> DEFINE l == Len(pool)
             m == Len(pool')
             k == Len(spans')
  <2>2. k = n + 1 /\ m = Larger(l, poolUsed + 1) /\ l \in Nat /\ l <= 2 * MostStages
        /\ poolUsed <= l /\ n + 1 <= AllStages
    BY <1>1, <1>3, <1>4, <1>6, <1>7
  <2> HIDE DEF n, l, m, k
  <2>3. poolUsed' = 2 * k - 1 /\ poolUsed' <= m /\ m <= 2 * MostStages
    BY <1>1, <1>3, <1>4, <2>2 DEF Larger
  <2> QED
    BY <1>10, <2>1, <2>3 DEF PoolCovers, k, m
<1>12. SpansAreStages'
  <2>1. AllStages' = AllStages
    BY <1>1 DEF AllStages, Passes
  <2>2. n + 1 = stagesDone + 1 /\ n + 1 <= AllStages
    BY <1>1, <1>3, <1>4
  <2> HIDE DEF n
  <2> QED
    BY <1>1, <1>2, <1>6, <1>10, <2>1, <2>2 DEF SpansAreStages, Measured
<1> QED
  BY <1>8, <1>9, <1>11, <1>12 DEF EventsInv

LEMMA EndFacts ==
  ASSUME IInv, EventsInv, Calling, End, args' = args, stagesDone' \in Nat
  PROVE  /\ EventTypes' /\ InOrder' /\ PoolCovers'
         /\ pc \in {"prefill", "decode"} /\ profiling' = profiling /\ profiling
         /\ Len(spans') = Len(spans) /\ Opened = 1
         /\ ~HasOpenSpan' /\ Opened' = 0
<1> DEFINE n == Len(spans)
           span == [spans[n] EXCEPT !.stop = Event]
<1>1. /\ HasOpenSpan
      /\ now' = now + Work(Last(spans).name)
      /\ pool' = Recorded(Event, now') /\ poolUsed' = poolUsed + 1
      /\ spans' = [spans EXCEPT ![n].stop = Event] /\ profiling' = profiling
  BY DEF End
<1>2. pc \in {"prefill", "decode"}
  BY <1>1 DEF EventsInv, SpansAreStages, Calling
<1>3. profiling
  BY <1>1, SpanFacts DEF EventsInv, SpansAreStages
<1>4. /\ Opened = 1 /\ n \in Nat /\ n > 0 /\ poolUsed \in Nat /\ Len(pool) \in Nat
      /\ spans[n].stop = Open /\ Open \notin Nat
      /\ poolUsed = 2 * n - 1 /\ poolUsed <= Len(pool) /\ Len(pool) <= 2 * MostStages
      /\ n <= AllStages
  <2>1. /\ Opened = 1 /\ n \in Nat /\ n > 0 /\ poolUsed \in Nat /\ Len(pool) \in Nat
        /\ spans[n].stop = Open /\ Open \notin Nat
    BY <1>1, SpanFacts
  <2>2. poolUsed = 2 * n - Opened /\ n <= AllStages
        /\ poolUsed <= Len(pool) /\ Len(pool) <= 2 * MostStages
    BY <1>2 DEF EventsInv, SpansAreStages, PoolCovers
  <2> QED
    BY <2>1, <2>2
<1>5. /\ AllStages \in Nat /\ MostStages \in Nat /\ AllStages <= MostStages
  <2>1. args.promptLength > 0
    <3>1. args.promptLength \in 1 .. MaxSeq - 1
      BY <1>2 DEF IInv, Fits, Started
    <3> QED
      BY <3>1
  <2> QED
    BY <2>1, StagesBounded DEF IInv
<1>6. Event = 2 * n
  <2>1. Event = poolUsed + 1 /\ poolUsed = 2 * n - 1 /\ n \in Nat
    BY <1>4 DEF Event
  <2> HIDE DEF n
  <2> QED
    BY <2>1
<1>7. /\ spans \in Seq(Span) /\ DOMAIN spans = 1 .. n /\ spans[n] \in Span
  BY <1>4, LenProperties, ElementOfSeq DEF EventsInv, EventTypes
<1>8. /\ span.start = spans[n].start /\ span.name = spans[n].name /\ span.stop = Event
      /\ span \in Span
  BY <1>4, <1>6, <1>7 DEF Span
<1>9. /\ spans' \in Seq(Span) /\ Len(spans') = n
      /\ \A i \in 1 .. n : spans'[i] = IF i = n THEN span ELSE spans[i]
  <2>1. spans' = [spans EXCEPT ![n] = span]
    BY <1>1, <1>7
  <2> HIDE DEF span
  <2> QED
    BY <1>4, <1>7, <1>8, <2>1, ExceptSeq
<1>10. /\ pool' \in Seq(Int) /\ Len(pool') = Larger(Len(pool), poolUsed + 1) /\ now' \in Int
  <2>1. now' \in Int
    BY <1>1 DEF EventsInv, EventTypes, Work
  <2> QED
    BY <1>1, <1>4, <2>1, RecordedFacts DEF EventsInv
<1>11. EventTypes'
  BY <1>1, <1>4, <1>9, <1>10 DEF EventTypes
<1>12. ~HasOpenSpan' /\ Opened' = 0
  <2>1. spans'[Len(spans')].stop = Event /\ Event \in Nat
    <3>1. 2 * n \in Nat
      BY <1>4
    <3> HIDE DEF n, span
    <3> QED
      BY <1>4, <1>6, <1>8, <1>9, <3>1
  <2> QED
    BY <1>4, <2>1 DEF HasOpenSpan, Opened, Last
<1>13. InOrder'
  <2>1. \A i \in 1 .. n : spans[i].start = 2 * i - 1
                          /\ (spans[i].stop = 2 * i \/ (spans[i].stop = Open /\ i = n))
    BY DEF EventsInv, InOrder
  <2>2. ASSUME NEW i \in 1 .. n
        PROVE  spans'[i].start = 2 * i - 1 /\ spans'[i].stop = 2 * i
    <3>1. CASE i = n
      BY <1>6, <1>8, <1>9, <2>1, <3>1
    <3>2. CASE i # n
      BY <1>9, <2>1, <3>2
    <3> QED
      BY <3>1, <3>2
  <2> QED
    BY <1>9, <2>2 DEF InOrder
<1>14. PoolCovers'
  <2>1. MostStages' = MostStages
    BY DEF MostStages, PrefillPasses
  <2> DEFINE l == Len(pool)
             m == Len(pool')
             k == Len(spans')
  <2>2. k = n /\ m = Larger(l, poolUsed + 1) /\ l \in Nat /\ l <= 2 * MostStages
        /\ poolUsed <= l /\ n \in Nat /\ n <= AllStages /\ poolUsed = 2 * n - 1
    BY <1>4, <1>9, <1>10
  <2> HIDE DEF n, l, m, k
  <2>3. poolUsed' = 2 * k - 0 /\ poolUsed' <= m /\ m <= 2 * MostStages
    BY <1>1, <1>5, <2>2 DEF Larger
  <2> QED
    BY <1>12, <2>1, <2>3 DEF PoolCovers, k, m
<1> QED
  BY <1>1, <1>2, <1>3, <1>4, <1>9, <1>11, <1>12, <1>13, <1>14

LEMMA EndStep ==
  ASSUME IInv, EventsInv, EndStage
  PROVE  EventsInv'
<1>1. Calling /\ End /\ stagesDone' = stagesDone + 1 /\ args' = args /\ pc' = pc
  BY DEF EndStage
<1>2. stagesDone \in Nat /\ stagesDone' \in Nat
  BY <1>1 DEF EventsInv, EventTypes
<1>3. /\ EventTypes' /\ InOrder' /\ PoolCovers'
      /\ pc \in {"prefill", "decode"} /\ profiling' /\ profiling
      /\ Len(spans') = Len(spans) /\ Opened = 1 /\ ~HasOpenSpan' /\ Opened' = 0
  BY <1>1, <1>2, EndFacts
<1>4. Len(spans) = stagesDone + 1 /\ Len(spans) <= AllStages
  BY <1>3 DEF EventsInv, SpansAreStages
<1>5. AllStages' = AllStages
  BY <1>1 DEF AllStages, Passes
<1>6. Len(spans') = stagesDone' + 0
  BY <1>1, <1>2, <1>3, <1>4
<1> QED
  BY <1>1, <1>3, <1>4, <1>5, <1>6 DEF EventsInv, SpansAreStages, Measured

(* A span is open only while a call is under way, not when sampling throws. *)
LEMMA OpenSpanIsOfCall ==
  ASSUME EventsInv, MayThrow, HasOpenSpan
  PROVE  Calling
BY DEF EventsInv, SpansAreStages, MayThrow, Calling

(* A failing call closes the scope it is in.                               *)
LEMMA ThrowStep ==
  ASSUME IInv, EventsInv, Throw
  PROVE  EventsInv'
<1>1. /\ MayThrow /\ pc' = "failed" /\ args' = args /\ stagesDone' = stagesDone
      /\ IF HasOpenSpan THEN End ELSE UNCHANGED profilerVars
  BY DEF Throw, Goto
<1>2. CASE HasOpenSpan
  <2>0. Calling
    BY <1>1, <1>2, OpenSpanIsOfCall
  <2>1. stagesDone' \in Nat
    BY <1>1 DEF EventsInv, EventTypes
  <2>2. /\ EventTypes' /\ InOrder' /\ PoolCovers' /\ profiling' /\ ~HasOpenSpan'
    BY <1>1, <1>2, <2>0, <2>1, EndFacts
  <2> QED
    BY <1>1, <2>2 DEF EventsInv, SpansAreStages, Measured
<1>3. CASE ~HasOpenSpan
  <2>1. UNCHANGED profilerVars /\ HasOpenSpan' = HasOpenSpan
    BY <1>1, <1>3 DEF profilerVars, HasOpenSpan
  <2>2. SpansAreStages'
    <3>1. pc # "failed" /\ pc # "terminated"
      BY <1>1 DEF MayThrow, Calling
    <3> QED
      BY <1>1, <1>3, <2>1 DEF profilerVars, EventsInv, SpansAreStages, Measured
  <2> QED
    BY <1>1, <2>1, <2>2, ProfilerAlone
<1> QED
  BY <1>2, <1>3

(* The spans are let go of: the totals are all that is left of a call.     *)
LEMMA SpansCleared ==
  ASSUME EventsInv, UNCHANGED <<args, pool, now>>, spans' = << >>, poolUsed' = 0,
         stagesDone' = 0, pc' \in {"prefill", "loop"}, IInv
  PROVE  EventsInv'
<1>1. /\ spans' \in Seq(Span) /\ Len(spans') = 0 /\ ~HasOpenSpan' /\ Opened' = 0
  BY EmptySeq DEF HasOpenSpan, Opened
<1>2. EventTypes' /\ InOrder'
  BY <1>1 DEF EventsInv, EventTypes, InOrder
<1>3. PoolCovers'
  <2>1. MostStages' = MostStages
    BY DEF MostStages, PrefillPasses
  <2>2. Len(pool) \in Nat /\ Len(pool) <= 2 * MostStages
    BY SpanFacts DEF EventsInv, PoolCovers
  <2> QED
    BY <1>1, <2>1, <2>2 DEF PoolCovers
<1>4. SpansAreStages'
  <2>1. pc' = "prefill" => AllStages' \in Nat
    <3>1. Len(PassStages) \in Nat /\ PrefillPasses \in Nat
      BY StagesBounded DEF IInv
    <3>2. pc' = "prefill" => AllStages' = PrefillPasses * Len(PassStages)
      BY DEF AllStages, Passes, PrefillPasses
    <3> QED
      BY <3>1, <3>2
  <2>2. 0 = 0 + 0 /\ (pc' = "prefill" => 0 <= AllStages')
    BY <2>1
  <2> QED
    BY <1>1, <2>2 DEF SpansAreStages, Measured
<1> QED
  BY <1>2, <1>3, <1>4 DEF EventsInv

LEMMA CallStep ==
  ASSUME IInv, EventsInv, WarmPrefill \/ WarmDecode \/ TimedPrefill \/ TimedDecode
  PROVE  EventsInv'
<1>1. PICK tokens : Absorb(tokens)
  BY DEF WarmPrefill, WarmDecode, TimedPrefill, TimedDecode
<1>2. args' = args
  BY DEF WarmPrefill, WarmDecode, TimedPrefill, TimedDecode
<1>3. \/ pc \in {"warmup", "warm decode"} /\ pc' \in {"warm decode", "warm reset"}
      \/ pc \in {"prefill", "decode"} /\ pc' = "loop"
  BY DEF WarmPrefill, WarmDecode, TimedPrefill, TimedDecode, Goto
<1>4. IF profiling
        THEN stagesDone = AllStages /\ stagesDone' = 0 /\ Collect
        ELSE UNCHANGED <<stagesDone, profilerVars>>
  BY <1>1 DEF Absorb
<1>5. CASE profiling
  <2>1. stagesDone' = 0 /\ spans' = << >> /\ poolUsed' = 0 /\ UNCHANGED <<pool, now>>
    BY <1>4, <1>5 DEF Collect
  <2>2. pc' = "loop"
    BY <1>3, <1>5 DEF EventsInv, SpansAreStages
  <2> QED
    BY <1>2, <2>1, <2>2, SpansCleared
<1>6. CASE ~profiling
  <2>1. UNCHANGED <<stagesDone, profilerVars>> /\ spans = << >> /\ stagesDone = 0
    BY <1>4, <1>6 DEF EventsInv, SpansAreStages
  <2>2. ~HasOpenSpan /\ HasOpenSpan' = HasOpenSpan
    BY <2>1, SpanFacts DEF profilerVars, HasOpenSpan
  <2>3. SpansAreStages'
    BY <1>3, <1>6, <2>1, <2>2 DEF SpansAreStages, Measured, profilerVars
  <2> QED
    BY <1>2, <2>1, <2>3, ProfilerAlone
<1> QED
  BY <1>5, <1>6

LEMMA EnableEvents ==
  ASSUME IInv, EventsInv, EnableProfiler
  PROVE  EventsInv'
<1>1. /\ pc = "warmup" /\ pc' = "prefill" /\ args' = args /\ stagesDone' = stagesDone
      /\ IF args.profile THEN Enable ELSE UNCHANGED profilerVars
  BY DEF EnableProfiler, Goto
<1>2. spans = << >> /\ stagesDone = 0 /\ poolUsed = 0
  BY <1>1, SpanFacts DEF EventsInv, SpansAreStages, Measured
<1>3. spans' = << >> /\ poolUsed' = 0 /\ UNCHANGED <<pool, now>>
  BY <1>1, <1>2 DEF Enable, profilerVars
<1> QED
  BY <1>1, <1>2, <1>3, SpansCleared

LEMMA InitEvents == Init => EventsInv
<1> SUFFICES ASSUME Init PROVE EventsInv
  OBVIOUS
<1>1. /\ pc = "check" /\ profiling = FALSE /\ spans = << >> /\ pool = << >> /\ poolUsed = 0
      /\ now = 0 /\ stagesDone = 0
  BY DEF Init, ProfilerInit
<1>2. ~HasOpenSpan /\ Opened = 0
  BY <1>1 DEF HasOpenSpan, Opened
<1>3. Len(spans) = 0 /\ Len(pool) = 0 /\ spans \in Seq(Span) /\ pool \in Seq(Int)
  BY <1>1, EmptySeq
<1>4. MostStages \in Nat
  BY InitIInv, StagesBounded DEF IInv
<1> QED
  BY <1>1, <1>2, <1>3, <1>4
     DEF EventsInv, EventTypes, InOrder, PoolCovers, SpansAreStages, Measured

LEMMA NextEvents == IInv /\ EventsInv /\ [Next]_vars => EventsInv'
BY AloneStep, BeginStep, EndStep, ThrowStep, CallStep, EnableEvents DEF Next

-----------------------------------------------------------------------------
(* profiler.cu: no event is used twice between two collections, end()      *)
(* finds its begin() whatever fails, and the pool stops growing, for any   *)
(* number of layers, chunks and passes.                                    *)
THEOREM EventsAlwaysHold == Spec => []EventsHoldTheirSpan
<1>1. IInv /\ EventsInv => EventsHoldTheirSpan
  <2> SUFFICES ASSUME IInv, EventsInv PROVE EventsHoldTheirSpan
    OBVIOUS
  <2> DEFINE n == Len(spans)
             events == [i \in DOMAIN spans |->
                          {spans[i].start} \cup ({spans[i].stop} \ {Open})]
  <2>1. DOMAIN spans = 1 .. n /\ n \in Nat /\ Open \notin Nat /\ poolUsed \in Nat
    BY LenProperties, SpanFacts DEF EventsInv, EventTypes
  <2>2. \A i \in 1 .. n : spans[i].start = 2 * i - 1
                          /\ (spans[i].stop = 2 * i \/ (spans[i].stop = Open /\ i = n))
    BY DEF EventsInv, InOrder
  <2>3. poolUsed = 2 * n - Opened
    BY DEF EventsInv, PoolCovers
  <2>4. ASSUME NEW i \in 1 .. n
        PROVE  /\ spans[i].start # spans[i].stop
               /\ events[i] = {2 * i - 1} \cup (IF spans[i].stop = Open THEN {} ELSE {2 * i})
               /\ events[i] \subseteq {2 * i - 1, 2 * i}
               /\ spans[i].stop = Open => i = n /\ HasOpenSpan
    <3>1. 2 * i - 1 \in Nat /\ 2 * i \in Nat /\ 2 * i - 1 # 2 * i
      BY <2>1
    <3>2. spans[i].start # spans[i].stop
      BY <2>1, <2>2, <3>1
    <3>3. events[i] = {spans[i].start} \cup ({spans[i].stop} \ {Open})
      BY <2>1
    <3>4. events[i] = {2 * i - 1} \cup (IF spans[i].stop = Open THEN {} ELSE {2 * i})
      BY <2>1, <2>2, <3>1, <3>3
    <3>5. spans[i].stop = Open => i = n /\ HasOpenSpan
      <4>1. ASSUME spans[i].stop = Open PROVE i = n /\ HasOpenSpan
        <5>1. i = n
          BY <2>1, <2>2, <3>1, <4>1
        <5>2. spans # << >>
          BY <2>1, EmptySeq
        <5> QED
          BY <4>1, <5>1, <5>2 DEF HasOpenSpan, Last
      <4> QED
        BY <4>1
    <3> HIDE DEF events, n
    <3> QED
      BY <3>2, <3>4, <3>5
  <2>5. ASSUME NEW i \in 1 .. n PROVE events[i] \subseteq 1 .. poolUsed
    <3>1. Opened \in {0, 1} /\ (HasOpenSpan => Opened = 1)
      BY DEF Opened
    <3>2. CASE spans[i].stop = Open
      <4>1. events[i] = {2 * i - 1} /\ i = n /\ Opened = 1
        BY <2>4, <3>1, <3>2
      <4> HIDE DEF events, n
      <4>2. 2 * i - 1 \in 1 .. poolUsed
        BY <2>1, <2>3, <4>1
      <4> QED
        BY <4>1, <4>2
    <3>3. CASE spans[i].stop # Open
      <4>1. events[i] = {2 * i - 1, 2 * i}
        BY <2>4, <3>3
      <4>2. i # n \/ Opened = 0
        BY <3>3, SpanFacts DEF Opened
      <4> HIDE DEF events, n
      <4>3. 2 * i - 1 \in 1 .. poolUsed /\ 2 * i \in 1 .. poolUsed
        BY <2>1, <2>3, <3>1, <4>2
      <4> QED
        BY <4>1, <4>3
    <3> QED
      BY <3>2, <3>3
  <2>6. ASSUME NEW i \in 1 .. n, NEW j \in 1 .. n, i # j PROVE events[i] \cap events[j] = {}
    <3>1. events[i] \subseteq {2 * i - 1, 2 * i} /\ events[j] \subseteq {2 * j - 1, 2 * j}
      BY <2>4
    <3>2. 2 * i - 1 # 2 * j - 1 /\ 2 * i - 1 # 2 * j /\ 2 * i # 2 * j - 1 /\ 2 * i # 2 * j
      BY <2>1, <2>6
    <3> HIDE DEF events
    <3> QED
      BY <3>1, <3>2
  <2>7. HasOpenSpan => pc \in {"prefill", "decode", "terminated"}
    BY DEF EventsInv, SpansAreStages
  <2>8. Len(pool) <= 2 * Len(PassStages) * ((args.promptLength + Chunk - 1) \div Chunk)
    <3>1. Len(pool) <= 2 * MostStages
      BY DEF EventsInv, PoolCovers
    <3>2. 2 * Len(PassStages) * PrefillPasses = 2 * MostStages
      BY StagesBounded DEF IInv
    <3> QED
      BY <3>1, <3>2 DEF PrefillPasses
  <2> QED
    BY <2>1, <2>4, <2>5, <2>6, <2>7, <2>8 DEF EventsHoldTheirSpan
<1> QED
  BY <1>1, InitIInv, NextIInv, InitEvents, NextEvents, PTL DEF Spec
-----------------------------------------------------------------------------
(***************************************************************************)
(* What the profile adds up to.  Span i of a call is the stage of the same *)
(* place in the passes it makes, one after the other, and its two events   *)
(* lie as far apart as the stage's work: the events are recorded anew by   *)
(* every call, so this has to be known of the pool as well as of the spans.*)
(***************************************************************************)
StageAt(i)    == PassStages[((i - 1) % Len(PassStages)) + 1]
Seen(name, n) == {i \in 1 .. n : StageAt(i) = name}

(* The totals of so many passes and the first n stages after them.         *)
Count(name, runs, n) == runs * Occurrences(name) + Cardinality(Seen(name, n))
Gathered(runs, n) ==
  [name \in StageNames |-> [launches |-> Count(name, runs, n),
                            time     |-> Count(name, runs, n) * Work(name)]]

LEMMA SeenStep ==
  ASSUME NEW name, NEW n \in Nat
  PROVE  /\ Seen(name, 0) = {} /\ Cardinality(Seen(name, 0)) = 0
         /\ Cardinality(Seen(name, n)) \in Nat
         /\ Cardinality(Seen(name, n + 1)) =
              Cardinality(Seen(name, n)) + IF StageAt(n + 1) = name THEN 1 ELSE 0
<1>1. Seen(name, 0) = {} /\ Cardinality(Seen(name, 0)) = 0
  BY FS_EmptySet DEF Seen
<1>2. IsFiniteSet(Seen(name, n))
  <2>1. IsFiniteSet(1 .. n)
    BY FS_Interval
  <2> QED
    BY <2>1, FS_Subset DEF Seen
<1>3. Cardinality(Seen(name, n)) \in Nat
  BY <1>2, FS_CardinalityType
<1>4. CASE StageAt(n + 1) = name
  <2>1. Seen(name, n + 1) = Seen(name, n) \cup {n + 1}
    BY <1>4 DEF Seen
  <2>2. n + 1 \notin Seen(name, n)
    BY DEF Seen
  <2> QED
    BY <1>1, <1>2, <1>3, <1>4, <2>1, <2>2, FS_AddElement
<1>5. CASE StageAt(n + 1) # name
  <2>1. Seen(name, n + 1) = Seen(name, n)
    BY <1>5 DEF Seen
  <2> QED
    BY <1>1, <1>3, <1>5, <2>1
<1> QED
  BY <1>4, <1>5

LEMMA Remainder ==
  ASSUME NEW l \in Nat \ {0}, NEW q \in Nat, NEW j \in 0 .. l - 1
  PROVE  (q * l + j) % l = j
<1> DEFINE x == q * l + j
           d == x \div l
           m == x % l
<1>1. q * l \in Nat /\ x \in Nat
  OBVIOUS
<1>2. d \in Nat /\ m \in 0 .. l - 1 /\ x = l * d + m
  BY <1>1
<1>3. x = l * q + j
  OBVIOUS
<1> HIDE DEF x, d, m
<1>4. l * d < l * (q + 1) /\ l * q < l * (d + 1)
  BY <1>2, <1>3
<1>5. d < q + 1 /\ q < d + 1
  BY <1>2, <1>4
<1>6. m = j
  BY <1>2, <1>3, <1>5
<1> QED
  BY <1>6 DEF m, x

LEMMA SeenPasses ==
  ASSUME Types, NEW name, NEW q \in Nat
  PROVE  /\ Cardinality(Seen(name, q * Len(PassStages))) = q * Occurrences(name)
         /\ Occurrences(name) \in Nat
<1> DEFINE l == Len(PassStages)
           C(n) == Cardinality(Seen(name, n))
           o == Occurrences(name)
<1>1. l \in Nat \ {0} /\ DOMAIN PassStages = 1 .. l
  BY StagesBounded, LenProperties
<1>2. Seen(name, l) = {i \in DOMAIN PassStages : PassStages[i] = name}
  <2>1. \A i \in 1 .. l : StageAt(i) = PassStages[i]
    <3> TAKE i \in 1 .. l
    <3>1. i - 1 \in 0 .. l - 1
      BY <1>1
    <3>2. (0 * l + (i - 1)) % l = i - 1
      BY <1>1, <3>1, Remainder
    <3>3. 0 * l + (i - 1) = i - 1 /\ (i - 1) + 1 = i
      BY <1>1, <3>1
    <3> QED
      BY <3>2, <3>3 DEF StageAt
  <2> QED
    BY <1>1, <2>1 DEF Seen
<1>3. C(l) = o
  BY <1>2 DEF Occurrences
<1>4. \A n \in Nat : C(n) \in Nat /\ C(n + 1) = C(n) + (IF StageAt(n + 1) = name THEN 1 ELSE 0)
  BY SeenStep
<1>5. C(0) = 0
  BY SeenStep
<1>6. ASSUME NEW p \in Nat PROVE C(p * l + l) = C(p * l) + o
  <2>1. p * l \in Nat
    BY <1>1
  <2> DEFINE D == {j \in Nat : j <= l => C(p * l + j) = C(p * l) + C(j)}
  <2>2. 0 \in D
    BY <1>4, <1>5, <2>1
  <2>3. ASSUME NEW j \in D PROVE j + 1 \in D
    <3>1. ASSUME j + 1 <= l PROVE C(p * l + (j + 1)) = C(p * l) + C(j + 1)
      <4>1. C(p * l + j) = C(p * l) + C(j) /\ j \in 0 .. l - 1
        BY <1>1, <3>1
      <4>2. StageAt(p * l + j + 1) = StageAt(j + 1)
        <5>1. (p * l + j) % l = j /\ (0 * l + j) % l = j
          BY <1>1, <4>1, Remainder
        <5>2. (p * l + j + 1) - 1 = p * l + j /\ (j + 1) - 1 = 0 * l + j
          BY <1>1, <2>1
        <5> QED
          BY <5>1, <5>2 DEF StageAt
      <4> DEFINE once == IF StageAt(j + 1) = name THEN 1 ELSE 0
      <4>3. C((p * l + j) + 1) = C(p * l + j) + once
        <5>1. p * l + j \in Nat
          BY <2>1
        <5> QED
          BY <1>4, <4>2, <5>1
      <4>4. C(j + 1) = C(j) + once
        BY <1>4
      <4>5. C(j) \in Nat /\ C(p * l) \in Nat /\ once \in Nat
        BY <1>4, <2>1
      <4>6. (p * l + j) + 1 = p * l + (j + 1)
        BY <2>1
      <4> HIDE DEF C, l, once
      <4>7. C(p * l + (j + 1)) = C(p * l) + C(j) + once
        BY <4>1, <4>3, <4>6
      <4> QED
        BY <4>4, <4>5, <4>7
    <3> QED
      BY <3>1
  <2>4. D = Nat
    <3> HIDE DEF D
    <3>1. D \in SUBSET Nat
      BY DEF D
    <3> QED
      BY <2>2, <2>3, <3>1, Induct
  <2>5. l \in D
    BY <1>1, <2>4
  <2> QED
    BY <1>1, <1>3, <2>5
<1>7. o \in Nat
  BY <1>1, <1>3, <1>4
<1> DEFINE E == {p \in Nat : C(p * l) = p * o}
<1> HIDE DEF C, o, l
<1>8. 0 \in E
  <2>1. 0 * l = 0 /\ 0 * o = 0
    BY <1>1, <1>7
  <2> QED
    BY <1>5, <2>1
<1>9. ASSUME NEW p \in E PROVE p + 1 \in E
  <2>1. p * l + l = (p + 1) * l /\ p * o + o = (p + 1) * o
    BY <1>1, <1>7
  <2>2. C(p * l + l) = p * o + o
    BY <1>6
  <2> QED
    BY <2>1, <2>2
<1>10. E = Nat
  <2> HIDE DEF E
  <2>1. E \in SUBSET Nat
    BY DEF E
  <2> QED
    BY <1>8, <1>9, <2>1, Induct
<1>11. C(q * l) = q * o
  BY <1>10
<1> QED
  BY <1>7, <1>11 DEF C, l, o
(* The fold of Profiler::collect: each closed span counts for its stage.   *)
FoldStep(after) ==
  [n \in 0 .. Len(spans) |->
     IF n = 0 THEN totals
     ELSE IF spans[n].stop = Open THEN after[n - 1]
     ELSE [after[n - 1] EXCEPT ![spans[n].name] =
             [launches |-> @.launches + 1, time |-> @.time + Elapsed(spans[n])]]]

LEMMA GatheredStep ==
  ASSUME NEW runs \in Nat, NEW n \in Nat, NEW elapsed, NEW stage \in StageNames,
         Types, stage = StageAt(n + 1), elapsed = Work(stage)
  PROVE  Gathered(runs, n + 1) =
           [Gathered(runs, n) EXCEPT ![stage] =
              [launches |-> @.launches + 1, time |-> @.time + elapsed]]
<1>1. ASSUME NEW name \in StageNames
      PROVE  /\ Count(name, runs, n) \in Nat /\ Work(name) \in Nat
             /\ Count(name, runs, n + 1) =
                  Count(name, runs, n) + IF stage = name THEN 1 ELSE 0
  <2>1. Occurrences(name) \in Nat
    BY SeenPasses
  <2>2. /\ Cardinality(Seen(name, n)) \in Nat
        /\ Cardinality(Seen(name, n + 1)) =
             Cardinality(Seen(name, n)) + IF stage = name THEN 1 ELSE 0
    BY SeenStep
  <2> DEFINE c == Cardinality(Seen(name, n))
             d == Cardinality(Seen(name, n + 1))
             o == runs * Occurrences(name)
             once == IF stage = name THEN 1 ELSE 0
  <2>3. c \in Nat /\ d = c + once /\ once \in Nat /\ o \in Nat
    BY <2>1, <2>2
  <2> HIDE DEF c, d, o, once
  <2>4. o + c \in Nat /\ o + d = (o + c) + once
    BY <2>3
  <2> QED
    BY <2>4 DEF Count, Work, c, d, o, once
<1> DEFINE G(k) == [name \in StageNames |-> [launches |-> Count(name, runs, k),
                                              time |-> Count(name, runs, k) * Work(name)]]
           c == Count(stage, runs, n)
           w == Work(stage)
<1>2. G(n)[stage] = [launches |-> c, time |-> c * w]
  OBVIOUS
<1>3. [launches |-> G(n)[stage].launches + 1, time |-> G(n)[stage].time + elapsed]
        = [launches |-> c + 1, time |-> (c + 1) * w]
  <2>1. c \in Nat /\ w \in Nat
    BY <1>1
  <2> HIDE DEF c, w
  <2>2. (c + 1) * w = c * w + w
    BY <2>1
  <2> QED
    BY <1>2, <2>2 DEF w
<1>4. \A name \in StageNames : G(n + 1)[name] =
        IF name = stage THEN [launches |-> c + 1, time |-> (c + 1) * w] ELSE G(n)[name]
  <2> TAKE name \in StageNames
  <2>1. CASE name = stage
    <3>1. Count(name, runs, n + 1) = c + 1
      BY <1>1, <2>1
    <3> QED
      BY <2>1, <3>1
  <2>2. CASE name # stage
    <3>1. Count(name, runs, n + 1) = Count(name, runs, n)
      BY <1>1, <2>2
    <3> QED
      BY <2>2, <3>1
  <2> QED
    BY <2>1, <2>2
<1>5. Gathered(runs, n) = G(n) /\ Gathered(runs, n + 1) = G(n + 1)
  BY DEF Gathered
<1>6. G(n + 1) = [G(n) EXCEPT ![stage] = [launches |-> c + 1, time |-> (c + 1) * w]]
  <2>1. G(n + 1) = [name \in StageNames |-> G(n + 1)[name]]
        /\ DOMAIN G(n) = StageNames
    OBVIOUS
  <2> DEFINE f == G(n)
             h == G(n + 1)
             new == [launches |-> c + 1, time |-> (c + 1) * w]
  <2>2. /\ h = [name \in StageNames |-> h[name]] /\ DOMAIN f = StageNames
        /\ f = [name \in StageNames |-> f[name]]
        /\ \A name \in StageNames : h[name] = IF name = stage THEN new ELSE f[name]
    BY <1>4
  <2> HIDE DEF f, h, new
  <2>3. h = [f EXCEPT ![stage] = new]
    BY <2>2
  <2> QED
    BY <2>3 DEF f, h, new
<1>7. [G(n) EXCEPT ![stage] = [launches |-> @.launches + 1, time |-> @.time + elapsed]]
        = [G(n) EXCEPT ![stage] = [launches |-> c + 1, time |-> (c + 1) * w]]
  <2> HIDE DEF G
  <2> QED
    BY <1>3
<1> QED
  BY <1>5, <1>6, <1>7

LEMMA FoldedIsGathered ==
  ASSUME Types, EventTypes, NEW runs \in Nat, totals = Gathered(runs, 0),
         \A i \in 1 .. Len(spans) : /\ spans[i].stop # Open /\ spans[i].name = StageAt(i)
                                    /\ Elapsed(spans[i]) = Work(StageAt(i))
  PROVE  Folded = Gathered(runs, Len(spans))
<1> DEFINE l == Len(spans)
           h == [n \in 0 .. l |-> Gathered(runs, n)]
           u == CHOOSE after : after = FoldStep(after)
<1>1. l \in Nat /\ \A i \in 1 .. l : spans[i] \in Span
  BY LenProperties, ElementOfSeq DEF EventTypes
<1>2. \A i \in 1 .. l : spans[i].name \in StageNames
  BY <1>1 DEF Span
<1>3. \A n \in 1 .. l : Gathered(runs, n) =
        [Gathered(runs, n - 1) EXCEPT ![spans[n].name] =
           [launches |-> @.launches + 1, time |-> @.time + Elapsed(spans[n])]]
  <2> TAKE n \in 1 .. l
  <2>1. n - 1 \in Nat /\ (n - 1) + 1 = n
    BY <1>1
  <2>2. spans[n].name = StageAt((n - 1) + 1) /\ Elapsed(spans[n]) = Work(spans[n].name)
    BY <2>1
  <2> DEFINE stage == spans[n].name
             elapsed == Elapsed(spans[n])
             m == n - 1
  <2>3. stage \in StageNames /\ stage = StageAt(m + 1) /\ elapsed = Work(stage) /\ m \in Nat
    BY <1>2, <2>1, <2>2
  <2> HIDE DEF stage, elapsed, m
  <2>4. Gathered(runs, m + 1) =
           [Gathered(runs, m) EXCEPT ![stage] =
              [launches |-> @.launches + 1, time |-> @.time + elapsed]]
    BY <2>3, GatheredStep
  <2>5. m + 1 = n
    BY <2>1 DEF m
  <2> QED
    BY <2>4, <2>5 DEF m, stage, elapsed
<1>4. h = FoldStep(h)
  <2>1. \A n \in 0 .. l : h[n] =
           IF n = 0 THEN totals
           ELSE IF spans[n].stop = Open THEN h[n - 1]
           ELSE [h[n - 1] EXCEPT ![spans[n].name] =
                   [launches |-> @.launches + 1, time |-> @.time + Elapsed(spans[n])]]
    <3> TAKE n \in 0 .. l
    <3>1. CASE n = 0
      BY <3>1
    <3>2. CASE n # 0
      <4>1. n \in 1 .. l /\ n - 1 \in 0 .. l
        BY <1>1, <3>2
      <4>2. h[n - 1] = Gathered(runs, n - 1) /\ h[n] = Gathered(runs, n)
        BY <4>1
      <4>3. spans[n].stop # Open
        BY <4>1
      <4> HIDE DEF h
      <4> QED
        BY <1>3, <3>2, <4>1, <4>2, <4>3
    <3> QED
      BY <3>1, <3>2
  <2>2. h = [n \in 0 .. l |-> h[n]]
    OBVIOUS
  <2> HIDE DEF h
  <2> QED
    BY <2>1, <2>2 DEF FoldStep
<1>5. u = FoldStep(u)
  BY <1>4
<1>6. Folded = u[l]
  BY DEF Folded, FoldStep, Elapsed
<1> HIDE DEF u
<1>7. \A n \in 0 .. l : u[n] =
           IF n = 0 THEN totals
           ELSE IF spans[n].stop = Open THEN u[n - 1]
           ELSE [u[n - 1] EXCEPT ![spans[n].name] =
                   [launches |-> @.launches + 1, time |-> @.time + Elapsed(spans[n])]]
  BY <1>5 DEF FoldStep
<1> DEFINE D == {n \in Nat : n <= l => u[n] = Gathered(runs, n)}
<1>8. 0 \in D
  <2>1. 0 \in 0 .. l
    BY <1>1
  <2>2. u[0] = totals
    BY <1>7, <2>1
  <2> QED
    BY <2>2
<1>9. ASSUME NEW n \in D PROVE n + 1 \in D
  <2>1. ASSUME n + 1 <= l PROVE u[n + 1] = Gathered(runs, n + 1)
    <3>0. PICK m : m = n + 1
      OBVIOUS
    <3>1. m \in 1 .. l /\ m \in 0 .. l /\ m # 0 /\ m - 1 = n /\ n <= l
      BY <1>1, <2>1, <3>0
    <3>2. u[n] = Gathered(runs, n)
      BY <3>1
    <3>3. spans[m].stop # Open
      BY <3>1
    <3>4. u[m] = [u[m - 1] EXCEPT ![spans[m].name] =
                    [launches |-> @.launches + 1, time |-> @.time + Elapsed(spans[m])]]
      BY <1>7, <3>1, <3>3
    <3>5. u[m - 1] = Gathered(runs, m - 1)
      BY <3>1, <3>2
    <3>6. u[m] = Gathered(runs, m)
      BY <1>3, <3>1, <3>4, <3>5
    <3> QED
      BY <3>0, <3>6
  <2> QED
    BY <2>1
<1>10. D = Nat
  <2> HIDE DEF D
  <2>1. D \in SUBSET Nat
    BY DEF D
  <2> QED
    BY <1>8, <1>9, <2>1, Induct
<1> QED
  BY <1>1, <1>6, <1>10

(* A call that has gone through all its stages adds its passes.            *)
LEMMA PassesGathered ==
  ASSUME Types, NEW runs \in Nat, NEW q \in Nat
  PROVE  Gathered(runs, q * Len(PassStages)) = Gathered(runs + q, 0)
<1>1. ASSUME NEW name \in StageNames
      PROVE  Count(name, runs, q * Len(PassStages)) = Count(name, runs + q, 0)
  <2>1. Cardinality(Seen(name, q * Len(PassStages))) = q * Occurrences(name)
    BY SeenPasses
  <2>2. Occurrences(name) \in Nat
    BY SeenPasses
  <2>3. Cardinality(Seen(name, 0)) = 0
    BY SeenStep
  <2> DEFINE o == Occurrences(name)
  <2>4. Count(name, runs, q * Len(PassStages)) = runs * o + q * o
        /\ Count(name, runs + q, 0) = (runs + q) * o + 0
    BY <2>1, <2>3 DEF Count
  <2>5. o \in Nat
    BY <2>2
  <2> HIDE DEF o
  <2>6. runs * o + q * o = (runs + q) * o + 0
    BY <2>5
  <2> QED
    BY <2>4, <2>6
<1> QED
  BY <1>1 DEF Gathered
-----------------------------------------------------------------------------
(***************************************************************************)
(* The inductive invariant: a closed span lasted as long as its stage's    *)
(* kernels, the open one began just now, and the totals are those of the   *)
(* timed passes that have returned.                                        *)
(***************************************************************************)
SpansTimed ==
  \A i \in 1 .. Len(spans) :
    /\ spans[i].name = StageAt(i)
    /\ spans[i].stop = Open => pool[2 * i - 1] = now
    /\ spans[i].stop # Open => pool[2 * i] - pool[2 * i - 1] = Work(StageAt(i))

ProfileOn == pc \in InLoop \cup {"prefill"} => (profiling <=> args.profile)

TotalsKept ==
  args.profile =>
    /\ pc = "prefill" => totals = Gathered(0, 0)
    /\ pc \in InLoop  => totals = Gathered(PrefillPasses + decodeSteps, 0)

TimedInv == SpansTimed /\ ProfileOn /\ TotalsKept

(* acquire_event leaves the events in use as they were recorded.           *)
LEMMA RecordedAt ==
  ASSUME EventTypes, poolUsed <= Len(pool), NEW time \in Int
  PROVE  /\ Recorded(Event, time)[Event] = time
         /\ \A e \in 1 .. poolUsed : Recorded(Event, time)[e] = pool[e]
<1>1. pool \in Seq(Int) /\ Len(pool) \in Nat /\ poolUsed \in Nat /\ DOMAIN pool = 1 .. Len(pool)
  BY LenProperties DEF EventTypes
<1>2. Event = poolUsed + 1 /\ Event \in Nat
  BY <1>1 DEF Event
<1>3. CASE Event \in DOMAIN pool
  <2>1. Recorded(Event, time) = [pool EXCEPT ![Event] = time]
    BY <1>3 DEF Recorded
  <2>2. \A e \in 1 .. poolUsed : e \in DOMAIN pool /\ e # Event
    BY <1>1, <1>2
  <2> QED
    BY <1>3, <2>1, <2>2
<1>4. CASE Event \notin DOMAIN pool
  <2>1. Recorded(Event, time) = Append(pool, time)
    BY <1>4 DEF Recorded
  <2>2. Event = Len(pool) + 1
    BY <1>1, <1>2, <1>4
  <2>3. Append(pool, time)[Len(pool) + 1] = time
        /\ \A e \in 1 .. Len(pool) : Append(pool, time)[e] = pool[e]
    BY <1>1, AppendProperties
  <2>4. \A e \in 1 .. poolUsed : e \in 1 .. Len(pool)
    BY <1>1
  <2> QED
    BY <2>1, <2>2, <2>3, <2>4
<1> QED
  BY <1>3, <1>4

(* Only the last span can be open.                                         *)
LEMMA ClosedSpans ==
  ASSUME EventsInv, NEW i \in 1 .. Len(spans), i # Len(spans) \/ ~HasOpenSpan
  PROVE  spans[i].stop = 2 * i /\ spans[i].start = 2 * i - 1 /\ spans[i].stop # Open
<1>1. Open \notin Nat /\ Len(spans) \in Nat
  BY SpanFacts
<1>2. /\ spans[i].start = 2 * i - 1
      /\ spans[i].stop = 2 * i \/ (spans[i].stop = Open /\ i = Len(spans))
  BY DEF EventsInv, InOrder
<1>3. ASSUME i = Len(spans), ~HasOpenSpan PROVE spans[i].stop # Open
  <2>1. spans # << >>
    BY <1>1, EmptySeq
  <2> QED
    BY <1>3, <2>1 DEF HasOpenSpan, Last
<1>4. 2 * i \in Nat
  BY <1>1
<1> QED
  BY <1>1, <1>2, <1>3, <1>4

LEMMA BeginTimed ==
  ASSUME IInv, EventsInv, SpansTimed, BeginStage
  PROVE  SpansTimed'
<1> DEFINE n == Len(spans)
           name == PassStages[(stagesDone % Len(PassStages)) + 1]
           span == [name |-> name, start |-> Event, stop |-> Open]
<1>1. /\ Calling /\ profiling /\ ~HasOpenSpan
      /\ now' = now + 1 /\ pool' = Recorded(Event, now')
      /\ spans' = Append(spans, span)
  BY DEF BeginStage, Begin
<1>2. /\ EventTypes /\ n \in Nat /\ Opened = 0 /\ poolUsed = 2 * n /\ poolUsed <= Len(pool)
      /\ stagesDone \in Nat
  <2>1. n \in Nat /\ Opened = 0 /\ stagesDone \in Nat /\ poolUsed \in Nat
    BY <1>1, SpanFacts
  <2>2. poolUsed = 2 * n - Opened /\ poolUsed <= Len(pool) /\ EventTypes
    BY DEF EventsInv, PoolCovers
  <2> HIDE DEF n
  <2> QED
    BY <2>1, <2>2
<1>3. n = stagesDone
  <2>1. pc \in {"prefill", "decode"}
    BY <1>1 DEF EventsInv, SpansAreStages, Calling
  <2>2. n = stagesDone + Opened
    BY <2>1 DEF EventsInv, SpansAreStages
  <2> HIDE DEF n
  <2> QED
    BY <1>2, <2>2
<1>4. name = StageAt(n + 1)
  <2>1. (n + 1) - 1 = stagesDone
    BY <1>2, <1>3
  <2> QED
    BY <2>1 DEF StageAt
<1>5. Event = 2 * n + 1
  BY <1>2 DEF Event
<1>6. now' \in Int
  BY <1>1, <1>2 DEF EventTypes
<1>7. pool'[2 * n + 1] = now' /\ \A e \in 1 .. 2 * n : pool'[e] = pool[e]
  BY <1>1, <1>2, <1>5, <1>6, RecordedAt
<1>8. /\ Len(spans') = n + 1 /\ spans'[n + 1] = span
      /\ \A i \in 1 .. n : spans'[i] = spans[i]
  <2>1. spans \in Seq(Span)
    BY <1>2 DEF EventTypes
  <2>2. span \in Span
    <3>1. 2 * n + 1 \in Nat
      BY <1>2
    <3>2. name \in StageNames
      <4>1. (stagesDone % Len(PassStages)) + 1 \in 1 .. Len(PassStages)
            /\ PassStages \in Seq(StageNames)
        BY <1>2, StagesBounded DEF IInv
      <4> QED
        BY <4>1, ElementOfSeq
    <3> QED
      BY <1>5, <3>1, <3>2 DEF Span
  <2> HIDE DEF span
  <2> QED
    BY <1>1, <2>2, AppendProperties
<1>9. ASSUME NEW i \in 1 .. n
      PROVE  /\ spans'[i].name = StageAt(i)
             /\ spans'[i].stop # Open
             /\ pool'[2 * i] - pool'[2 * i - 1] = Work(StageAt(i))
  <2>1. spans[i].stop # Open
    BY <1>1, ClosedSpans
  <2>2. spans[i].name = StageAt(i) /\ pool[2 * i] - pool[2 * i - 1] = Work(StageAt(i))
    BY <2>1 DEF SpansTimed
  <2>3. 2 * i \in 1 .. 2 * n /\ 2 * i - 1 \in 1 .. 2 * n
    BY <1>2
  <2>4. pool'[2 * i] = pool[2 * i] /\ pool'[2 * i - 1] = pool[2 * i - 1]
    BY <1>7, <2>3
  <2> QED
    BY <1>8, <2>1, <2>2, <2>4
<1>10. spans'[n + 1].name = StageAt(n + 1) /\ spans'[n + 1].stop = Open
  BY <1>4, <1>8
<1>11. 2 * (n + 1) - 1 = 2 * n + 1
  BY <1>2
<1>12. \A i \in 1 .. n + 1 : i \in 1 .. n \/ i = n + 1
  BY <1>2
<1> HIDE DEF n, name, span
<1> QED
  BY <1>7, <1>8, <1>9, <1>10, <1>11, <1>12 DEF SpansTimed

LEMMA EndTimed ==
  ASSUME IInv, EventsInv, SpansTimed, Calling, End
  PROVE  SpansTimed'
<1> DEFINE n == Len(spans)
           span == [spans[n] EXCEPT !.stop = Event]
<1>1. /\ HasOpenSpan
      /\ now' = now + Work(Last(spans).name)
      /\ pool' = Recorded(Event, now')
      /\ spans' = [spans EXCEPT ![n].stop = Event]
  BY DEF End
<1>2. /\ EventTypes /\ n \in Nat /\ n > 0 /\ poolUsed = 2 * n - 1 /\ poolUsed <= Len(pool)
      /\ spans[n].stop = Open /\ Open \notin Nat
  <2>1. /\ n \in Nat /\ n > 0 /\ Opened = 1 /\ poolUsed \in Nat
        /\ spans[n].stop = Open /\ Open \notin Nat
    BY <1>1, SpanFacts
  <2>2. poolUsed = 2 * n - Opened /\ poolUsed <= Len(pool) /\ EventTypes
    BY DEF EventsInv, PoolCovers
  <2> QED
    BY <2>1, <2>2
<1>3. Event = 2 * n /\ 2 * n \in Nat
  <2> HIDE DEF n
  <2> QED
    BY <1>2 DEF Event
<1>4. now \in Int /\ now' \in Int
  BY <1>1, <1>2 DEF EventTypes, Work
<1>5. pool'[2 * n] = now' /\ \A e \in 1 .. 2 * n - 1 : pool'[e] = pool[e]
  BY <1>1, <1>2, <1>3, <1>4, RecordedAt
<1>6. /\ Len(spans') = n /\ spans'[n].name = spans[n].name /\ spans'[n].stop # Open
      /\ \A i \in 1 .. n : i # n => spans'[i] = spans[i]
  <2>1. spans \in Seq(Span) /\ DOMAIN spans = 1 .. n /\ spans[n] \in Span
    BY <1>2, LenProperties, ElementOfSeq DEF EventTypes
  <2>2. span \in Span /\ span.name = spans[n].name /\ span.stop = 2 * n
    BY <1>3, <2>1 DEF Span
  <2>3. spans' = [spans EXCEPT ![n] = span]
    BY <1>1, <2>1
  <2> HIDE DEF span
  <2>4. Len(spans') = n /\ \A i \in 1 .. n : spans'[i] = IF i = n THEN span ELSE spans[i]
    BY <1>2, <2>1, <2>2, <2>3, ExceptSeq
  <2> QED
    BY <1>2, <1>3, <2>2, <2>4
<1>7. /\ spans[n].name = StageAt(n) /\ pool[2 * n - 1] = now
      /\ Last(spans).name = StageAt(n)
  <2>1. n \in 1 .. n
    BY <1>2
  <2> QED
    BY <1>2, <2>1 DEF SpansTimed, Last
<1>8. pool'[2 * n] - pool'[2 * n - 1] = Work(StageAt(n))
  <2>1. 2 * n - 1 \in 1 .. 2 * n - 1
    BY <1>2
  <2>2. pool'[2 * n - 1] = now
    BY <1>5, <1>7, <2>1
  <2>3. Work(StageAt(n)) \in Int
    BY DEF Work
  <2> QED
    BY <1>1, <1>4, <1>5, <1>7, <2>2, <2>3
<1>9. ASSUME NEW i \in 1 .. n, i # n
      PROVE  /\ spans'[i].name = StageAt(i) /\ spans'[i].stop # Open
             /\ pool'[2 * i] - pool'[2 * i - 1] = Work(StageAt(i))
  <2>1. spans[i].stop # Open
    BY <1>9, ClosedSpans
  <2>2. spans[i].name = StageAt(i) /\ pool[2 * i] - pool[2 * i - 1] = Work(StageAt(i))
    BY <2>1 DEF SpansTimed
  <2>3. 2 * i \in 1 .. 2 * n - 1 /\ 2 * i - 1 \in 1 .. 2 * n - 1
    BY <1>2, <1>9
  <2>4. pool'[2 * i] = pool[2 * i] /\ pool'[2 * i - 1] = pool[2 * i - 1]
    BY <1>5, <2>3
  <2> QED
    BY <1>6, <1>9, <2>1, <2>2, <2>4
<1> HIDE DEF n, span
<1> QED
  BY <1>6, <1>7, <1>8, <1>9 DEF SpansTimed
(* A measured call that returns has closed the span of its last stage, and *)
(* adds its passes to the totals.                                          *)
LEMMA CallCollected ==
  ASSUME IInv, EventsInv, SpansTimed, profiling, pc \in {"prefill", "decode"},
         stagesDone = AllStages, NEW runs \in Nat, totals = Gathered(runs, 0)
  PROVE  Folded = Gathered(runs + Passes, 0)
<1> DEFINE n == Len(spans)
<1>1. Types /\ EventTypes
  BY DEF IInv, EventsInv
<1>2. n = stagesDone + Opened /\ n <= AllStages
  BY DEF EventsInv, SpansAreStages
<1>3. Opened \in {0, 1} /\ (Opened = 1 <=> HasOpenSpan) /\ stagesDone \in Nat /\ n \in Nat
  BY SpanFacts
<1>4. ~HasOpenSpan /\ n = AllStages
  <2> HIDE DEF n
  <2> QED
    BY <1>2, <1>3
<1>5. \A i \in 1 .. n : /\ spans[i].stop # Open /\ spans[i].name = StageAt(i)
                        /\ Elapsed(spans[i]) = Work(StageAt(i))
  <2> TAKE i \in 1 .. n
  <2>1. spans[i].stop = 2 * i /\ spans[i].start = 2 * i - 1 /\ spans[i].stop # Open
    BY <1>4, ClosedSpans
  <2>2. spans[i].name = StageAt(i) /\ pool[2 * i] - pool[2 * i - 1] = Work(StageAt(i))
    BY <2>1 DEF SpansTimed
  <2> QED
    BY <2>1, <2>2 DEF Elapsed
<1>6. Folded = Gathered(runs, n)
  BY <1>1, <1>5, FoldedIsGathered
<1>7. Passes \in Nat /\ n = Passes * Len(PassStages)
  <2>1. PrefillPasses \in Nat
    BY <1>1, StagesBounded
  <2> QED
    BY <1>4, <2>1 DEF Passes, PrefillPasses, AllStages
<1> HIDE DEF n
<1>8. Gathered(runs, Passes * Len(PassStages)) = Gathered(runs + Passes, 0)
  BY <1>1, <1>7, PassesGathered
<1> QED
  BY <1>6, <1>7, <1>8

(* Steps that leave the profiler alone, and those of the warmup.           *)
LEMMA NotTimedStep ==
  ASSUME IInv, EventsInv, TimedInv, args' = args,
         UNCHANGED <<spans, pool, now>>,
         pc' \notin InLoop \cup {"prefill"} \/ UNCHANGED <<pc, profiling, totals, decodeSteps>>
  PROVE  TimedInv'
<1>1. SpansTimed'
  BY DEF TimedInv, SpansTimed
<1>2. PrefillPasses' = PrefillPasses
  BY DEF PrefillPasses
<1>3. CASE pc' \notin InLoop \cup {"prefill"}
  <2>1. ProfileOn' /\ TotalsKept'
    BY <1>3 DEF ProfileOn, TotalsKept, InLoop
  <2> QED
    BY <1>1, <2>1 DEF TimedInv
<1>4. CASE UNCHANGED <<pc, profiling, totals, decodeSteps>>
  <2>1. ProfileOn' /\ TotalsKept'
    BY <1>2, <1>4 DEF TimedInv, ProfileOn, TotalsKept
  <2> QED
    BY <1>1, <2>1 DEF TimedInv
<1> QED
  BY <1>3, <1>4

LEMMA WarmTimed ==
  ASSUME IInv, EventsInv, TimedInv, WarmPrefill \/ WarmDecode
  PROVE  TimedInv'
<1>1. PICK tokens : Absorb(tokens)
  BY DEF WarmPrefill, WarmDecode
<1>2. args' = args /\ pc \in {"warmup", "warm decode"} /\ pc' \in {"warm decode", "warm reset"}
  BY DEF WarmPrefill, WarmDecode, Goto
<1>3. ~profiling
  BY <1>2 DEF EventsInv, SpansAreStages
<1>4. UNCHANGED <<spans, pool, now>>
  BY <1>1, <1>3 DEF Absorb, profilerVars
<1>5. pc' \notin InLoop \cup {"prefill"}
  BY <1>2 DEF InLoop
<1> QED
  BY <1>2, <1>4, <1>5, NotTimedStep

LEMMA QuietTimed ==
  ASSUME IInv, EventsInv, TimedInv,
         CheckPrompt \/ WarmReset \/ Terminate \/ Stopped \/ UNCHANGED vars
  PROVE  TimedInv'
<1>1. UNCHANGED <<args, profilerVars>>
  BY DEF CheckPrompt, WarmReset, Terminate, Stopped, modelVars, vars
<1>2. \/ pc' \in {"warmup", "refused", "terminated"}
      \/ pc' = pc /\ decodeSteps' = decodeSteps
  BY DEF CheckPrompt, WarmReset, Terminate, Stopped, Goto, loopVars, vars
<1>3. pc' \notin InLoop \cup {"prefill"} \/ UNCHANGED <<pc, profiling, totals, decodeSteps>>
  BY <1>1, <1>2 DEF InLoop, profilerVars
<1> QED
  BY <1>1, <1>3, NotTimedStep DEF profilerVars

LEMMA StageTimed ==
  ASSUME IInv, EventsInv, TimedInv, BeginStage \/ EndStage
  PROVE  TimedInv'
<1>1. UNCHANGED <<args, pc, decodeSteps, profiling, totals>>
  BY DEF BeginStage, EndStage, Begin, End, loopVars
<1>2. SpansTimed'
  <2>1. CASE BeginStage
    BY <2>1, BeginTimed DEF TimedInv
  <2>2. CASE EndStage
    BY <2>2, EndTimed DEF TimedInv, EndStage
  <2> QED
    BY <2>1, <2>2
<1>3. PrefillPasses' = PrefillPasses
  BY <1>1 DEF PrefillPasses
<1> QED
  BY <1>1, <1>2, <1>3 DEF TimedInv, ProfileOn, TotalsKept

LEMMA ThrowTimed ==
  ASSUME IInv, EventsInv, TimedInv, Throw
  PROVE  TimedInv'
<1>1. args' = args /\ pc' = "failed" /\ MayThrow
      /\ IF HasOpenSpan THEN End ELSE UNCHANGED profilerVars
  BY DEF Throw, Goto
<1>2. SpansTimed'
  <2>1. CASE HasOpenSpan
    BY <1>1, <2>1, OpenSpanIsOfCall, EndTimed DEF TimedInv
  <2>2. CASE ~HasOpenSpan
    BY <1>1, <2>2 DEF profilerVars, TimedInv, SpansTimed
  <2> QED
    BY <2>1, <2>2
<1> QED
  BY <1>1, <1>2 DEF TimedInv, ProfileOn, TotalsKept, InLoop

LEMMA EnableTimed ==
  ASSUME IInv, EventsInv, TimedInv, EnableProfiler
  PROVE  TimedInv'
<1>1. /\ pc = "warmup" /\ pc' = "prefill" /\ args' = args
      /\ IF args.profile THEN Enable ELSE UNCHANGED profilerVars
  BY DEF EnableProfiler, Goto
<1>2. ~profiling /\ spans = << >>
  BY <1>1 DEF EventsInv, SpansAreStages, Measured
<1>3. spans' = << >> /\ (profiling' <=> args.profile) /\ (args.profile => totals' = NoTotals)
  BY <1>1, <1>2 DEF Enable, profilerVars
<1>4. SpansTimed'
  BY <1>3, EmptySeq DEF SpansTimed
<1>5. NoTotals = Gathered(0, 0)
  <2>1. \A name \in StageNames : Count(name, 0, 0) = 0 /\ Work(name) \in Nat
    <3> TAKE name \in StageNames
    <3>1. Occurrences(name) \in Nat
      BY SeenPasses DEF IInv
    <3>2. Cardinality(Seen(name, 0)) = 0
      BY SeenStep
    <3> QED
      BY <3>1, <3>2 DEF Count, Work
  <2>2. \A name \in StageNames : Count(name, 0, 0) * Work(name) = 0
    BY <2>1
  <2> QED
    BY <2>1, <2>2 DEF NoTotals, Gathered
<1> QED
  BY <1>1, <1>3, <1>4, <1>5 DEF TimedInv, ProfileOn, TotalsKept, InLoop

LEMMA LoopTimed ==
  ASSUME IInv, EventsInv, TimedInv, Sample \/ LoopEnds
  PROVE  TimedInv'
<1>1. UNCHANGED <<args, profilerVars>> /\ decodeSteps' = decodeSteps
      /\ pc \in InLoop /\ pc' \in InLoop
  BY DEF Sample, LoopEnds, Goto, modelVars, loopVars, InLoop
<1>2. SpansTimed'
  BY <1>1 DEF profilerVars, TimedInv, SpansTimed
<1>3. PrefillPasses' = PrefillPasses
  BY <1>1 DEF PrefillPasses
<1> QED
  BY <1>1, <1>2, <1>3 DEF profilerVars, TimedInv, ProfileOn, TotalsKept, InLoop

LEMMA CallTimed ==
  ASSUME IInv, EventsInv, TimedInv, TimedPrefill \/ TimedDecode
  PROVE  TimedInv'
<1>1. PICK tokens : Absorb(tokens)
  BY DEF TimedPrefill, TimedDecode
<1>2. /\ args' = args /\ pc' = "loop"
      /\ \/ pc = "prefill" /\ decodeSteps' = decodeSteps /\ decodeSteps = 0
         \/ pc = "decode" /\ decodeSteps' = decodeSteps + 1
  <2>1. pc = "prefill" => decodeSteps = 0
    BY DEF IInv, NothingYet, InLoop
  <2> QED
    BY <2>1 DEF TimedPrefill, TimedDecode, Goto, loopVars
<1>3. PrefillPasses' = PrefillPasses /\ PrefillPasses \in Nat /\ decodeSteps \in Nat
  BY <1>2, StagesBounded DEF PrefillPasses, IInv, Types
<1>4. profiling' = profiling /\ (profiling <=> args.profile)
  BY <1>1, <1>2 DEF Absorb, Collect, profilerVars, TimedInv, ProfileOn, InLoop
<1>5. SpansTimed'
  <2>1. CASE profiling
    <3>1. spans' = << >>
      BY <1>1, <2>1 DEF Absorb, Collect
    <3> QED
      BY <3>1, EmptySeq DEF SpansTimed
  <2>2. CASE ~profiling
    BY <1>1, <2>2 DEF Absorb, profilerVars, TimedInv, SpansTimed
  <2> QED
    BY <2>1, <2>2
<1>6. TotalsKept'
  <2>1. ASSUME args.profile PROVE totals' = Gathered(PrefillPasses + decodeSteps', 0)
    <3>1. stagesDone = AllStages /\ totals' = Folded
      BY <1>1, <1>4, <2>1 DEF Absorb, Collect
    <3>2. CASE pc = "prefill"
      <4>1. totals = Gathered(0, 0) /\ Passes = PrefillPasses
        BY <2>1, <3>2 DEF TimedInv, TotalsKept, Passes, PrefillPasses
      <4>2. totals' = Gathered(0 + Passes, 0)
        BY <1>4, <2>1, <3>1, <3>2, <4>1, CallCollected DEF TimedInv
      <4>3. 0 + Passes = PrefillPasses + decodeSteps'
        BY <1>2, <1>3, <3>2, <4>1
      <4> QED
        BY <4>2, <4>3
    <3>3. CASE pc = "decode"
      <4>1. totals = Gathered(PrefillPasses + decodeSteps, 0) /\ Passes = 1
        BY <2>1, <3>3 DEF TimedInv, TotalsKept, Passes, InLoop
      <4>2. PrefillPasses + decodeSteps \in Nat
        BY <1>3
      <4>3. totals' = Gathered((PrefillPasses + decodeSteps) + Passes, 0)
        BY <1>4, <2>1, <3>1, <3>3, <4>1, <4>2, CallCollected DEF TimedInv
      <4>4. (PrefillPasses + decodeSteps) + Passes = PrefillPasses + decodeSteps'
        BY <1>2, <1>3, <3>3, <4>1
      <4> QED
        BY <4>3, <4>4
    <3> QED
      BY <1>2, <3>2, <3>3
  <2> QED
    BY <1>2, <1>3, <2>1 DEF TotalsKept, InLoop
<1> QED
  BY <1>2, <1>4, <1>5, <1>6 DEF TimedInv, ProfileOn

LEMMA InitTimed == Init => TimedInv
<1> SUFFICES ASSUME Init PROVE TimedInv
  OBVIOUS
<1>1. pc = "check" /\ spans = << >>
  BY DEF Init, ProfilerInit
<1> QED
  BY <1>1, EmptySeq DEF TimedInv, SpansTimed, ProfileOn, TotalsKept, InLoop

LEMMA NextTimed == IInv /\ EventsInv /\ TimedInv /\ [Next]_vars => TimedInv'
BY QuietTimed, WarmTimed, StageTimed, ThrowTimed, EnableTimed, LoopTimed, CallTimed DEF Next

(* The report's profile, for any number of layers, chunks and passes: each *)
(* stage of each timed pass is counted once, with the time its kernels     *)
(* took, and the warmup's are not.                                         *)
THEOREM StagesAlwaysTimed == Spec => []StagesTimed
<1>1. IInv /\ TimedInv => StagesTimed
  <2> SUFFICES ASSUME IInv, TimedInv, pc = "report", args.profile, NEW name \in StageNames
               PROVE  LET runs == PrefillPasses + decodeSteps
                      IN  totals[name] = [launches |-> runs * Occurrences(name),
                                          time     |-> runs * Occurrences(name) * Work(name)]
    BY DEF StagesTimed, PrefillPasses
  <2> DEFINE runs == PrefillPasses + decodeSteps
  <2>1. totals = Gathered(runs, 0)
    BY DEF TimedInv, TotalsKept, InLoop
  <2>2. Cardinality(Seen(name, 0)) = 0
    BY SeenStep
  <2>3. PrefillPasses \in Nat /\ decodeSteps \in Nat /\ Occurrences(name) \in Nat
    BY StagesBounded, SeenPasses DEF IInv, Types
  <2>4. runs \in Nat
    BY <2>3
  <2> HIDE DEF runs
  <2>5. runs * Occurrences(name) \in Nat
    BY <2>3, <2>4
  <2>6. Count(name, runs, 0) = runs * Occurrences(name)
    BY <2>2, <2>5 DEF Count
  <2>7. totals[name] = [launches |-> runs * Occurrences(name),
                        time     |-> runs * Occurrences(name) * Work(name)]
    BY <2>1, <2>6 DEF Gathered
  <2> QED
    BY <2>7 DEF runs
<1> QED
  BY <1>1, InitIInv, NextIInv, InitEvents, NextEvents, InitTimed, NextTimed, PTL DEF Spec

=============================================================================
