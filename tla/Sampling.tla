------------------------------ MODULE Sampling ------------------------------
(***************************************************************************)
(* sample_kernel of src/kernels/sampling.cu: top-k and top-p sampling of a *)
(* row of logits without sorting it.  A histogram of how far each token is *)
(* below the best one gives a cutoff that admits at most Cap candidates;   *)
(* the threads of the one block compact the candidates into shared memory, *)
(* in whatever order their atomic increments land, a bitonic network sorts *)
(* them, and one thread walks the sorted list.                             *)
(*                                                                         *)
(* A logit is its depth, the distance below the maximum after temperature, *)
(* and Weight stands for the exponential; the arithmetic is exact.         *)
(***************************************************************************)
EXTENDS Integers, Sequences, FiniteSets

CONSTANTS
  Vocab,        (* vocab                                                   *)
  Threads,      (* kSampleBlock                                            *)
  LogCap,       (* kMaxCandidates is 1 << LogCap.                          *)
  Bins,         (* kHistogramBins                                          *)
  BinWidth,     (* kLogRange / kHistogramBins                              *)
  Depths,       (* What the logits may be; 0 is the maximum.               *)
  Weight,       (* Weight[d]: exp(-d), scaled to a whole number            *)
  TopKs,        (* Arguments top_k; 0 keeps every candidate.               *)
  TopPs,        (* Arguments top_p, as <<numerator, denominator>>          *)
  Uniforms      (* Arguments uniform, likewise, in [0, 1)                  *)

Lowest == 1000000                            (* the depth of -FLT_MAX        *)

ASSUME SamplingAssumption ==
  /\ Vocab \in Nat \ {0} /\ Threads \in Nat \ {0} /\ LogCap \in Nat
  /\ Bins \in Nat \ {0} /\ BinWidth \in Nat \ {0}
  /\ 0 \in Depths /\ Depths \subseteq Nat
  /\ \A d \in Depths : d < Lowest /\ Weight[d] \in Nat \ {0}
  /\ \A d, e \in Depths : d < e => Weight[d] > Weight[e]
  /\ TopKs \subseteq Int /\ TopPs \subseteq Int \X (Nat \ {0})
  /\ \A u \in Uniforms : u \in Nat \X Nat /\ u[1] < u[2]

VARIABLES
  depth,        (* depth[i]: the scaled logit of token i, negated          *)
  topK, topP, uniform,
  cursor,       (* cursor[t]: the next token thread t looks at             *)
  claimed,      (* claimed[t]: the slot t's atomicAdd returned, or None    *)
  count,        (* shared_count                                            *)
  slots,        (* values and indices                                      *)
  outId         (* *out_id, None until written                             *)

inputs == <<depth, topK, topP, uniform>>

Pow2[n \in Nat] == IF n = 0 THEN 1 ELSE 2 * Pow2[n - 1]     (* 1 << n       *)

Token  == 0 .. Vocab - 1
Cap    == Pow2[LogCap]                       (* kMaxCandidates               *)
Slot   == 0 .. Cap - 1
Thread == 0 .. Threads - 1
None   == -1
Unset  == [depth |-> None, token |-> None]   (* uninitialised shared memory  *)

Least(S) == CHOOSE x \in S : \A y \in S : x <= y

NucleusInit ==
  /\ depth \in [Token -> Depths] /\ \E i \in Token : depth[i] = 0
  /\ topK \in TopKs /\ topP \in TopPs /\ uniform \in Uniforms
  /\ cursor = [t \in Thread |-> t]
  /\ claimed = [t \in Thread |-> None]
  /\ count = 0
  /\ slots = [s \in Slot |-> Unset]
  /\ outId = None

-----------------------------------------------------------------------------
(* Pass two.  The increments of the histogram commute, and the barrier     *)
(* after it makes its sums and the cutoff a function of the logits.        *)
BinOf(d) == IF d \div BinWidth < Bins THEN d \div BinWidth ELSE Bins - 1

UpToBin(b) == Cardinality({i \in Token : BinOf(depth[i]) <= b})

CutoffExclusive ==                       (* mutant: the last bin is left out *)
  LET fitting == {b \in 0 .. Bins - 1 : UpToBin(b) <= Cap}
  IN  IF Cardinality(fitting) <= 1 THEN 1 ELSE Cardinality(fitting) - 1
CutoffBin ==
  LET fitting == {b \in 0 .. Bins - 1 : UpToBin(b) <= Cap}
  IN  IF fitting = {} THEN 1 ELSE Cardinality(fitting)

Candidate(i) == BinOf(depth[i]) < CutoffBin

-----------------------------------------------------------------------------
(* Pass three, the compaction: a thread claims a slot for a candidate with *)
(* an atomic increment and then fills it, unless it lies past the buffer.  *)
ClaimNotAtomic(t) ==           (* mutant: an increment is lost to another's  *)
  /\ claimed' = [claimed EXCEPT ![t] = count]
  /\ count' = IF \E u \in Thread : claimed[u] # None THEN count ELSE count + 1
ClaimSlot(t) ==
  /\ claimed' = [claimed EXCEPT ![t] = count]
  /\ count' = count + 1

Claim(t) ==
  /\ cursor[t] \in Token /\ claimed[t] = None
  /\ Candidate(cursor[t])
  /\ ClaimSlot(t)
  /\ UNCHANGED <<inputs, cursor, slots, outId>>

Pass(t) ==
  /\ cursor[t] \in Token /\ claimed[t] = None
  /\ ~Candidate(cursor[t])
  /\ cursor' = [cursor EXCEPT ![t] = @ + Threads]
  /\ UNCHANGED <<inputs, claimed, count, slots, outId>>

Fill(t) ==
  /\ claimed[t] # None
  /\ slots' = IF claimed[t] \in Slot
                THEN [slots EXCEPT ![claimed[t]] =
                        [depth |-> depth[cursor[t]], token |-> cursor[t]]]
                ELSE slots
  /\ cursor'  = [cursor EXCEPT ![t] = @ + Threads]
  /\ claimed' = [claimed EXCEPT ![t] = None]
  /\ UNCHANGED <<inputs, count, outId>>

Found == IF count < Cap THEN count ELSE Cap

Padded ==
  [s \in Slot |-> IF s >= Found THEN [depth |-> Lowest, token |-> 0] ELSE slots[s]]

-----------------------------------------------------------------------------
(* bitonic_sort_descending: compare and exchange every slot with the one   *)
(* at distance step, in a direction that alternates every span slots.      *)
Partner(s, step) == IF (s \div step) % 2 = 0 THEN s + step ELSE s - step

Exchange(a, span, step) ==
  [s \in Slot |->
     LET p     == Partner(s, step)
         low   == IF s < p THEN s ELSE p
         high  == IF s < p THEN p ELSE s
         swap  == IF (low \div span) % 2 = 0 THEN a[low].depth > a[high].depth
                                             ELSE a[low].depth < a[high].depth
     IN  IF swap THEN a[p] ELSE a[s]]

(* The rounds of span 1 << k, each at half the distance of the one before. *)
Merge(a, k) ==
  LET after[r \in 0 .. k] ==
        IF r = 0 THEN a ELSE Exchange(after[r - 1], Pow2[k], Pow2[k - r])
  IN  after[k]

BitonicSort(a) ==
  LET sorted[k \in 0 .. LogCap] == IF k = 0 THEN a ELSE Merge(sorted[k - 1], k)
  IN  sorted[LogCap]

-----------------------------------------------------------------------------
(* The walk over a list of depths, best first: how many to keep, and which *)
(* of those the uniform number selects.  total is the sum over all tokens. *)
MassOf(list) ==
  LET mass[n \in 0 .. Len(list)] == IF n = 0 THEN 0 ELSE mass[n - 1] + Weight[list[n]]
  IN  mass

TotalMass == LET sum[n \in 0 .. Vocab] == IF n = 0 THEN 0 ELSE sum[n - 1] + Weight[depth[n - 1]]
             IN  sum[Vocab]

Keep(list) ==
  LET limit == IF topK > 0 /\ topK < Len(list) THEN topK ELSE Len(list)
      reached == {n \in 1 .. limit : topP[1] < topP[2]
                    /\ MassOf(list)[n] * topP[2] >= topP[1] * TotalMass}
  IN  IF reached = {} THEN limit ELSE Least(reached)

Pick(list) ==
  Least({n \in 1 .. Keep(list) :
           MassOf(list)[n] * uniform[2] >= uniform[1] * MassOf(list)[Keep(list)]})

(* After the barrier that ends the compaction: pad, sort, walk, pick.      *)
Choice(a) == LET sorted == BitonicSort(a)
             IN  sorted[Pick([n \in 1 .. Found |-> sorted[n - 1].depth]) - 1].token

CompactionOver == \A t \in Thread : cursor[t] \notin Token

Select ==
  /\ outId = None /\ CompactionOver
  /\ outId' = Choice(Padded)
  /\ UNCHANGED <<inputs, cursor, claimed, count, slots>>

NucleusNext ==
  \/ \E t \in Thread : Claim(t) \/ Pass(t) \/ Fill(t)
  \/ Select

-----------------------------------------------------------------------------
(* The atomic increments give every candidate a slot of its own: after the *)
(* compaction the buffer holds as many different candidates as fit.        *)
CompactionExact ==
  CompactionOver =>
    LET candidates == {i \in Token : Candidate(i)}
        kept       == {slots[s].token : s \in 0 .. Found - 1}
    IN  /\ kept \subseteq candidates
        /\ Cardinality(kept) = IF Cardinality(candidates) < Cap
                                 THEN Cardinality(candidates) ELSE Cap

(* The descending order of the whole distribution, as top-p defines it.    *)
InOrder ==
  [n \in 1 .. Vocab |->
     CHOOSE d \in Depths :
       /\ Cardinality({i \in Token : depth[i] < d}) < n
       /\ Cardinality({i \in Token : depth[i] <= d}) >= n]

(* When the bins down to the last token of the nucleus fit in the buffer,  *)
(* the result is exact: a token as likely as the one that sampling from    *)
(* the sorted vocabulary with the same uniform number gives.               *)
ExactWhenBinsFit ==
  outId # None /\ UpToBin(BinOf(InOrder[Keep(InOrder)])) <= Cap
    => depth[outId] = InOrder[Pick(InOrder)]

-----------------------------------------------------------------------------
(* sampling.cu:13: "an exact result whenever the nucleus fits in 1024      *)
(* tokens" - the nucleus, rather than the bins it lies in.                 *)
ExactWhenNucleusFits ==
  outId # None /\ Keep(InOrder) <= Cap => depth[outId] = InOrder[Pick(InOrder)]

(* kernels.cuh:125: "a given seed reproduces a given sequence exactly":    *)
(* the result is the one of the schedule that compacts in index order.     *)
InIndexOrder ==
  [s \in Slot |->
     LET here == {i \in Token : Candidate(i) /\
                    Cardinality({j \in 0 .. i - 1 : Candidate(j)}) = s}
     IN  IF here = {} THEN [depth |-> Lowest, token |-> 0]
         ELSE [depth |-> depth[Least(here)], token |-> Least(here)]]
SeedReproduces == outId # None => outId = Choice(InIndexOrder)

=============================================================================
