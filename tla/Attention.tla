----------------------------- MODULE Attention ------------------------------
(***************************************************************************)
(* Decode attention of src/kernels/attention.cu for one query head: the    *)
(* positions are cut into splits, one block each, and the positions of a   *)
(* block are dealt to its warps.  A warp folds its positions into an       *)
(* online softmax (running maximum, running sum, weighted values); the     *)
(* first warp of a block combines the warps, and a second kernel combines  *)
(* the splits.                                                             *)
(*                                                                         *)
(* The arithmetic is exact: an exponential is a power of two, carried as a *)
(* multiple of 2^-MaxScore, and the value vectors are the unit vectors, so *)
(* an accumulator is the weight of every position.                         *)
(***************************************************************************)
EXTENDS Integers, FiniteSets

CONSTANTS
  MaxSeqLen,   (* Positions the cache can hold.                            *)
  MaxSplits,   (* kMaxAttentionSplits                                      *)
  Warps,       (* kAttentionWarps                                          *)
  MaxScore     (* Query-key products are 0 .. MaxScore.                    *)

ASSUME AttentionAssumption ==
  /\ MaxSeqLen \in Nat \ {0} /\ MaxSplits \in Nat \ {0}
  /\ Warps \in Nat \ {0} /\ MaxScore \in Nat

VARIABLES
  seqLen, splits,  (* arguments of the launch                              *)
  score,           (* score[p]: the query against the key at position p    *)
  shared,          (* shared[<<split, warp>>]: shared_m, shared_l, _acc    *)
  warpDone,        (* the <<split, warp>> pairs that reached the barrier   *)
  partials,        (* partials[split], in the scratch buffer               *)
  blockDone,       (* the splits whose block has finished                  *)
  out              (* the attention weights, NoOutput until written        *)

params == <<seqLen, splits, score>>
vars   == <<params, shared, warpDone, partials, blockDone, out>>

Position == 0 .. seqLen - 1
NegInf   == -1000000                                     (* kSoftmaxNegInf *)
NoOutput == [sum |-> 0, acc |-> << >>]

(* Exponentials: Pow2[n] is 2^n.                                           *)
Pow2[n \in Nat] == IF n = 0 THEN 1 ELSE 2 * Pow2[n - 1]
One == Pow2[MaxScore]

Maximum(a, b) == IF a < b THEN b ELSE a

(* exp(from - to) times v.  NegInf minus itself is zero, and exponentiates *)
(* to zero against any real score.                                         *)
Rescale(v, from, to) ==
  IF from = to THEN v ELSE IF from = NegInf THEN 0 ELSE v \div Pow2[to - from]

Empty == [max |-> NegInf, sum |-> 0, acc |-> [p \in Position |-> 0]]

(* The memory a launch finds: what an earlier launch, of any length and    *)
(* number of splits, left there.                                           *)
Stale == [max |-> MaxScore, sum |-> One, acc |-> [p \in Position |-> One]]

-----------------------------------------------------------------------------
(* attention_decode: an option, or choose_attention_splits, both bounded.  *)
Wanted == 1 .. MaxSplits

(* launch_decode_attention: never more splits than positions.              *)
SplitsOf(n, wanted) == IF wanted < n THEN wanted ELSE n

(* The positions of a block, and of a warp within it.                      *)
ChunkRoundedDown == seqLen \div splits  (* mutant: the remainder is dropped *)
Chunk == (seqLen + splits - 1) \div splits

Begin(split) == split * Chunk
End(split)   == IF seqLen < Begin(split) + Chunk THEN seqLen ELSE Begin(split) + Chunk

Stripe(split, warp) ==
  {p \in Begin(split) .. End(split) - 1 : (p - Begin(split)) % Warps = warp}

Split == 0 .. splits - 1
Warp  == 0 .. Warps - 1

Init ==
  /\ seqLen \in 1 .. MaxSeqLen
  /\ \E wanted \in Wanted : splits = SplitsOf(seqLen, wanted)
  /\ score \in [Position -> 0 .. MaxScore]
  /\ shared = [w \in Split \X Warp |-> Stale]
  /\ warpDone = {}
  /\ partials = [s \in Split |-> Stale]
  /\ blockDone = {}
  /\ out = NoOutput

-----------------------------------------------------------------------------
(* One position folded into a partial softmax: decode_attention_kernel's   *)
(* inner loop.                                                             *)
Absorb(part, p) ==
  LET m == Maximum(part.max, score[p])
  IN  [max |-> m,
       sum |-> Rescale(part.sum, part.max, m) + Rescale(One, score[p], m),
       acc |-> [q \in Position |-> Rescale(part.acc[q], part.max, m)
                                     + IF q = p THEN Rescale(One, score[p], m) ELSE 0]]

Fold(positions) ==
  LET upTo[n \in 0 .. seqLen] ==
        IF n = 0 THEN Empty
        ELSE IF n - 1 \in positions THEN Absorb(upTo[n - 1], n - 1) ELSE upTo[n - 1]
  IN  upTo[seqLen]

(* softmax_combine over the first k of several partials: maximum and sum.  *)
Combine(parts, k) ==
  LET upTo[n \in 0 .. k] ==
        IF n = 0 THEN [max |-> NegInf, sum |-> 0]
        ELSE LET m == Maximum(upTo[n - 1].max, parts[n - 1].max)
             IN  [max |-> m,
                  sum |-> Rescale(upTo[n - 1].sum, upTo[n - 1].max, m)
                            + Rescale(parts[n - 1].sum, parts[n - 1].max, m)]
  IN  upTo[k]

(* The values of k partials, each rescaled once onto their joint maximum.  *)
MergeValues(parts, k) ==
  LET m == Combine(parts, k).max
      upTo[n \in 0 .. k] ==
        IF n = 0 THEN Empty.acc
        ELSE [q \in Position |-> upTo[n - 1][q] + Rescale(parts[n - 1].acc[q], parts[n - 1].max, m)]
  IN  upTo[k]

Merge(parts, k) ==
  [max |-> Combine(parts, k).max, sum |-> Combine(parts, k).sum, acc |-> MergeValues(parts, k)]

WarpFinishes(split, warp) ==
  /\ <<split, warp>> \notin warpDone
  /\ shared' = [shared EXCEPT ![<<split, warp>>] = Fold(Stripe(split, warp))]
  /\ warpDone' = warpDone \cup {<<split, warp>>}
  /\ UNCHANGED <<params, partials, blockDone, out>>

Normalised(part) == [sum |-> part.sum, acc |-> part.acc]

BarrierOpen(split) == TRUE                  (* mutant: no __syncthreads     *)
PastBarrier(split) == \A w \in Warp : <<split, w>> \in warpDone

(* Warp 0 of a block, after the barrier; alone, it writes the output.      *)
BlockFinishes(split) ==
  /\ split \notin blockDone /\ PastBarrier(split) /\ <<split, 0>> \in warpDone
  /\ LET total == Merge([w \in Warp |-> shared[<<split, w>>]], Warps)
     IN  IF splits > 1
           THEN partials' = [partials EXCEPT ![split] = total] /\ UNCHANGED out
           ELSE out' = Normalised(total) /\ UNCHANGED partials
  /\ blockDone' = blockDone \cup {split}
  /\ UNCHANGED <<params, shared, warpDone>>

(* merge_splits_kernel, which the stream runs after every block.           *)
MergeSplits ==
  /\ splits > 1 /\ out = NoOutput /\ blockDone = Split
  /\ out' = Normalised(Merge(partials, splits))
  /\ UNCHANGED <<params, shared, warpDone, partials, blockDone>>

Next == \/ \E split \in Split, warp \in Warp : WarpFinishes(split, warp)
        \/ \E split \in Split : BlockFinishes(split)
        \/ MergeSplits

Spec == Init /\ [][Next]_vars

-----------------------------------------------------------------------------
(* Splits and warps deal out the positions: every position is folded by    *)
(* exactly one warp of one block, also when the last splits are empty.     *)
EveryPositionOnce ==
  \A p \in Position :
    \E split \in Split, warp \in Warp :
      \A s \in Split, w \in Warp : p \in Stripe(s, w) <=> s = split /\ w = warp

(* The sum of the weights of all positions.                                *)
Total(weight) ==
  LET upTo[n \in 0 .. seqLen] == IF n = 0 THEN 0 ELSE upTo[n - 1] + weight[n - 1]
  IN  upTo[seqLen]

(* The output weighs the positions by the softmax of their scores over the *)
(* whole sequence, and the sum it divides by is that of the weights,       *)
(* whatever order warps and blocks ran in and whatever the buffers held;   *)
(* an empty warp or split adds nothing.                                    *)
AttentionExact ==
  out # NoOutput =>
    /\ \A p, q \in Position :
         /\ out.acc[p] > 0
         /\ out.acc[p] * Pow2[score[q]] = out.acc[q] * Pow2[score[p]]
    /\ out.sum = Total(out.acc)

=============================================================================
