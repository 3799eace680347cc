--------------------------- MODULE PrefillAttention ---------------------------
(***************************************************************************)
(* The attention of one pass of run_layers: the decode kernel (Attention)  *)
(* when it has a single token, and Model::attention_prefill otherwise: two *)
(* matrix products over flat buffers, the causal softmax between them.     *)
(* The blocks of the softmax share nothing, so one of them is followed,    *)
(* that of query token `token' of query head `head', thread by thread; the *)
(* rest of the buffers holds Foreign, some other row's numbers.            *)
(***************************************************************************)
EXTENDS Attention

CONSTANTS
  KvHeads, HeadsPerKv,  (* num_kv_heads, heads_per_kv()                    *)
  MaxTokens,            (* max_tokens_                                     *)
  Foreign

ASSUME PrefillAssumption ==
  /\ KvHeads \in Nat \ {0} /\ HeadsPerKv \in Nat \ {0} /\ MaxTokens \in Nat \ {0}
  /\ Foreign \notin Nat /\ Foreign \notin [weight : Nat, sum : Nat]
  /\ \A n \in 1 .. MaxSeqLen : Foreign \notin [0 .. n - 1 -> [weight : Nat, sum : Nat]]

VARIABLES
  stage,            (* The launch attention_prefill is at.                 *)
  tokens, paged,    (* Its arguments and options.                          *)
  head, token,      (* The row that is followed.                           *)
  keyBuffer,        (* Position a matrix product finds at each address.    *)
  scores, probs,    (* scores_ and probs_                                  *)
  reduced,          (* Warps past the first part of the block; their part. *)
  total,            (* row_max and row_sum, Foreign until written.         *)
  written,          (* Warps that have written their probabilities.        *)
  attnOut           (* attn_out_: the row's weights, where they landed.    *)

prefillVars == <<stage, tokens, paged, head, token, keyBuffer, scores, probs,
                 reduced, total, written, attnOut>>
prefillParams == <<tokens, paged, head, token>>
passVars == <<vars, prefillVars>>

NumHeads == KvHeads * HeadsPerKv
Keys     == seqLen                          (* start_position + tokens      *)
Start    == seqLen - tokens
Group    == head \div HeadsPerKv

(* Where things are: in the cache or the gathered copy of its pages, in    *)
(* the rows of a group as the batched products see them (the query heads   *)
(* of a group are one tall block), and as the softmax sees them.           *)
KeyStride == IF paged THEN Keys ELSE MaxSeqLen

RowsPerGroup  == HeadsPerKv * tokens
GroupRow      == (head % HeadsPerKv) * tokens + token
ProductRow(k) == (Group * RowsPerGroup + GroupRow) * Keys + k
SoftmaxRow(k) == (head * tokens + token) * Keys + k
Addresses     == 0 .. NumHeads * tokens * Keys - 1
OutAddress    == token * NumHeads + head

Limit == IF Keys < Start + token + 1 THEN Keys ELSE Start + token + 1

PassInit ==
  /\ Init
  /\ tokens \in 1 .. MaxTokens /\ tokens <= seqLen
  /\ head \in 0 .. NumHeads - 1 /\ token \in 0 .. tokens - 1
  /\ paged \in BOOLEAN
  /\ tokens = 1 => head = 0 /\ ~paged
  /\ tokens > 1 => splits = 1
  /\ stage = IF tokens = 1 THEN "decode" ELSE "gather"
  /\ keyBuffer = << >> /\ scores = << >>
  /\ probs = [a \in Addresses |-> [weight |-> One, sum |-> One]]
  /\ reduced = << >> /\ total = Foreign /\ written = {} /\ attnOut = << >>

-----------------------------------------------------------------------------
Decode ==
  /\ stage = "decode" /\ Next
  /\ UNCHANGED prefillVars

(* launch_gather_kv, or the cache itself: heads apart, positions in order. *)
Gather ==
  /\ stage = "gather"
  /\ LET stride == IF paged THEN Keys ELSE MaxSeqLen
     IN  keyBuffer' = [a \in 0 .. KvHeads * stride - 1 |->
                         <<a \div stride, a % stride>>]
  /\ stage' = "scores"
  /\ UNCHANGED <<vars, prefillParams, scores, probs, reduced, total, written, attnOut>>

(* Query times keys: the row's products with the keys of its group.        *)
Product(k) ==
  IF keyBuffer[Group * KeyStride + k] = <<Group, k>> THEN score[k] ELSE Foreign

MultiplyKeys ==
  /\ stage = "scores"
  /\ scores' = [a \in Addresses |->
                  LET mine == {k \in Position : ProductRow(k) = a}
                  IN  IF mine = {} THEN Foreign ELSE Product(CHOOSE k \in mine : TRUE)]
  /\ stage' = "softmax"
  /\ UNCHANGED <<vars, prefillParams, keyBuffer, probs, reduced, total, written, attnOut>>

-----------------------------------------------------------------------------
(* causal_softmax_kernel: each thread folds the positions it strides over, *)
(* a warp its threads', the first thread the warps', between two barriers. *)
Lane(w) == {k \in Position : k % Warps = w}
Found(k) == scores[SoftmaxRow(k)] = score[k]

ReduceRow(w) ==
  /\ stage = "softmax" /\ w \notin DOMAIN reduced
  /\ reduced' = [v \in DOMAIN reduced \cup {w} |->
                   IF v # w THEN reduced[v]
                   ELSE LET visible == Lane(w) \cap (0 .. Limit - 1)
                        IN  IF \A k \in visible : Found(k) THEN Fold(visible) ELSE Stale]
  /\ UNCHANGED <<vars, prefillParams, stage, keyBuffer, scores, probs, total, written, attnOut>>

AllReduced == DOMAIN reduced = Warp

CombineRow ==
  /\ stage = "softmax" /\ total = Foreign /\ AllReduced
  /\ total' = Combine(reduced, Warps)
  /\ UNCHANGED <<vars, prefillParams, stage, keyBuffer, scores, probs, reduced, written, attnOut>>

(* Masked positions are written too.                                       *)
MaskedKept(k) == probs[SoftmaxRow(k)]     (* mutant: they are left alone *)
Masked(k)     == [weight |-> 0, sum |-> total.sum]

Probability(k) ==
  IF k >= Limit THEN Masked(k)
  ELSE [weight |-> IF Found(k) THEN Rescale(One, score[k], total.max) ELSE Foreign,
        sum    |-> total.sum]

WriteRow(w) ==
  /\ stage = "softmax" /\ total # Foreign /\ w \in Warp \ written
  /\ probs' = [a \in Addresses |->
                 LET mine == {k \in Lane(w) : SoftmaxRow(k) = a}
                 IN  IF mine = {} THEN probs[a] ELSE Probability(CHOOSE k \in mine : TRUE)]
  /\ written' = written \cup {w}
  /\ UNCHANGED <<vars, prefillParams, stage, keyBuffer, scores, reduced, total, attnOut>>

(* Probabilities times values, which the stream runs behind the softmax,   *)
(* and launch_merge_heads: from head-major to token-major.                 *)
ProductIndex == Group * RowsPerGroup + GroupRow
MergedTo     == (ProductIndex % tokens) * NumHeads + (ProductIndex \div tokens)

MultiplyValues ==
  /\ stage = "softmax" /\ written = Warp
  /\ attnOut' = [a \in 0 .. tokens * NumHeads - 1 |->
       IF a # MergedTo THEN Foreign
       ELSE [k \in Position |->
               IF keyBuffer[Group * KeyStride + k] = <<Group, k>>
                 THEN probs[ProductRow(k)] ELSE Foreign]]
  /\ stage' = "done"
  /\ UNCHANGED <<vars, prefillParams, keyBuffer, scores, probs, reduced, total, written>>

PassNext ==
  \/ Decode \/ Gather \/ MultiplyKeys \/ CombineRow \/ MultiplyValues
  \/ \E w \in Warp : ReduceRow(w) \/ WriteRow(w)

PassSpec == PassInit /\ [][PassNext]_passVars

-----------------------------------------------------------------------------
(* attention_prefill: every row of every head, at any start position and   *)
(* over either cache layout, comes out at its place in the layout of the   *)
(* output projection as the softmax over exactly the positions up to its   *)
(* own, although later columns were computed and the buffers hold what a   *)
(* chunk of another shape left there.                                      *)
PrefillExact ==
  stage = "done" =>
    LET row == attnOut[OutAddress]
        own == 0 .. Start + token
    IN  /\ row # Foreign
        /\ \A k \in Position : row[k] # Foreign /\ row[k].weight # Foreign
        /\ \A k \in Position : k \notin own => row[k].weight = 0
        /\ \A k, j \in own : /\ row[k].weight > 0
                             /\ row[k].weight * Pow2[score[j]] = row[j].weight * Pow2[score[k]]
        /\ \A k \in own : row[k].sum = Total([j \in Position |-> row[j].weight])

=============================================================================
