------------------------------- MODULE Forward -------------------------------
(***************************************************************************)
(* The forward pass of src/model.cu over the KV cache of KvCache: prefill  *)
(* in chunks, decode, the layer loop with its fused norms, and reset.      *)
(*                                                                         *)
(* A call is a sequence of steps, because any CUDA or cuBLAS check in it   *)
(* may throw and leave the model where it was: StartChunk is one turn of   *)
(* prefill's loop (or decode's body) up to the embedding, RunLayer one     *)
(* turn of the layer loop, FinishChunk the language-model head and the     *)
(* position update.                                                        *)
(***************************************************************************)
EXTENDS Integers, Sequences, SequencesExt

CONSTANTS
  NumLayers, MaxSeq, PageSizeOption, Paged,  (* as in KvCache             *)
  PrefillChunk,  (* Options::prefill_chunk                                 *)
  Tokens,        (* The vocabulary.                                        *)
  CallsMayFail,  (* May a check inside a call throw?                       *)
  Capture,       (* capture_activations_                                   *)
  Zero, Garbage, (* Unwritten and out-of-pool device memory.               *)
  NoLogits       (* The logits buffer before the first call.               *)

ASSUME ForwardAssumption ==
  /\ {NumLayers, MaxSeq, PageSizeOption, PrefillChunk} \subseteq Nat \ {0}
  /\ Paged \in BOOLEAN
  /\ CallsMayFail \in BOOLEAN /\ Capture \in BOOLEAN

VARIABLES
  length, pagesMapped, hostTable, deviceTable, pool,  (* kv_cache_         *)
  position,  (* position_                                                  *)
  call,      (* The call under way: its tokens, how many are consumed, and *)
             (* the layer its current chunk is at.                         *)
  x,         (* x_: the residual stream, one row per token of the chunk.   *)
  normed,    (* normed_: the normalised rows.                              *)
  normDone,  (* input_norm_done_                                           *)
  logits,    (* logits_                                                    *)
  taps,      (* taps_: the captured rows of the embedding, of every layer  *)
             (* and of the final norm, in that order.                      *)
  transcript (* History: the tokens whose positions are below `position'.  *)

cacheVars == <<length, pagesMapped, hostTable, deviceTable, pool>>
vars == <<cacheVars, position, call, x, normed, normDone, logits, taps, transcript>>

Kv == INSTANCE KvCache WITH Values <- {}, CopyMayFail <- CallsMayFail

(* The free constructors that stand for the kernels, and the reference.    *)
T == INSTANCE Transcript WITH context <- transcript

MaxTokens == IF PrefillChunk < MaxSeq THEN PrefillChunk ELSE MaxSeq
Idle == [tokens |-> << >>, consumed |-> 0, at |-> "idle", layer |-> 0]

Init ==
  /\ Kv!Init
  /\ position = 0 /\ call = Idle
  /\ x = << >> /\ normed = << >> /\ normDone = FALSE
  /\ logits = NoLogits /\ taps = << >> /\ transcript = << >>

-----------------------------------------------------------------------------
(* Calls begin only when none is under way: the class is single threaded.  *)
Begin(tokens) ==
  /\ call.at = "idle"
  /\ call' = [tokens |-> tokens, consumed |-> 0, at |-> "chunk", layer |-> 0]
  /\ UNCHANGED <<cacheVars, position, x, normed, normDone, logits, taps, transcript>>

Prefill(tokens) ==
  /\ tokens # << >>
  /\ position + Len(tokens) <= MaxSeq
  /\ Begin(tokens)

Decode(token) ==
  /\ position < MaxSeq
  /\ Begin(<<token>>)

Reset ==
  /\ call.at = "idle"
  /\ position' = 0
  /\ taps' = << >>
  /\ transcript' = << >>
  /\ UNCHANGED <<cacheVars, call, x, normed, normDone, logits>>

-----------------------------------------------------------------------------
Remaining == Len(call.tokens) - call.consumed
ChunkSize == IF MaxTokens < Remaining THEN MaxTokens ELSE Remaining
Chunk     == SubSeq(call.tokens, call.consumed + 1, call.consumed + ChunkSize)

(* reserve_length when the length was reached before: an early return.     *)
Reserve(n) ==
  \/ Kv!ReserveLength(n)
  \/ n <= length /\ UNCHANGED cacheVars

ReservedStart == position           (* mutant: reserves up to the chunk, not past it *)
ReservedEnd   == position + ChunkSize

NormDoneKept    == normDone         (* mutant: the flag survives from an earlier call *)
NormDoneAtStart == FALSE

TapsKept    == taps                (* mutant: taps of earlier chunks stay *)
TapsAtStart == IF Capture THEN << >> ELSE taps
Tapped(sofar, rows) == IF Capture THEN Append(sofar, rows) ELSE sofar

(* Copy the token ids, reserve their positions, look up the embeddings.    *)
StartChunk ==
  /\ call.at = "chunk" /\ Remaining > 0
  /\ Reserve(ReservedEnd)
  /\ x' = Chunk
  /\ normDone' = NormDoneAtStart
  /\ taps' = Tapped(TapsAtStart, Chunk)
  /\ call' = [call EXCEPT !.at = "layers", !.layer = 0]
  /\ UNCHANGED <<position, normed, logits, transcript>>

VisibleUnmasked(i) == position + Len(x)  (* mutant: rows see the whole chunk *)

(* Row i of a chunk may see this many keys: the causal mask of prefill and *)
(* the seq_len of decode, which serves every chunk of one token.           *)
VisibleKeys(i) ==
  IF Len(x) = 1 THEN position + 1 ELSE position + i

(* The weights of the norm fused into the end of a layer, and where the    *)
(* chunk's keys and values go.                                             *)
NextNorm(l) == l + 1
WriteStart  == position

RunLayer(l) ==
  LET rows  == DOMAIN x
      input == IF normDone THEN normed ELSE [i \in rows |-> T!Norm(l, x[i])]
      kv    == [i \in rows |-> T!KvOf(input[i], position + i - 1)]
  IN  /\ call.at = "layers" /\ call.layer = l
      /\ Kv!WriteKv(l, WriteStart, kv)
      /\ x' = [i \in rows |-> T!Join(x[i], input[i], position + i - 1,
                 [q \in 1 .. VisibleKeys(i) |-> Kv!ReadKv(l, q - 1)'])]
      /\ normed' = [i \in rows |-> T!Norm(NextNorm(l), x'[i])]
      /\ normDone' = TRUE
      /\ taps' = Tapped(taps, x')
      /\ call' = [call EXCEPT !.layer = l + 1]
      /\ UNCHANGED <<position, logits, transcript>>

FinalNorm ==
  IF normDone THEN normed ELSE [i \in DOMAIN x |-> T!Norm(NumLayers, x[i])]

(* lm_head on the last row, then the position moves past the chunk.        *)
FinishChunk ==
  /\ call.at = "layers" /\ call.layer = NumLayers
  /\ logits' = FinalNorm[Len(x)]
  /\ normDone' = FALSE
  /\ taps' = Tapped(taps, FinalNorm)
  /\ position' = position + Len(x)
  /\ transcript' = transcript \o SubSeq(call.tokens, call.consumed + 1,
                                        call.consumed + Len(x))
  /\ call' = [call EXCEPT !.at = "chunk", !.consumed = @ + Len(x)]
  /\ UNCHANGED <<cacheVars, x, normed>>

Return ==
  /\ call.at = "chunk" /\ Remaining = 0
  /\ call' = Idle
  /\ UNCHANGED <<cacheVars, position, x, normed, normDone, logits, taps, transcript>>

Step ==
  \/ StartChunk
  \/ \E l \in 0 .. NumLayers - 1 : RunLayer(l)
  \/ FinishChunk
  \/ Return

(* A check throws out of the call: nothing is undone.  It may be the copy  *)
(* of the last capture, whose rows are then missing, or the language-model *)
(* head, after input_norm_done_ was cleared and the final norm captured.   *)
Throw ==
  /\ CallsMayFail
  /\ call.at # "idle"
  /\ call' = Idle
  /\ \/ UNCHANGED <<cacheVars, normDone, taps>>
     \/ /\ call.at = "chunk" /\ Remaining > 0
        /\ Kv!PoolExhausted(ReservedEnd) \/ Kv!CopyFails(ReservedEnd)
        /\ UNCHANGED <<normDone, taps>>
     \/ /\ call.at = "layers" /\ Capture
        /\ taps' = Front(taps)
        /\ UNCHANGED <<cacheVars, normDone>>
     \/ /\ call.at = "layers" /\ call.layer = NumLayers
        /\ normDone' = FALSE
        /\ taps' = Tapped(taps, FinalNorm)
        /\ UNCHANGED cacheVars
  /\ UNCHANGED <<position, x, normed, logits, transcript>>

Next ==
  \/ \E n \in 1 .. MaxSeq : \E tokens \in [1 .. n -> Tokens] : Prefill(tokens)
  \/ \E token \in Tokens : Decode(token)
  \/ Reset
  \/ Step
  \/ Throw

Spec == Init /\ [][Next]_vars

-----------------------------------------------------------------------------
(* Every position the sequence has, and those of the chunk being computed, *)
(* are reserved before a kernel touches them; length is a high-water mark  *)
(* that reset does not lower.                                              *)
PositionReserved ==
  /\ position = Len(transcript)
  /\ position <= length
  /\ call.at = "layers" => position + Len(x) <= length

(* model.cu: the cache holds, for every layer and every position below     *)
(* position_, the keys and values of this sequence's tokens, whatever a    *)
(* previous sequence or a failed call left in the same slots.              *)
CacheHoldsTranscript ==
  LET stream == T!Residual(transcript)
  IN  \A l \in 0 .. NumLayers - 1 : \A p \in 0 .. position - 1 :
        Kv!ReadKv(l, p) = T!KvOf(T!Norm(l, stream[l][p + 1]), p)

(* run_layers: the fused norm of one layer is only ever consumed by the    *)
(* next layer of the same call, on the rows it was computed from.          *)
FusedNormMatches ==
  call.at = "layers" /\ normDone =>
    normed = [i \in DOMAIN x |-> T!Norm(call.layer, x[i])]

(* model.cu:444: the fused kernel leaves the same residual stream to be    *)
(* captured as separate ones would.  While a pass runs, and when it is     *)
(* over, the taps are the residual stream of this chunk only, one for the  *)
(* embedding and each layer done, and at the end the final norm.           *)
TapsAreResidual ==
  /\ Capture
  /\ \/ call.at = "layers"
     \/ call.at = "chunk" /\ call.consumed > 0
  =>
    LET running == call.at = "layers"
        context == IF running THEN transcript \o Chunk ELSE transcript
        stream  == T!Residual(context)
        first   == Len(context) - Len(x)
        rows(l) == [i \in DOMAIN x |-> stream[l][first + i]]
        layers  == [n \in 1 .. (IF running THEN call.layer ELSE NumLayers) + 1 |->
                      rows(n - 1)]
    IN  taps = IF running THEN layers
               ELSE Append(layers, [i \in DOMAIN x |->
                                      T!Norm(NumLayers, rows(NumLayers)[i])])

(* Chunking, paging, resets and failed calls are invisible in the logits.  *)
ImplementsTranscript == T!Spec

=============================================================================
