# A verification of llama-cuda-runtime

This directory specifies the runtime of `src/` in TLA+, model-checks it with
TLC on small instances and proves the central facts with TLAPS. It covers what
a test of this code can hardly reach: calls that fail half way, state left over
from an earlier sequence, threads of a kernel in every order, buffers exactly
full, checkpoints spoilt in one place, and text cut at every possible place.
Floating-point arithmetic, JSON syntax and printing are outside its scope.

`PROJECT.json` lists components, runs, hazards and theorems, and maps every
definition to the lines it models. Paths below are relative to `src/`.

## The system

| Component | State | Operations | Hard part |
|---|---|---|---|
| KV cache, `kv_cache.cu` | length, page tables on host and device, pool | `reserve_length`, the view kernels use | failed copies, exact pool, pages never moved |
| Forward pass, `model.cu` | position, activations, `input_norm_done_`, logits, captured rows | `prefill`, `decode`, `reset`, `run_layers` | chunking, stale cache, a throw at any step |
| Loading, `model.cu`, `safetensors.cpp`, `config.cpp`, `arena.cu` | mapped files, tensor table, one block of weights, one of activations | `Model::Model` | fused blocks, two lists that must agree, files to close on every way out |
| Generation, `main.cu` | the loop of `run()` | warmup, timed prefill, decode loop, report | warmup residue, three loop exits, the cache limit |
| Profiler, `profiler.cu` | open spans, totals, event pool | `begin`, `end`, `collect`, `reset` | events recorded anew by every pass, a pass that throws |
| Text output, `main.cu` | held-back bytes | `feed`, `flush` | tokens ending inside a character |
| Tokenizer, `tokenizer.cpp` | tables built from tokenizer.json | `build_from_json`, `encode`, `decode_one` | greedy matching with backtracking, stale heap entries, ids given twice |
| Sampling, `kernels/sampling.cu` | shared memory of a kernel, borrowed scratch | argmax, nucleus sampling | threads in any order, a full candidate buffer |
| Attention, `kernels/attention.cu`, `model.cu` | shared memory, partial results, scores | decode in splits, prefill as batched products | empty splits, stale buffers, barriers, strides |
| Row kernels, `rmsnorm.cu`, `rope.cu`, `elementwise.cu` | none | one launch each | arithmetic only |

`run()` loads the model, encodes the prompt, calls `Model::prefill` once and
then alternates `Model::sample`, `Utf8Streamer::feed` and `Model::decode`. The
model reserves cache positions, launches one chunk's kernels layer by layer on
a single stream and waits for the stream before it returns. One host thread
does all of this; concurrency exists inside kernel launches only. (The host writes
page tables while kernels of a failed call may be queued, but its synchronous copy
waits for their stream.) `main()` turns any throw into the end of the process, but
the classes are a library and may be called again after one.

## The modules

**KV cache.** `KvStore` is the promise: one value per layer and position, a
length that only grows, writes below the reserved length. `KvCache` is the
code: page tables on both sides, the pool, one action per outcome of
`reserve_length` (it returns, the pool is exhausted at some layer, the copy of
some layer's table fails), and the write a kernel makes through the view. Heads
and element sizes only scale addresses, so a slot stands for all heads.
`ImplementsStore` is the refinement.

**Forward pass.** `Transcript` is the promise: the logits are those of a causal
transformer over exactly the tokens since the last reset. Values are terms,
tuples of what they were computed from, so two computations agree only if they
read the same inputs in the same places; `Norm`, `KvOf` and `Join` stand for
the row kernels. `Forward` is the code over an instance of `KvCache`: chunks,
one step per layer, the norm of the next layer fused into the last one, the
rows captured for validation, and `Throw` between any two steps, inside
`reserve_length` and inside the last step. `ImplementsTranscript` is the
refinement: a call that throws must look like one that stopped at a chunk
boundary.

**Loading.** `Config` is `from_json_string`, `load`, `validate` and
`required_weights` over fields that may be absent, no number, zero or negative.
`Arena` is the bump allocator. `Load` is `Model::Model` as a state machine:
the configuration, the options, the files of the checkpoint one by one, the
plan of the weight blocks and their upload, the cache, and the activation
buffers, first as the list that is summed up and then as the list that is
carved. Every stage can refuse, and `SystemFails` stands for a system or CUDA call
that fails. The inventory of `lcr-inspect` is in the same module.

**Generation.** `Generate` uses the model through what `Transcript` promises
and follows `run()` statement by statement; `pc` names the statement. It
extends `Profiler`, spans over a pool of events on a clock, and takes every
profiled pass through its stages. A pass may throw between stages or inside
one, where the scope's destructor closes the span or ends the process; sampling
and the decoding of a token may throw as well. A throw ends the program, so what
the profiler would make of the spans of a failed call is not followed further.

**Text.** `Utf8` is lenient UTF-8 and the byte-level alphabet over real bytes.
`Pretokenizer` has one operator per alternative of the hand-written matcher.
`Regex` is a backtracking engine for the operators of the pattern, with the
pattern of `kLlama3SplitRegex` itself. `Vocabulary` is `build_from_json`: what
it refuses and which of two entries for one id or content each table keeps. The ids
of added tokens are not checked there, and a negative one is written in front of
`id_to_token_`: `WriteOutOfBounds` says that the process may end or other memory
be overwritten, after which the model says nothing, and `LoadTokenizer` that the
write may do no harm. In the scan such a token counts as no match.
`Tokenizer` loads a file and encodes one input: the scan for added tokens, the
flush of the text between them, one pretoken at a time. `TextPath` puts the
chat template before it and continues with `decode_one` and the streamer.
Byte-pair encoding appears there as any tiling of the pretoken by products of
merges, which is what `Bpe` establishes: `BestPair` says "merge the best pair,
repeat", and `Bpe` is the linked list and the heap with lazily dropped entries.

**Kernels.** `Sampler` is one call of `Model::sample`. It launches `Argmax`,
whose threads interleave statement by statement between barriers, over whatever
decode attention left in the scratch buffer, or `Sampling`, which interleaves
the compaction (its atomic counter is the one place where order matters) and
computes the phases around it, which barriers separate, in one step.
`Attention` interleaves the warps and blocks of decode attention;
`PrefillAttention` is a chunk's pass through gathered keys, batched scores, the
causal softmax, the weighted values and the merge of heads, with its strides
over stale buffers. Scores are integers and exponentials powers of two, so sums
are exact and a softmax can be compared with its definition by
cross-multiplication.

The `MC*` modules hold the instances for TLC. Definitions marked `mutant` are
plausible slips in the code; replacing the original by one of them must break
the property listed beside it in `PROJECT.json`.

The `*Proofs` modules extend the module they are about.

## The runs

| Run | Instance | Shows |
|---|---|---|
| `kv_cache` | 2 layers, 3 positions, pages of 2, any table copy may fail | The cache is a plain store. Pages are never shared or moved, the device's table is current, the pool suffices until a failed call leaks, and a call that returns leaks nothing. |
| `forward` | paged, 2 layers, 3 positions, pages of 2, chunks of 2, 2 tokens, capture on, any check may throw | The logits are those of the tokens since the last reset, whatever threw before; the cache holds their keys and values; the fused norm and the captured rows are those of this pass. |
| `generate` | 4 positions, prompts of 0 to 4, limits of -1 to 5, `--warmup` absent or -1 to 2, profiler on or off, a failure in any call, sampling included | The prompt check is enough, sampling continues what was printed, the step count and the report are exact, the profile times every stage of every timed pass, and the program stops. |
| `bpe` | pretokens of up to 4 characters, lists of up to 2 rules, trained lists of 3 | The heap with lazily dropped entries implements "merge the best pair", keeps a chain that tiles the text, ends, and on trained lists ends where the reference loop does. |
| `sampler` | 5 logits; 6 greedy threads in 2 blocks; 2 sampling threads, a buffer of 4, bins of 2 | Greedy decoding returns the first maximum under every schedule and ends; the sampled token follows the definition of top-k and top-p whenever the nucleus and its bins fit. |
| `attention` | up to 5 positions, 4 splits, 2 warps; prefill chunks of up to 3 with 2x2 heads, both layouts | Every row is the softmax over exactly the positions it may see, whatever is left in the buffers. |
| `text_path` | 21 files, every short text, raw and chat | Loading keeps what the file says, encoding cuts the text where the pattern does, ids decode to the bytes they came from, and only whole characters are written. |
| `load` | 4 models, intact and spoilt in each field, tensor, file and option | The constructor returns exactly when it should, weights lie where kernels read them, the plan of the arena suffices, and files are closed. |
| `generate_profile`, `sampling_nucleus`, `sampling_seed`, `load_inspect` | as above | A comment and the code disagree; see below. |

**Bounds.** A window of three positions with pages of two has a full page, a
partly used last page and a page boundary inside a chunk, and two layers make
the order of page numbers within one call matter; a prompt of three ends with a
chunk of one, which takes the decode path. Two tokens are enough to tell
sequences apart, and symmetry between them is sound because no definition does
more than compare them for equality. Four positions give the generation loop
each of its exits, with the budget zero, negative, below and above what the
cache leaves, and two warmup passes show the second one finding the residue of
the first. In a pretoken of four characters the merge in the middle makes the entries
on both of its sides stale. In the sampling kernel the
fifth token overflows a buffer of four; in the greedy one the sixth thread has
no logit, as in the last block of a real grid. Five positions over four splits
leave a split empty. The four models of `load` differ in what the plan depends
on: heads per key head, tied embeddings, biases, and element size.

**Fairness.** `Generate` assumes only that the program goes on to its next
statement, a single host thread whose calls return or throw. `Bpe` assumes the
same of its loop. `Sampler` assumes that the device runs every thread of a
launched greedy kernel (its barriers are only waited for by resident threads)
and that the host goes on behind it; the sampling kernel's interleaved loop is
given no fairness, as nothing said of it is a liveness property. `KvCache`,
`Forward` and `Load` have none. The BPE, sampling and attention runs do not
check for deadlock: they model a piece of work that ends. Everywhere else a
state without successor is an error.

## What is proved

The proofs hold for every value of the constants the named assumptions of the
modules allow: sizes are positive, flags are Booleans, a value of the cache
differs from the zero `cudaMemset` leaves, the null event of an open span is no
event, logits have a lowest value, a pretoken is a nonempty text, and what there
is to load is described field by field: a configuration holds integers, text or
nothing in its number fields, an index names shards once each, is absent or is
text, and a tensor's entry is text or has an element type and two offsets.

Induction has one form in all of them. The prover cannot instantiate a theorem
about an arbitrary predicate, so what is to be shown of every number is said of
the *set* of the numbers it holds of: `LeastNat` and `Induct`, from the
library's proof that `<` is well-founded, say that a set of natural numbers has
a least member and that one closed under successor is everything. `RunExists`
and `RecursionOn` do the same for what is defined by recursion. Each module
states the ones it uses.

- **KvCacheProofs**: types, `NoSharing`, `DeviceCurrent`, `PoolSuffices`,
  `ReturnLeaksNothing`, `ReservedPagesFixed`, that the pool is never exhausted
  and waste is below a page per layer while no copy fails. The invariant is
  `IInv == TablesOK /\ NoSharing /\ DeviceCurrent /\ Accounting`. `Accounting`
  says that as long as no copy can fail exactly one page per layer and reached
  logical page was handed out, which is what the exhaustion check and the waste
  bound depend on. The arithmetic (ceiling division, the mixed radix of page
  ranks) is in lemmas. `StoreImplemented`, the refinement of `KvStore`, adds
  `Blank`: a slot in which no reserved position lies is still zero. Without it
  a newly reserved position could read an old value.
- **ForwardProofs**: `PositionReserved`, `FusedNormMatches`, and that
  `reserve_length` never refuses a chunk of an accepted call. The invariant
  carries the number of rows of a chunk from its reservation through the layers
  to the step that moves the position. Over it, `CacheHoldsTranscript`,
  `TapsAreResidual` and the refinement `ImplementsTranscript`: while a chunk is
  at some layer, `x_` is the reference's stream below that layer, the caches
  below it hold transcript and chunk, and the others the transcript, which no
  write or new page disturbs (an instance of `KvCacheProofs`). That the rows of
  a chunk do not change what earlier positions hold is the causality of the
  reference, by induction over the layers.
- **GenerateProofs**: `CallsFit`, `ContinuesPrompt`, `StepsFollowTokens` and
  `ReportExact`. None is inductive alone: that calls fit needs the lengths of
  the loop, those need that context and output continue the prompt, and the
  resident length needs to know whether a warmup pass has run. Over that
  invariant, `EventsHoldTheirSpan`: the spans of a call are its stages so far,
  and span i has events 2i - 1 and 2i, so the next event is known although the
  pool was filled by earlier passes; a prefill is the longest call, which bounds
  the pool. `StagesTimed` follows the clock: a closed span's events lie apart by
  the work of its stage, the open one began at the present time, and the totals
  are those of the passes that have returned. One `collect` adds each span of a
  call to its stage once, so the totals of a stage are counted by the place a
  span has in its pass.
- **AttentionProofs**: `EveryPositionOnce`. Position p lies in split
  `p \div Chunk` and there in warp `(p - begin) % Warps`, and in no other. With
  it `AttentionExact`: a partial softmax is *exact* for a set of positions when
  its maximum is theirs, its weights are `Pow2[score - max]` scaled by `One` and
  nothing elsewhere, and its sum is the total of the weights. The invariant
  says that each warp is exact for the positions of its stripe it has folded,
  and what lies in shared and device memory is exact for the stripe or split it
  is of once its writer has finished, whatever lay there before. Folding a
  position and merging two exact partials of disjoint sets keep exactness
  (`FoldExact`, `MergeExact`), which is where a missing rescale would show; that
  the weights can be divided without loss is `RescaleExact`. `PrefillExact`
  follows the rows through the launches: which score lies at which address under
  either cache layout, that the lanes of a row find its maximum and its sum, and
  that rows of different tokens and heads never share an address.
- **SamplerProofs**: `GreedyPicksFirstMaximum`, for every row, vocabulary, grid
  and schedule. The invariant follows the packed maximum through the memories:
  the best of a thread's stride is at most what it holds, that is at most its
  block's shared maximum once the thread has merged it, and that at most the
  global one. A memory means something only once it was cleared, which is what
  the barrier and the fill before the launch are for. The rest is that packed
  pairs are ordered by logit and then by smallest index. For `CompactionExact`,
  a candidate is taken once its thread holds a slot for it or has passed it: the
  counter is the number of taken candidates, and every slot below it is either
  claimed by one thread or holds a taken candidate no other slot has.
  `ExactWhenBinsFit` follows the kernel from there. Bins that fit are an initial
  segment of the bins, so the cutoff admits every token down to the last of the
  nucleus, and the buffer holds the candidates with their depths (`Filled`).
  `BitonicSortSorts`: for a buffer of any power of two, what holds of the entries
  is said of one threshold at a time. Of the slots above a threshold, two blocks
  sorted opposite ways make an interval or the complement of one (`Bitonic`); a
  round of comparisons leaves one half of such a block clean and the other half
  bitonic (`HalfClean`), so after the rounds of a span the block is sorted
  (`RoundNarrows`, `MergeSorts`); and a comparison only exchanges entries
  (`Permutes`). The sorted buffer is then the beginning of the sorted vocabulary,
  rank by rank, and a walk that stops within the beginning of a list keeps and
  picks the same when it is given no more (`KeepAgrees`, `PickAgrees`).
- **BpeProofs**: `ChainTilesText`, `LivePairsQueued` and types. A symbol never
  moves, so the two places and the merged length an entry records fix the texts
  it was ranked for: an entry that passes the three tests has the rank its
  symbols have now. A merge changes the pairs of `left` and of the symbol before
  it only, and those are the two it queues. Over it, the refinement
  `ImplementsBestPair`: the live symbols are a path of growing offsets that
  starts at the first character and follows the links, a merge takes one symbol
  out of it, and the final walk has come some way along it. Every candidate of
  `BestPair` is a ranked pair of neighbours on the path, so it is queued, and the
  top of the heap is no worse; when the heap is empty there is none.
  `MatchesRounds` rests on the refinement: a merge of the best pair leaves the
  outcome of the reference loop as it was. On a list a trainer can produce every
  pair with the joined piece in it ranks below the pair joined, so that pair, if
  it is still there, is still the best, and the round that merges all of its
  occurrences ends alike whether or not the leftmost was merged before
  (`JoinFirst`, `RoundsKept`). That the loop ends, so that its outcome is a
  function of the pieces, is `RecursionOn`: a function whose values depend on
  values of a lesser measure exists, here the number of pieces (`RoundsDefined`).
  `TokensAreAtoms` is what joins this module to `Tokenizer`, which takes any cut
  of a pretoken into characters and products of rules for what the encoding may
  do: the tokens are such a cut, in order and without gaps, and a piece it fails
  on is one such piece more. No run checks that statement, `TokensTileText`, as
  the runs check the links and heap it follows from.
- **TextPathProofs**: `RoundTrip`, `AddedLeftmostLongest` and `WholeCharacters`
  for every file whose strings are UTF-8 (which `json::parse` checks) and every
  sequence of bytes, files with negative ids of added tokens included as long as
  the write out of bounds did no harm. The properties speak of what has been pushed, so the
  invariant `PathInv` says how far that is: `Covered` is the place in the text the ids stand for, before
  the chunk while it is scanned and up to the cursor, less the bytes of `rest`,
  while it is split. The ids decode to the marker and the text up to there
  (`Tiles`), the bytes in `rest` follow it (`Places`), each id stands for at
  least one byte (`Pushed`), no added token was found between the start of the
  chunk and the scan (`Scanned`), and what was written so far ends where a
  character of the whole output does (`Streamed`). The last could not be said of
  the bytes already decoded: these may end inside of a character, so whether a
  held-back byte is complete depends on tokens still to come. The lemmas beneath
  are about the conversions: the byte-level alphabet is injective and decoding
  undoes it for every sequence of bytes; the characters of a text are a set of
  boundaries (`Bounded`), closed under joining, cutting at a boundary and
  dropping special tokens. `Unambiguous`, the hypothesis about a file's ids, is
  part of the properties: TLC's instances hold files with and without it.
- **LoadProofs**: `ArenaNeverFull` (each buffer is planned with the alignment it
  is carved with, so the plan bounds the carving from any offset),
  `BuffersHoldEveryPass` (the buffers carved so far lie one behind another below
  `used`; what a pass touches of one grows with its tokens and its position, and
  at their largest it is the size carved) and `FilesReleased`. `LoadOutcome`
  needs to know at every stage which checks are behind it: a refusal is then the
  failure of the one at hand, and what is left when the constructor returns are
  all of them. For `WeightsWhereRead`, each block already uploaded occupies its
  own stretch of the allocation, its pointer is the start of it and every byte
  there was copied from its tensors; the next upload touches none of it. Where a
  kernel reads a layer's tensor in a fused block is then where its piece of the
  block starts, and `WeightsInReadingOrder` follows the required tensors through
  the blocks.

Only model-checked:

- liveness and what is enabled, which the prover does not handle;
- `SplitMatchesRegex`: the interpreter of the pattern is a recursive operator,
  which it does not handle either.

## Where code and comments disagree

Each of the first four is a run in which TLC finds the comment contradicted.

- The "per-stage breakdown of a decode step" (`src/main.cu:337`) includes the
  timed prefill: `generate_profile`.
- Sampling is "an exact result whenever the nucleus fits in 1024 tokens"
  (`src/kernels/sampling.cu:13`) only if the rest of its last bin fits as well:
  `sampling_nucleus`.
- "A given seed reproduces a given sequence exactly" (`src/kernels.cuh:125`)
  fails for tokens of equal probability: `sampling_seed`.
- "If the tensor inventory here is clean, loading will not fail"
  (`tools/inspect_main.cpp:6`), but element types and the output head are not
  looked at: `load_inspect`.

Met while modelling, without a run of their own:

- The step count is "one below the token count" (`src/main.cu:452`) only when the
  budget was spent. If an end-of-sequence token ends the loop, or the budget is
  zero or negative, the two are equal (`StepsFollowTokens` says when which holds).
- An added token may have a negative id, which an entry of the vocabulary may not
  (`src/tokenizer.cpp:574`). It is written out of bounds (line 608); if that does
  no harm, the token is never found in a text, and hides shorter ones that occur
  where it does (line 728; `AddedLeftmostLongest` says so).
- After a warmup the report of the cache is of its high-water mark, one position
  more than the run used if the run made no step (`ReportExact` says so).
- `src/arena.h:8` describes a scoped mark and release that nothing uses.
- A `Model` constructor that throws frees neither its stream, its cuBLAS handle
  nor its block of weights, and the constructor of `KvCache` neither of its
  pools, though `README.md:111` speaks of RAII. A file too small to hold a
  header keeps its descriptor (`src/safetensors.cpp:111`; `FilesReleased`
  excepts it).
- Zero heads without a head dimension divide by zero (`src/config.cpp:73`)
  before the check for it at line 165.
- An unsupported head dimension or number of heads per key head is only found
  at the first decode (`src/kernels/attention.cu:371`).
- A failing `cudaEventRecord` in the destructor of `ProfileScope` ends the
  process instead of being reported (`Terminate`).
- Of several `Split` pre-tokenizers only the last is compared with the supported
  pattern (`src/tokenizer.cpp:549`). The text is then cut by that one alone.
  `text_path` holds such a file for the other properties of its run;
  `SplitMatchesRegex`, the comparison with the file's pattern, would fail on it
  and is said of files with one pattern.

## What is not modelled

Floating point (rounding, overflow, half precision), vector widths and shared
memory layout, cuBLAS beyond the shape and strides of its calls, the JSON
syntax, argument parsing and printing, RoPE's frequencies, the sampling
defaults of `generation_config.json`, and the Unicode tables, which are
constants. Of the JSON syntax the types of the values are left out as well: a
file without an object where the loader looks for one, or with an id that is no
integer, is refused (`src/tokenizer.cpp:529`, 564, 571, 619) and not among the
documents. What memory a write out of bounds overwrites is not modelled beyond
that the process may not survive it. The row kernels are single launches without
state; they appear as the terms of `Transcript`, which stand for their contract
and their launches, not for their arithmetic or indexing. The tests and benchmarks drive the parts above and
keep no state of their own.

## Plan

Every safety property of the runs is proved except `SplitMatchesRegex`. What
would say most next: an interpreter of the pattern as a recursive function of
pattern and position, so that the hand-written alternatives of the pretokenizer
can be proved to be those of the pattern for every classification of the
characters; and a module that runs `Bpe` inside `Tokenizer`, in place of the
argument that joins the two (`TokensAreAtoms`).
