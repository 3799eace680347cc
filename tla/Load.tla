--------------------------------- MODULE Load ---------------------------------
(***************************************************************************)
(* Model::Model: from a checkpoint directory and a set of options to a     *)
(* model whose weights and activation buffers lie where the kernels look   *)
(* for them, or to an exception.  `stage' is the statement the constructor *)
(* is at and `at' the index of the loop that stage runs, from 1.           *)
(***************************************************************************)
EXTENDS Config, Arena, Functions

CONSTANTS
  Inputs,        (* The directories and options to load.                   *)
  ElemBytes, FloatBytes, IdBytes, (* sizeof(elem_t), of float, of int32_t  *)
  ElemDtype,     (* The dtype this build computes in.                      *)
  MaxHeader,     (* kMaxHeaderBytes                                        *)
  MaxSplits,     (* kMaxAttentionSplits                                    *)
  Slack,         (* What allocate_arena reserves beyond its plan.          *)
  Unwritten      (* Device memory no copy has reached.                     *)

DtypeBytes == [F32 |-> 4, I32 |-> 4, F16 |-> 2, BF16 |-> 2, I64 |-> 8,
               I8 |-> 1, U8 |-> 1, BOOL |-> 1]

ASSUME LoadAssumption ==
  /\ {ElemBytes, FloatBytes, IdBytes} \subseteq Nat \ {0}
  /\ MaxSplits \in Nat /\ MaxSplits > 1
  /\ Slack \in Nat
  /\ ElemDtype \in DOMAIN DtypeBytes /\ DtypeBytes[ElemDtype] = ElemBytes

(* What the JSON library and the command line let a number be, and the     *)
(* std::set of shards an index names.                                      *)
NumberFields == IntegerFields \cup {"num_key_value_heads", "head_dim"}

ASSUME InputsAssumption ==
  \A input \in Inputs :
    /\ \A f \in NumberFields : input.dir.config[f] \in Int \cup {Absent, Text}
    /\ input.options.maxSeq \in Int /\ input.options.chunk \in Int
    /\ LET index == input.dir.index
       IN  \/ index \in {Absent, Text}
           \/ Len(index) \in Nat /\ DOMAIN index = 1 .. Len(index) /\ IsInjective(index)
    /\ \A n \in DOMAIN input.dir.files :
         LET entries == input.dir.files[n].entries
         IN  \A t \in DOMAIN entries :
               entries[t] = Text \/ (entries[t].begin \in Int /\ entries[t].end \in Int)

VARIABLES
  dir, options,  (* The arguments of the constructor.                      *)
  stage, at, status,
  config,        (* config_                                                *)
  descriptors,   (* Files open in the process.                             *)
  tensors,       (* SafetensorsArchive::tensors_                           *)
  total,         (* load_weights: bytes planned, then bytes filled.        *)
  memory,        (* weight_block_: the file and offset each byte is from.  *)
  pointers,      (* embedding_, final_norm_, lm_head_, and LayerWeights.   *)
  planned,       (* History: allocate_arena's total after each size.       *)
  buffers        (* The activation buffers: where, and how many bytes.     *)

inputVars  == <<dir, options>>
loaderVars == <<total, memory, pointers>>
arenaVars  == <<capacity, used, planned, buffers>>
vars == <<inputVars, stage, at, status, config, descriptors, tensors,
          loaderVars, arenaVars>>

Init ==
  /\ \E input \in Inputs : dir = input.dir /\ options = input.options
  /\ stage = "config" /\ at = 1 /\ status = "loading"
  /\ config = Absent /\ descriptors = {} /\ tensors = << >>
  /\ total = 0 /\ memory = << >> /\ pointers = << >>
  /\ capacity = 0 /\ used = 0 /\ planned = << >> /\ buffers = << >>

Loading(s) == status = "loading" /\ stage = s
Goto(s)    == stage' = s /\ at' = 1 /\ UNCHANGED status
Again      == at' = at + 1 /\ UNCHANGED <<stage, status>>

(* An exception leaves the constructor: the archive's files are closed.    *)
LeaveOpen(how) ==  (* mutant: the destructor of MappedFile does not close *)
  status' = how /\ UNCHANGED <<stage, at, descriptors>>
Leave(how) == status' = how /\ descriptors' = {} /\ UNCHANGED <<stage, at>>

-----------------------------------------------------------------------------
ReadConfig ==
  /\ Loading("config")
  /\ LET doc == dir.config
         c   == ConfigOf(doc, dir.generation)
     IN  IF ~FieldsReadable(doc)
           THEN Leave("refused") /\ UNCHANGED config
         ELSE IF DividesByZero(doc)
           THEN Leave("crashed") /\ UNCHANGED config
         ELSE IF Supported(doc) /\ Validate(c)
           THEN config' = c /\ Goto("options") /\ UNCHANGED descriptors
           ELSE Leave("refused") /\ UNCHANGED config
  /\ UNCHANGED <<inputVars, tensors, loaderVars, arenaVars>>

CheckOptions ==
  /\ Loading("options")
  /\ IF options.maxSeq > 0 /\ options.chunk > 0
       THEN Goto("open") /\ UNCHANGED descriptors
       ELSE Leave("refused")
  /\ UNCHANGED <<inputVars, config, tensors, loaderVars, arenaVars>>

MaxTokens == IF options.chunk < options.maxSeq THEN options.chunk ELSE options.maxSeq

-----------------------------------------------------------------------------
(* SafetensorsArchive.  The index only names the shards: every tensor of a *)
(* shard is taken.  A std::set walks them in order, each once.             *)
Single == "model.safetensors"

Shards ==
  IF Single \in DOMAIN dir.files THEN <<Single>>
  ELSE IF dir.index \in {Absent, Text} THEN << >> ELSE dir.index

Numel(shape) ==
  LET upTo[i \in 0 .. Len(shape)] == IF i = 0 THEN 1 ELSE upTo[i - 1] * shape[i]
  IN  upTo[Len(shape)]

HeaderReadable(file) ==
  /\ file.header > 0 /\ file.header <= MaxHeader
  /\ 8 + file.header <= file.size
  /\ file.parses

EntryDescribed(file, e) ==
  /\ e # Text
  /\ e.dtype \in DOMAIN DtypeBytes
  /\ \A i \in DOMAIN e.shape : e.shape[i] >= 0
  /\ e.begin >= 0 /\ e.end >= e.begin
  /\ e.end <= file.size - 8 - file.header
  /\ e.end - e.begin = Numel(e.shape) * DtypeBytes[e.dtype]

FileReadable(name) ==
  LET file == dir.files[name]
  IN  /\ HeaderReadable(file)
      /\ \A t \in DOMAIN file.entries : EntryDescribed(file, file.entries[t])

ViewsOf(name) ==
  LET entries == dir.files[name].entries
  IN  [t \in DOMAIN entries |->
        [file |-> name, begin |-> entries[t].begin, dtype |-> entries[t].dtype,
         shape |-> entries[t].shape, nbytes |-> entries[t].end - entries[t].begin]]

(* A map with the entries of another.                                      *)
With(f, g) ==
  [x \in DOMAIN f \cup DOMAIN g |-> IF x \in DOMAIN f THEN f[x] ELSE g[x]]

OverlapIgnored(views) == FALSE      (* mutant: an entry seen before is skipped *)
Overlap(views)        == DOMAIN views \cap DOMAIN tensors # {}

OpenFails(name) ==
  \/ name \notin DOMAIN dir.files
  \/ dir.files[name].size <= 8

(* open(2) failed, or the size is too small: that check throws with the    *)
(* descriptor open, in a constructor whose destructor will not run.        *)
KeptOpen(name) == IF name \in DOMAIN dir.files THEN {name} ELSE {}

OpenFile ==
  /\ Loading("open") /\ at \in DOMAIN Shards
  /\ LET name  == Shards[at]
     IN  IF OpenFails(name)
           THEN /\ status' = "refused" /\ descriptors' = KeptOpen(name)
                /\ UNCHANGED <<stage, at, tensors>>
         ELSE IF FileReadable(name) /\ ~Overlap(ViewsOf(name))
           THEN /\ tensors' = With(tensors, ViewsOf(name))
                /\ descriptors' = descriptors \cup {name}
                /\ Again
           ELSE Leave("refused") /\ UNCHANGED tensors
  /\ UNCHANGED <<inputVars, config, loaderVars, arenaVars>>

ArchiveOpen ==
  /\ Loading("open") /\ at \notin DOMAIN Shards
  /\ IF DOMAIN tensors # {}
       THEN Goto("weights") /\ UNCHANGED descriptors
       ELSE Leave("refused")
  /\ UNCHANGED <<inputVars, config, tensors, loaderVars, arenaVars>>

-----------------------------------------------------------------------------
(* load_weights: the blocks of the one weight allocation, in the order the *)
(* forward pass reads them.  Matrices that are applied to the same vector  *)
(* share a block, one after the other.                                     *)
Block(l, to, pieces) == [to |-> <<l, to>>, pieces |-> pieces]

LayerBlocks(c, l) ==
  << Block(l, "input_norm", <<WeightSpec(l, "input_layernorm", <<c.hidden>>)>>),
     Block(l, "qkv_proj", << WeightSpec(l, "q_proj", <<QDim(c), c.hidden>>),
                             WeightSpec(l, "k_proj", <<KvDim(c), c.hidden>>),
                             WeightSpec(l, "v_proj", <<KvDim(c), c.hidden>>) >>),
     Block(l, "o_proj", <<WeightSpec(l, "o_proj", <<c.hidden, QDim(c)>>)>>),
     Block(l, "post_attention_norm",
           <<WeightSpec(l, "post_attention_layernorm", <<c.hidden>>)>>),
     Block(l, "gate_up_proj", << WeightSpec(l, "gate_proj", <<c.ffn, c.hidden>>),
                                 WeightSpec(l, "up_proj", <<c.ffn, c.hidden>>) >>),
     Block(l, "down_proj", <<WeightSpec(l, "down_proj", <<c.hidden, c.ffn>>)>>) >>

LmHead  == <<0, "lm_head">>
HasHead == LmHead \in DOMAIN tensors

Blocks ==
  LET c == config
  IN  << Block(0, "embedding", <<WeightSpec(0, "embed_tokens", <<c.vocab, c.hidden>>)>>) >>
        \o [i \in 1 .. 6 * c.layers |->
              LayerBlocks(c, (i - 1) \div 6 + 1)[((i - 1) % 6) + 1]]
        \o << Block(0, "final_norm", <<WeightSpec(0, "norm", <<c.hidden>>)>>) >>
        \o IF HasHead
             THEN << Block(0, "lm_head",
                           <<WeightSpec(0, "lm_head", <<c.vocab, c.hidden>>)>>) >>
             ELSE << >>

(* archive.get, the dtype of the build, and expect_shape.                  *)
PieceUsable(spec) ==
  /\ spec.name \in DOMAIN tensors
  /\ tensors[spec.name].dtype = ElemDtype
  /\ tensors[spec.name].shape = spec.shape

BytesBefore(block, i) ==
  LET upTo[j \in 0 .. Len(block.pieces)] ==
        IF j = 0 THEN 0 ELSE upTo[j - 1] + tensors[block.pieces[j].name].nbytes
  IN  upTo[i - 1]
BytesUnstacked(block, i) == 0       (* mutant: the pieces of a block overlap *)
PieceOffset(block, i)    == BytesBefore(block, i)
BlockBytes(block)        == BytesBefore(block, Len(block.pieces) + 1)

(* The checks of one block, and its share of the total, which the code     *)
(* adds up in a loop of its own after all checks.                          *)
PlanBlock ==
  /\ Loading("weights") /\ at \in DOMAIN Blocks
  /\ IF \A i \in DOMAIN Blocks[at].pieces : PieceUsable(Blocks[at].pieces[i])
       THEN /\ total' = AlignUp(total) + BlockBytes(Blocks[at])
            /\ Again /\ UNCHANGED descriptors
       ELSE Leave("refused") /\ UNCHANGED total
  /\ UNCHANGED <<inputVars, config, tensors, memory, pointers, arenaVars>>

HeadKnown == HasHead \/ config.tied

AllocateWeights ==
  /\ Loading("weights") /\ at \notin DOMAIN Blocks
  /\ IF HeadKnown
       THEN /\ memory' = [a \in 0 .. total - 1 |-> Unwritten]
            /\ total' = 0
            /\ Goto("upload") /\ UNCHANGED descriptors
       ELSE Leave("refused") /\ UNCHANGED <<memory, total>>
  /\ UNCHANGED <<inputVars, config, tensors, pointers, arenaVars>>

(* One block: align, copy its pieces, set the pointer, move past it.       *)
Covers(block, base, i, a) ==
  LET from == base + PieceOffset(block, i)
  IN  a >= from /\ a < from + tensors[block.pieces[i].name].nbytes

Copied(block, base) ==
  [a \in DOMAIN memory |->
     LET covering == {i \in DOMAIN block.pieces : Covers(block, base, i, a)}
         last     == CHOOSE i \in covering : \A j \in covering : j <= i
         view     == tensors[block.pieces[last].name]
     IN  IF covering = {} THEN memory[a]
         ELSE <<view.file, view.begin + a - base - PieceOffset(block, last)>>]

UploadBlock ==
  /\ Loading("upload") /\ at \in DOMAIN Blocks
  /\ LET block == Blocks[at]
         base  == AlignUp(total)
     IN  /\ memory' = Copied(block, base)
         /\ pointers' = With(pointers, [to \in {block.to} |-> base])
         /\ total' = base + BlockBytes(block)
  /\ Again
  /\ UNCHANGED <<inputVars, config, descriptors, tensors, arenaVars>>

(* Without an output head of its own the model reads the embeddings twice. *)
TieHead ==
  /\ Loading("upload") /\ at \notin DOMAIN Blocks
  /\ pointers' = IF HasHead THEN pointers
                 ELSE With(pointers, [to \in {LmHead} |-> pointers[<<0, "embedding">>]])
  /\ Goto("cache")
  /\ UNCHANGED <<inputVars, config, descriptors, tensors, total, memory, arenaVars>>

(* KvCache's constructor, and the upload of the rotary frequencies.        *)
BuildCache ==
  /\ Loading("cache")
  /\ IF options.paged => options.pageSize > 0
       THEN Goto("plan") /\ UNCHANGED descriptors
       ELSE Leave("refused")
  /\ UNCHANGED <<inputVars, config, tensors, loaderVars, arenaVars>>

-----------------------------------------------------------------------------
(* allocate_arena.  Bytes of the seventeen buffers, as planned ...         *)
Tokens == MaxTokens
Residual  == Tokens * config.hidden * ElemBytes
QBuffer   == Tokens * QDim(config) * ElemBytes
QkvBuffer == Tokens * (QDim(config) + 2 * KvDim(config)) * ElemBytes
FfnBuffer == Tokens * config.ffn * ElemBytes
GateUpBuffer == Tokens * 2 * config.ffn * ElemBytes

ScoresOfChunk == config.heads * Tokens * Tokens  (* mutant: keys of the chunk only *)
ScoreCount    == config.heads * Tokens * options.maxSeq

ScratchFloats == config.heads * MaxSplits * (2 + config.headDim)

Gathered ==
  IF options.paged
    THEN config.kvHeads * options.maxSeq * config.headDim * ElemBytes ELSE 0

Sizes ==
  << Residual, Residual, Residual, QkvBuffer, QBuffer, QBuffer, QBuffer,
     GateUpBuffer, FfnBuffer, ScoreCount * FloatBytes, ScoreCount * ElemBytes,
     config.vocab * FloatBytes, ScratchFloats * FloatBytes, Gathered, Gathered,
     Tokens * IdBytes, IdBytes >>

(* ... and as carved: counts of elements, each rounded down by a division. *)
Whole(bytes, unit) == (bytes \div unit) * unit
Larger(a, b) == IF a < b THEN b ELSE a

Carving(buffer, bytes) == [buffer |-> buffer, bytes |-> bytes]

Carvings ==
  << Carving("x", Whole(Residual, ElemBytes)),
     Carving("normed", Whole(Residual, ElemBytes)),
     Carving("proj_out", Whole(Residual, ElemBytes)),
     Carving("qkv", Whole(QkvBuffer, ElemBytes)),
     Carving("q_heads", Whole(QBuffer, ElemBytes)),
     Carving("attn_heads", Whole(QBuffer, ElemBytes)),
     Carving("attn_out", Whole(QBuffer, ElemBytes)),
     Carving("gate_up", Whole(GateUpBuffer, ElemBytes)),
     Carving("act", Whole(FfnBuffer, ElemBytes)),
     Carving("scores", Whole(ScoreCount * FloatBytes, FloatBytes)),
     Carving("probs", Whole(ScoreCount * ElemBytes, ElemBytes)),
     Carving("logits", Whole(config.vocab * FloatBytes, FloatBytes)),
     Carving("attention_scratch",
             Larger(1, (ScratchFloats * FloatBytes) \div FloatBytes) * FloatBytes),
     Carving("gathered_keys", Whole(Gathered, ElemBytes)),
     Carving("gathered_values", Whole(Gathered, ElemBytes)),
     Carving("token_ids", Tokens * IdBytes),
     Carving("sampled_id", IdBytes) >>

Skipped(k) == k \in {14, 15} /\ Gathered = 0

PlannedSoFar     == IF planned = << >> THEN 0 ELSE planned[Len(planned)]
PlanUnaligned(k) == PlannedSoFar + Sizes[k]  (* mutant *)
PlanAfter(k)     == AlignUp(PlannedSoFar) + Sizes[k]

PlanBuffer ==
  /\ Loading("plan") /\ at \in 1 .. 17
  /\ planned' = Append(planned, PlanAfter(at))
  /\ Again
  /\ UNCHANGED <<inputVars, config, descriptors, tensors, loaderVars,
                 capacity, used, buffers>>

ReserveArena ==
  /\ Loading("plan") /\ at = 18
  /\ Reserve(PlannedSoFar + Slack)
  /\ Goto("carve")
  /\ UNCHANGED <<inputVars, config, descriptors, tensors, loaderVars, planned, buffers>>

CarveBuffer ==
  /\ Loading("carve") /\ at \in 1 .. 17 /\ ~Skipped(at)
  /\ LET c == Carvings[at]
     IN  IF HasRoom(c.bytes)
           THEN /\ Allocate(c.bytes)
                /\ buffers' = [b \in DOMAIN buffers \cup {c.buffer} |->
                     IF b = c.buffer THEN [from |-> AlignUp(used), bytes |-> c.bytes]
                                     ELSE buffers[b]]
                /\ Again /\ UNCHANGED descriptors
           ELSE Leave("refused") /\ UNCHANGED <<capacity, used, buffers>>
  /\ UNCHANGED <<inputVars, config, tensors, loaderVars, planned>>

SkipGathered ==
  /\ Loading("carve") /\ at \in 1 .. 17 /\ Skipped(at)
  /\ Again
  /\ UNCHANGED <<inputVars, config, descriptors, tensors, loaderVars, arenaVars>>

(* The constructor returns, and with it goes the archive.                  *)
Return ==
  /\ Loading("carve") /\ at = 18
  /\ Leave("ready")
  /\ UNCHANGED <<inputVars, config, tensors, loaderVars, arenaVars>>

-----------------------------------------------------------------------------
(* A CUDA call fails, or fstat or mmap, which close the file they failed   *)
(* on: the constructor throws.                                             *)
CallsSystem ==
  /\ status = "loading"
  /\ \/ stage \in {"config", "cache"}
     \/ stage = "open"    /\ at \in DOMAIN Shards
     \/ stage = "weights" /\ at \notin DOMAIN Blocks
     \/ stage = "upload"  /\ at \in DOMAIN Blocks
     \/ stage = "plan"    /\ at = 18

SystemFails ==
  /\ CallsSystem
  /\ Leave("failed")
  /\ UNCHANGED <<inputVars, config, tensors, loaderVars, arenaVars>>

Stopped == status # "loading" /\ UNCHANGED vars

Next ==
  \/ ReadConfig \/ CheckOptions \/ OpenFile \/ ArchiveOpen
  \/ PlanBlock \/ AllocateWeights \/ UploadBlock \/ TieHead \/ BuildCache
  \/ PlanBuffer \/ ReserveArena \/ CarveBuffer \/ SkipGathered \/ Return
  \/ SystemFails \/ Stopped

Spec == Init /\ [][Next]_vars

-----------------------------------------------------------------------------
(* What a later pass touches.  In run_layers, a matrix product computes    *)
(* column j of its output from row j of its operand, and the kernels after *)
(* it take their columns at fixed offsets: where they expect the first row *)
(* of each tensor, as the block and the row in it.                         *)
Reads(l, role) ==
  LET c == config
      At(to, row) == [to |-> <<l, to>>, row |-> row]
  IN  CASE role = "input_layernorm" -> At("input_norm", 0)
        [] role = "q_proj"    -> At("qkv_proj", 0)
        [] role = "k_proj"    -> At("qkv_proj", QDim(c))
        [] role = "v_proj"    -> At("qkv_proj", QDim(c) + KvDim(c))
        [] role = "o_proj"    -> At("o_proj", 0)
        [] role = "post_attention_layernorm" -> At("post_attention_norm", 0)
        [] role = "gate_proj" -> At("gate_up_proj", 0)
        [] role = "up_proj"   -> At("gate_up_proj", c.ffn)
        [] role = "down_proj" -> At("down_proj", 0)
        [] role = "embed_tokens" -> At("embedding", 0)
        [] role = "norm"      -> At("final_norm", 0)
        [] role = "lm_head"   -> At("lm_head", 0)

AddressRead(spec) ==
  LET read  == Reads(spec.name[1], spec.name[2])
      width == spec.shape[Len(spec.shape)]
  IN  pointers[read.to] + read.row * width * ElemBytes

(* Bytes of each buffer that a pass of t tokens at position s touches;     *)
(* passes of one token use the decode path of attention.                   *)
Extents(t, s) ==
  LET c    == config
      keys == s + t
      rows == c.kvHeads * (c.heads \div c.kvHeads) * t
  IN  [x |-> t * c.hidden * ElemBytes,
       normed |-> t * c.hidden * ElemBytes,
       proj_out |-> t * c.hidden * ElemBytes,
       qkv |-> t * (QDim(c) + 2 * KvDim(c)) * ElemBytes,
       q_heads |-> c.heads * t * c.headDim * ElemBytes,
       attn_heads |-> IF t = 1 THEN 0 ELSE rows * c.headDim * ElemBytes,
       attn_out |-> t * c.heads * c.headDim * ElemBytes,
       gate_up |-> t * 2 * c.ffn * ElemBytes,
       act |-> t * c.ffn * ElemBytes,
       scores |-> IF t = 1 THEN 0 ELSE rows * keys * FloatBytes,
       probs |-> IF t = 1 THEN 0 ELSE rows * keys * ElemBytes,
       logits |-> c.vocab * FloatBytes,
       attention_scratch |-> IF t = 1
         THEN c.heads * (IF keys < MaxSplits THEN keys ELSE MaxSplits)
                * (2 + c.headDim) * FloatBytes
         ELSE 2 * FloatBytes,
       gathered_keys |-> IF t = 1 \/ ~options.paged THEN 0
                         ELSE c.kvHeads * keys * c.headDim * ElemBytes,
       gathered_values |-> IF t = 1 \/ ~options.paged THEN 0
                           ELSE c.kvHeads * keys * c.headDim * ElemBytes,
       token_ids |-> t * IdBytes,
       sampled_id |-> IdBytes]

-----------------------------------------------------------------------------
(* tools/inspect_main.cpp: what lcr-inspect calls a problem.               *)
InspectionClean ==
  \A i \in DOMAIN RequiredWeights(config) :
    LET spec == RequiredWeights(config)[i]
    IN  spec.name \in DOMAIN tensors /\ tensors[spec.name].shape = spec.shape

(* A directory and options from which a model can be made, said without    *)
(* reference to the order of the steps or to the blocks.                   *)
HeadOf(c) == WeightSpec(0, "lm_head", <<c.vocab, c.hidden>>)

Holds(names, spec) ==
  \E n \in names : LET entries == dir.files[n].entries
                   IN  /\ spec.name \in DOMAIN entries
                       /\ entries[spec.name].shape = spec.shape
                       /\ entries[spec.name].dtype = ElemDtype

Loadable ==
  LET c     == ConfigOf(dir.config, dir.generation)
      names == Range(Shards)
      held  == UNION {DOMAIN dir.files[n].entries : n \in names}
  IN  /\ FieldsReadable(dir.config) /\ ~DividesByZero(dir.config)
      /\ Supported(dir.config) /\ Validate(c)
      /\ options.maxSeq > 0 /\ options.chunk > 0
      /\ options.paged => options.pageSize > 0
      /\ \A n \in names : ~OpenFails(n) /\ FileReadable(n)
      /\ \A m, n \in names : m # n =>
            DOMAIN dir.files[m].entries \cap DOMAIN dir.files[n].entries = {}
      /\ \A i \in DOMAIN RequiredWeights(c) : Holds(names, RequiredWeights(c)[i])
      /\ IF LmHead \in held THEN Holds(names, HeadOf(c)) ELSE c.tied

(* Model::Model: unless the system fails it, the constructor returns       *)
(* exactly for the checkpoints and options a model can be made from,       *)
(* however they are sharded; config.json can crash it in one way, zero     *)
(* attention heads without a head_dim.                                     *)
LoadOutcome ==
  /\ status = "ready"   => Loadable
  /\ status = "refused" => ~Loadable
  /\ status = "crashed" => ~Loadable /\ dir.config.num_attention_heads = 0

(* load_weights and run_layers: every byte of every tensor is where the    *)
(* kernels look for it, in the fused blocks and through the tied head too. *)
WeightsWhereRead ==
  status = "ready" =>
    LET specs == Range(RequiredWeights(config)) \cup {HeadOf(config)}
        Source(spec) == IF spec.name = LmHead /\ ~HasHead
                          THEN tensors[<<0, "embed_tokens">>] ELSE tensors[spec.name]
    IN  \A spec \in specs : \A b \in 0 .. Numel(spec.shape) * ElemBytes - 1 :
          /\ AddressRead(spec) + b \in DOMAIN memory
          /\ memory[AddressRead(spec) + b] =
               <<Source(spec).file, Source(spec).begin + b>>

(* config.h:71 promises that required_weights lists the tensors in the     *)
(* order they are read and that the loader places them in that order.      *)
WeightsInReadingOrder ==
  status = "ready" =>
    LET specs == RequiredWeights(config)
    IN  /\ \A i, j \in DOMAIN specs : i < j =>
             AddressRead(specs[i]) + Numel(specs[i].shape) * ElemBytes
               <= AddressRead(specs[j])
        /\ \A k \in DOMAIN Blocks : \A p \in Range(Blocks[k].pieces) :
             p.name # LmHead => p \in Range(specs)

(* allocate_arena: the second list of allocations never asks the arena for *)
(* more than the first list reserved.                                      *)
ArenaNeverFull ==
  Loading("carve") /\ at \in 1 .. 17 /\ ~Skipped(at) => HasRoom(Carvings[at].bytes)

(* model.cu: the buffers are disjoint, and every pass that prefill and     *)
(* decode admit stays inside of them: any chunk, at any position, decode's *)
(* partial results, the gathered pages and the sampler's two floats.       *)
BuffersHoldEveryPass ==
  status = "ready" =>
    /\ \A b \in DOMAIN buffers : buffers[b].from + buffers[b].bytes <= capacity
    /\ \A a, b \in DOMAIN buffers : a # b =>
         \/ buffers[a].from + buffers[a].bytes <= buffers[b].from
         \/ buffers[b].from + buffers[b].bytes <= buffers[a].from
    /\ \A t \in 1 .. MaxTokens : \A s \in 0 .. options.maxSeq - t :
         \A b \in DOMAIN Extents(t, s) :
           Extents(t, s)[b] > 0 =>
             b \in DOMAIN buffers /\ Extents(t, s)[b] <= buffers[b].bytes

(* safetensors.cpp: loading leaves no file open, however it ends, but the  *)
(* one whose size was found too small to be a checkpoint.                  *)
FilesReleased ==
  status # "loading" =>
    \A name \in descriptors : dir.files[name].size <= 8

(* tools/inspect_main.cpp:7 says: "If the tensor inventory here is clean,  *)
(* loading will not fail."                                                 *)
InspectionSuffices ==
  status = "refused" /\ stage = "weights" => ~InspectionClean

=============================================================================
