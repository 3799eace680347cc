-------------------------------- MODULE Config --------------------------------
(***************************************************************************)
(* src/config.cpp: what becomes of a config.json, and the list of tensors  *)
(* the runtime says a checkpoint must hold.  A document is a record of its *)
(* fields; a field may be Absent, or Text where the code wants a number.   *)
(* The magnitudes of the floating-point fields matter only in the checks.  *)
(***************************************************************************)
EXTENDS Integers, Sequences

CONSTANTS Absent, Text

IntegerFields == {"hidden_size", "intermediate_size", "num_hidden_layers",
                  "num_attention_heads", "vocab_size", "max_position_embeddings"}

IsNumber(v) == v \notin {Absent, Text}
Or(v, default) == IF v = Absent THEN default ELSE v

(* Integer division of C++, which rounds toward zero.                      *)
Size(n) == IF n < 0 THEN -n ELSE n
Quotient(a, b) ==
  (IF (a < 0) = (b < 0) THEN 1 ELSE -1) * (Size(a) \div Size(b))

-----------------------------------------------------------------------------
(* from_json_string, up to the sizes: a field of the wrong type throws.    *)
FieldsReadable(doc) ==
  /\ doc.model_type \in {Absent, "llama"}
  /\ \A f \in IntegerFields : IsNumber(doc[f])
  /\ doc.num_key_value_heads # Text

(* hidden_size / num_attention_heads is evaluated before any size has been *)
(* checked: without head_dim, zero heads divide by zero.                   *)
ImpliesHeadDim(doc) == ~IsNumber(doc.head_dim)
DividesByZero(doc)  == ImpliesHeadDim(doc) /\ doc.num_attention_heads = 0

(* The rest of from_json_string: what this runtime does not implement.     *)
RopeType(scaling) ==
  IF scaling.rope_type # Absent THEN scaling.rope_type ELSE Or(scaling.type, "default")
Rescaled(doc) ==
  doc.rope_scaling # Absent /\ RopeType(doc.rope_scaling) \notin {"default", "none"}

Supported(doc) ==
  /\ Text \notin {doc.rms_norm_eps, doc.rope_theta, doc.tie_word_embeddings}
  /\ doc.attention_bias # TRUE /\ doc.mlp_bias # TRUE
  /\ doc.hidden_act \in {Absent, "silu"}
  /\ Rescaled(doc) => RopeType(doc.rope_scaling) = "llama3"

(* Defaults of config.h; any positive number stands for the default of     *)
(* rms_norm_eps.  generation_config.json has the last word on stop tokens  *)
(* when it names any.                                                      *)
ConfigOf(doc, generation) ==
  [hidden  |-> doc.hidden_size,
   ffn     |-> doc.intermediate_size,
   layers  |-> doc.num_hidden_layers,
   heads   |-> doc.num_attention_heads,
   kvHeads |-> Or(doc.num_key_value_heads, doc.num_attention_heads),
   headDim |-> IF ImpliesHeadDim(doc)
                 THEN Quotient(doc.hidden_size, doc.num_attention_heads)
                 ELSE doc.head_dim,
   vocab   |-> doc.vocab_size,
   eps     |-> Or(doc.rms_norm_eps, 1),
   theta   |-> Or(doc.rope_theta, 500000),
   tied    |-> Or(doc.tie_word_embeddings, TRUE),
   scaling |-> IF Rescaled(doc) THEN doc.rope_scaling ELSE Absent,
   eos     |-> IF generation.eos # {} THEN generation.eos ELSE doc.eos_token_id]

Validate(c) ==
  /\ c.hidden > 0 /\ c.ffn > 0 /\ c.layers > 0
  /\ c.heads > 0 /\ c.kvHeads > 0 /\ c.heads % c.kvHeads = 0
  /\ c.headDim > 0 /\ c.headDim % 2 = 0
  /\ c.vocab > 0 /\ c.eps > 0 /\ c.theta > 1
  /\ c.scaling # Absent =>
       /\ c.scaling.factor > 0
       /\ c.scaling.high_freq_factor > c.scaling.low_freq_factor
       /\ c.scaling.original_max_position_embeddings > 0

-----------------------------------------------------------------------------
QDim(c)  == c.heads * c.headDim
KvDim(c) == c.kvHeads * c.headDim

(* A tensor name: the layer it belongs to, 0 for none, and its role.       *)
WeightSpec(layer, role, shape) == [name |-> <<layer, role>>, shape |-> shape]

LayerWeights(c, l) ==
  << WeightSpec(l, "input_layernorm", <<c.hidden>>),
     WeightSpec(l, "q_proj", <<QDim(c), c.hidden>>),
     WeightSpec(l, "k_proj", <<KvDim(c), c.hidden>>),
     WeightSpec(l, "v_proj", <<KvDim(c), c.hidden>>),
     WeightSpec(l, "o_proj", <<c.hidden, QDim(c)>>),
     WeightSpec(l, "post_attention_layernorm", <<c.hidden>>),
     WeightSpec(l, "gate_proj", <<c.ffn, c.hidden>>),
     WeightSpec(l, "up_proj", <<c.ffn, c.hidden>>),
     WeightSpec(l, "down_proj", <<c.hidden, c.ffn>>) >>

EveryLayer(c) ==
  [i \in 1 .. 9 * c.layers |->
     LayerWeights(c, (i - 1) \div 9 + 1)[((i - 1) % 9) + 1]]

Embedding(c) == << WeightSpec(0, "embed_tokens", <<c.vocab, c.hidden>>) >>
FinalNorm(c) == << WeightSpec(0, "norm", <<c.hidden>>) >>

(* required_weights                                                        *)
NormsFirst(c)      == Embedding(c) \o FinalNorm(c) \o EveryLayer(c)  (* mutant *)
RequiredWeights(c) == Embedding(c) \o EveryLayer(c) \o FinalNorm(c)

=============================================================================
