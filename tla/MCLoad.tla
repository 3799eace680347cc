-------------------------------- MODULE MCLoad --------------------------------
(***************************************************************************)
(* Load for a model of two layers whose tensors have all different sizes,  *)
(* none a multiple of the alignment: intact, in one file or two shards,    *)
(* and with every single field, tensor, file or option spoilt in each of   *)
(* the ways the code distinguishes.  A spoilt config.json also meets the   *)
(* other spoilt fields, two at a time.                                     *)
(***************************************************************************)
EXTENDS Load, SequencesExt

Scaling == [rope_type |-> "llama3", type |-> Absent, factor |-> 8, low_freq_factor |-> 1,
            high_freq_factor |-> 4, original_max_position_embeddings |-> 16]

GoodConfig ==
  [model_type |-> "llama", hidden_size |-> 2, intermediate_size |-> 3,
   num_hidden_layers |-> 2, num_attention_heads |-> 2, num_key_value_heads |-> 1,
   head_dim |-> 2, vocab_size |-> 5, max_position_embeddings |-> 16,
   rms_norm_eps |-> Absent, rope_theta |-> Absent, tie_word_embeddings |-> FALSE,
   attention_bias |-> Absent, mlp_bias |-> FALSE, hidden_act |-> "silu",
   rope_scaling |-> Absent, eos_token_id |-> {1}]

OddFields ==
  [model_type |-> {"other", Absent}, hidden_size |-> {0, Absent},
   intermediate_size |-> {0, Text}, num_hidden_layers |-> {-1, 1},
   num_attention_heads |-> {-1, 0, 3}, num_key_value_heads |-> {0, Absent, Text},
   head_dim |-> {0, 3, Absent}, vocab_size |-> {0, 4}, rms_norm_eps |-> {0},
   rope_theta |-> {1}, tie_word_embeddings |-> {TRUE, Text}, attention_bias |-> {TRUE},
   mlp_bias |-> {TRUE}, hidden_act |-> {"gelu"},
   rope_scaling |-> {Scaling, [Scaling EXCEPT !.rope_type = "yarn"],
                     [Scaling EXCEPT !.rope_type = Absent],
                     [Scaling EXCEPT !.rope_type = Absent, !.type = "none"],
                     [Scaling EXCEPT !.factor = 0], [Scaling EXCEPT !.low_freq_factor = 4],
                     [Scaling EXCEPT !.original_max_position_embeddings = 0]}]

Spoilt(r, odd) == UNION {{[r EXCEPT ![f] = v] : v \in odd[f]} : f \in DOMAIN odd}

(* The tensors of the good model, laid out one after the other, behind a   *)
(* gap, in the order given.                                                *)
GoodModel  == ConfigOf(GoodConfig, [eos |-> {}])
GoodSpecs  == Append(RequiredWeights(GoodModel), HeadOf(GoodModel))
BytesOf(s) == Numel(s.shape) * ElemBytes

Placed(file, s) ==
  LET begin == file.size - 8 - MaxHeader
      entry == [dtype |-> ElemDtype, shape |-> s.shape, begin |-> begin,
                end |-> begin + BytesOf(s)]
  IN  [size |-> file.size + BytesOf(s), header |-> MaxHeader, parses |-> TRUE,
       entries |-> file.entries @@ (s.name :> entry)]

FileOf(specs) == FoldLeft(Placed, [size |-> 8 + MaxHeader + 2, entries |-> << >>], specs)

Half(parity) == [i \in 1 .. (Len(GoodSpecs) + parity) \div 2 |-> GoodSpecs[2 * i - parity]]

GoodFile  == FileOf(GoodSpecs)
ShardFile == FileOf(Half(1))
Whole1    == Single :> GoodFile
Untied    == Single :> FileOf(SubSeq(GoodSpecs, 1, Len(GoodSpecs) - 1))
TwoShards == "a" :> FileOf(Half(0)) @@ "b" :> ShardFile

Dir(doc, files, index) ==
  [config |-> doc, generation |-> [eos |-> {1, 2}], files |-> files, index |-> index]

GoodOptions == [maxSeq |-> 3, chunk |-> 2, paged |-> TRUE, pageSize |-> 2]
OddOptions  == [maxSeq |-> {0, 1}, chunk |-> {0, 1, 4}, paged |-> {FALSE}, pageSize |-> {0}]

OddEntries(e) ==
  {Text} \cup Spoilt(e, [dtype |-> {"F64", "F16", "F32"},
                         shape |-> {e.shape \o <<1>>, <<-1>>, <<BytesOf(e) \div ElemBytes>>},
                         begin |-> {-1, e.begin + 1}, end |-> {0, e.end + 1, 1000}])
    \cup {[e EXCEPT !.shape = <<3, 3>>, !.begin = 0, !.end = 9 * ElemBytes]}
OddFiles(f) ==
  Spoilt(f, [size |-> {8, 8 + MaxHeader - 1, f.size - 1}, header |-> {0, MaxHeader + 1},
             parses |-> {FALSE}])
    \cup {[f EXCEPT !.entries = << >>]}
    \cup UNION {{[f EXCEPT !.entries[n] = e] : e \in OddEntries(f.entries[n])} :
                  n \in DOMAIN f.entries}
    \cup {[f EXCEPT !.entries = [m \in DOMAIN f.entries \ {n} |-> f.entries[m]]] :
            n \in DOMAIN f.entries}

Shard == <<"a", "b">>
Dirs ==
  {Dir(c, Whole1, Absent) : c \in Spoilt(GoodConfig, OddFields)}
    \cup {Dir(c, << >>, Absent) : c \in UNION {Spoilt(d, OddFields) : d \in Spoilt(GoodConfig, OddFields)}}
    \cup {Dir(c, Untied, Absent) : c \in {GoodConfig, [GoodConfig EXCEPT !.tie_word_embeddings = TRUE]}}
    \cup {Dir(GoodConfig, Single :> f, Absent) : f \in OddFiles(GoodFile)}
    \cup {Dir(GoodConfig, TwoShards, i) : i \in {Absent, Text, << >>, Shard, <<"a">>, <<"a", "b", "c">>}}
    \cup {Dir(GoodConfig, [TwoShards EXCEPT !["b"] = f], Shard) : f \in OddFiles(ShardFile)}
    \cup {Dir(GoodConfig, TwoShards @@ "c" :> FileOf(<<s>>), <<"a", "b", "c">>) : s \in Range(GoodSpecs)}

(* Models of other shapes, each with a checkpoint that fits it.            *)
Models ==
  {[GoodConfig EXCEPT !.num_key_value_heads = 2],
   [GoodConfig EXCEPT !.hidden_size = 4, !.head_dim = Absent, !.vocab_size = 1],
   [GoodConfig EXCEPT !.hidden_size = 8, !.num_attention_heads = 4, !.num_key_value_heads = 2,
                      !.head_dim = Absent, !.num_hidden_layers = 1, !.intermediate_size = 1]}

Fitting(doc) ==
  LET c == ConfigOf(doc, [eos |-> {}])
  IN  Dir(doc, Single :> FileOf(Append(RequiredWeights(c), HeadOf(c))), Absent)

SomeOptions ==
  Spoilt(GoodOptions, OddOptions)
    \cup UNION {Spoilt(o, OddOptions) : o \in Spoilt(GoodOptions, OddOptions)}

MCInputs ==
  [dir : Dirs, options : {GoodOptions}]
    \cup [dir : {Dir(GoodConfig, TwoShards, Shard)} \cup {Fitting(doc) : doc \in Models},
          options : SomeOptions]

=============================================================================
