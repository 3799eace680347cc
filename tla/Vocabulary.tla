----------------------------- MODULE Vocabulary ------------------------------
(***************************************************************************)
(* Tokenizer::build_from_json of src/tokenizer.cpp: what a tokenizer.json  *)
(* must be to be accepted, and the tables encode and decode are left with. *)
(* A token of the vocabulary is a byte-level string, the content of an     *)
(* added token literal text; both are sequences of bytes.                  *)
(***************************************************************************)
EXTENDS Utf8, Integers

CONSTANTS
  Documents,     (* The files, by name; a field holds what get<> returns.  *)
  SplitPattern,  (* kLlama3SplitRegex                                      *)
  NoPattern,     (* No Split node found.                                   *)
  BosNames       (* "<|begin_of_text|>" and "<s>", in this order.          *)

(* inspect_pretokenizer: the nodes in the order it visits them, those of a *)
(* Sequence one by one; a later one overwrites what an earlier one said.   *)
Inspect(spec, node) ==
  CASE node.type = "Split"     -> [spec EXCEPT !.pattern = node.pattern]
    [] node.type = "ByteLevel" -> [spec EXCEPT !.addPrefixSpace = node.addPrefixSpace]
    [] OTHER -> spec

PreTokenizerSpec(doc) ==
  FoldLeft(Inspect, [pattern |-> NoPattern, addPrefixSpace |-> FALSE], doc.preTokenizer)

(* parse_merge: "left right", or ["left", "right"].                        *)
ParsesAsMerge(entry) == Len(entry) = 2

(* Entries without an id or a content are passed over.                     *)
AddedTokens(doc) ==
  [k \in {j \in DOMAIN doc.addedTokens : doc.addedTokens[j].complete} |-> doc.addedTokens[k]]

(* json::parse refuses a file that is not UTF-8; the two names of the      *)
(* marker are printable ASCII.                                             *)
ASSUME VocabularyAssumption ==
  /\ \A name \in DOMAIN Documents :
       /\ IsFiniteSet(DOMAIN Documents[name].vocab)
       /\ DOMAIN Documents[name].vocab \subseteq Seq(Byte)
       /\ DOMAIN Documents[name].addedTokens \subseteq Nat
       /\ \A k \in DOMAIN AddedTokens(Documents[name]) :
            /\ Documents[name].addedTokens[k].content \in Seq(Byte)
            /\ WellFormed(Documents[name].addedTokens[k].content)
  /\ BosNames \in Seq(Seq(33 .. 126) \ {<< >>})

PatternUnchecked(spec) == spec.pattern # NoPattern               (* mutant *)
PatternKnown(spec)     == spec.pattern = SplitPattern

(* The checks before id_to_token_ is filled.  max_id has to be 0 or more.  *)
TokensAccepted(doc) ==
  LET spec == PreTokenizerSpec(doc)
  IN  /\ doc.type = "BPE" /\ ~doc.byteFallback
      /\ PatternKnown(spec) /\ ~spec.addPrefixSpace
      /\ \A token \in DOMAIN doc.vocab : doc.vocab[token] >= 0
      /\ \/ DOMAIN doc.vocab # {}
         \/ \E k \in DOMAIN AddedTokens(doc) : AddedTokens(doc)[k].id >= 0

(* The id of an added token is not checked as one of the vocabulary is:    *)
(* a negative one indexes id_to_token_ in front of its first element.      *)
WritesOutOfBounds(doc) ==
  TokensAccepted(doc) /\ \E k \in DOMAIN AddedTokens(doc) : AddedTokens(doc)[k].id < 0

Accepted(doc) ==
  TokensAccepted(doc) /\ \A k \in DOMAIN doc.merges : ParsesAsMerge(doc.merges[k])

-----------------------------------------------------------------------------
(* emplace keeps the first of two added tokens with one content or one id. *)
AddedByContent(added) ==
  [content \in {added[k].content : k \in DOMAIN added} |->
     added[Min({k \in DOMAIN added : added[k].content = content})].id]
AddedById(added) ==
  [id \in {added[k].id : k \in DOMAIN added} |->
     added[Min({k \in DOMAIN added : added[k].id = id})].content]

(* The added token is looked for before the entry of the vocabulary, and   *)
(* the first name before the second.                                       *)
BosId(doc, byContent) ==
  LET known == {k \in DOMAIN BosNames :
                  BosNames[k] \in DOMAIN byContent \/ BosNames[k] \in DOMAIN doc.vocab}
      name  == BosNames[Min(known)]
  IN  IF known = {} THEN -1
      ELSE IF name \in DOMAIN byContent THEN byContent[name] ELSE doc.vocab[name]

(* id_to_token_ is filled in the order of a hash table: which of several   *)
(* tokens with one id names it is open.  (Added tokens, which are written  *)
(* over them, are decoded from a table of their own.)                      *)
IdToTokens(vocab) ==
  LET named == [id \in {vocab[token] : token \in DOMAIN vocab} |->
                  {token \in DOMAIN vocab : vocab[token] = id}]
      contested == {id \in DOMAIN named : Cardinality(named[id]) > 1}
      choices == {c \in [contested -> UNION {named[id] : id \in contested}] :
                    \A id \in contested : c[id] \in named[id]}
  IN  {[id \in DOMAIN named |-> IF id \in contested THEN choice[id]
                                ELSE CHOOSE token \in named[id] : TRUE] : choice \in choices}

(* What the constructor may leave behind.  A write out of bounds is in     *)
(* Tokenizer; here it has done no harm.                                    *)
BuildFromJson(doc) ==
  LET added     == AddedTokens(doc)
      byContent == AddedByContent(added)
  IN  {[tokenToId      |-> doc.vocab,
        idToToken      |-> idToToken,
        addedByContent |-> byContent,
        addedById      |-> AddedById(added),
        specialIds     |-> {added[k].id : k \in {j \in DOMAIN added : added[j].special}},
        products       |-> {m[1] \o m[2] : m \in {doc.merges[k] : k \in DOMAIN doc.merges}},
        ignoreMerges   |-> doc.ignoreMerges,
        bosId          |-> BosId(doc, byContent)] : idToToken \in IdToTokens(doc.vocab)}

=============================================================================
