----------------------------- MODULE MCTextPath ------------------------------
(***************************************************************************)
(* TextPath over every text of up to three bytes of an alphabet with a     *)
(* byte of every class the code distinguishes, longer texts over smaller   *)
(* alphabets, prompts of run(), and a tokenizer.json for every choice and  *)
(* every refusal of the loader.  The cuts are compared with what a regular *)
(* expression engine makes of the file's pattern.                          *)
(*                                                                         *)
(* 39 is the apostrophe, 10 a line break, 32 a space, 33 a symbol, 49 a    *)
(* digit; a e l r s v are 97 101 108 114 115 118 and S is 83.  195 160 is  *)
(* one letter, 227 160 160 another; alone, 195 and 227 read as letters and *)
(* 160 as a space.                                                         *)
(***************************************************************************)
EXTENDS TextPath

CONSTANTS MaxLong   (* Length of the texts over a small alphabet.          *)

Strings(alphabet, n) == UNION {[1 .. k -> alphabet] : k \in 0 .. n}

MCLetters == {83, 97, 101, 108, 114, 115, 117, 118, 195, 224, 227, 14368}
MCNumbers == {49}
Bytes     == {10, 32, 33, 39, 49, 60, 62, 83, 97, 101, 108, 114, 115, 117, 118, 124,
              160, 195, 227}
MCCodes   == Bytes \cup MCLetters
MCBosNames == <<<<33, 39>>, <<97, 39>>>>

-----------------------------------------------------------------------------
(* The files.  Tokens of one byte have that byte as their id; 256 and up   *)
(* are the products of the rules, and 300 and up added tokens.             *)
Raw == <<<<32, 33>>, <<32, 97>>, <<33, 33>>, <<33, 97>>, <<97, 33>>, <<97, 97>>,
         <<32, 32>>, <<195, 160>>, <<227, 160>>, <<160, 160>>, <<160, 195>>,
         <<227, 160, 160>>, <<33, 195>>, <<97, 195>>>>

RuleFor(raw) == <<ByteLevelEncode(<<Head(raw)>>), ByteLevelEncode(Tail(raw))>>

Token(raw) == ByteLevelEncode(raw)
FullVocab ==
  [t \in {Token(<<b>>) : b \in Bytes} \cup {Token(Raw[k]) : k \in DOMAIN Raw} |->
     IF \E b \in Bytes : t = Token(<<b>>) THEN CHOOSE b \in Bytes : t = Token(<<b>>)
     ELSE 255 + CHOOSE k \in DOMAIN Raw : t = Token(Raw[k])]
Without(vocab, token) == [t \in DOMAIN vocab \ {token} |-> vocab[t]]

AddedToken(id, content, special) ==
  [id |-> id, content |-> content, special |-> special, complete |-> TRUE]

(* Added tokens that are prefixes of, and overlap, one another, one of     *)
(* them without content, one listed twice, one with a vocabulary entry.    *)
Overlapping ==
  <<AddedToken(300, << >>, FALSE), AddedToken(33, <<33>>, FALSE),
    AddedToken(302, <<33, 39>>, TRUE), AddedToken(303, <<97, 33, 39>>, TRUE),
    AddedToken(304, <<97, 33, 39>>, TRUE),
    [AddedToken(305, <<97, 39>>, TRUE) EXCEPT !.complete = FALSE]>>

(* One with a negative id, longer than one that is a prefix of it and      *)
(* shorter than one it is a prefix of.                                     *)
Negative ==
  <<AddedToken(300, <<33>>, FALSE), AddedToken(-1, <<33, 97>>, TRUE),
    AddedToken(301, <<33, 97, 97>>, TRUE)>>

(* The template of MCTemplate, one byte for a marker but the first.        *)
Markers ==
  <<AddedToken(300, <<33, 39>>, TRUE), AddedToken(301, <<60>>, TRUE),
    AddedToken(302, <<62>>, TRUE), AddedToken(303, <<124>>, TRUE)>>

SplitNode(pattern)  == [type |-> "Split", pattern |-> pattern]
ByteLevel(prefixed) == [type |-> "ByteLevel", addPrefixSpace |-> prefixed]

Full ==
  [type |-> "BPE", byteFallback |-> FALSE, ignoreMerges |-> FALSE, vocab |-> FullVocab,
   addedTokens |-> << >>, merges |-> [k \in DOMAIN Raw |-> RuleFor(Raw[k])],
   preTokenizer |-> <<SplitNode("llama3"), ByteLevel(FALSE)>>]

MCDocuments ==
  [full |-> Full,
   added |-> [Full EXCEPT !.addedTokens = Overlapping],
   chat |-> [Full EXCEPT !.addedTokens = Markers, !.ignoreMerges = TRUE],
   bosInVocab |-> [Full EXCEPT !.vocab = [t \in DOMAIN @ \cup {<<97, 39>>} |->
                                 IF t = <<97, 39>> THEN 400 ELSE @[t]]],
   pieceMissing |-> [Full EXCEPT !.vocab = Without(@, Token(<<33, 97>>))],
   idTwice |-> [Full EXCEPT !.vocab[Token(<<33, 97>>)] = 33],
   idOfSpecial |-> [Full EXCEPT !.addedTokens = <<AddedToken(33, <<33>>, TRUE)>>],
   otherNodes |-> [Full EXCEPT !.preTokenizer = <<[type |-> "NFC"]>> \o @],
   onlyAdded |-> [Full EXCEPT !.vocab = << >>, !.merges = << >>, !.addedTokens = Markers],
   unigram |-> [Full EXCEPT !.type = "Unigram"],
   fallback |-> [Full EXCEPT !.byteFallback = TRUE],
   noSplit |-> [Full EXCEPT !.preTokenizer = <<ByteLevel(FALSE)>>],
   otherSplit |-> [Full EXCEPT !.preTokenizer = <<SplitNode("digits")>>],
   prefixSpace |-> [Full EXCEPT !.preTokenizer =
                      <<SplitNode("llama3"), ByteLevel(TRUE)>>],
   negativeId |-> [Full EXCEPT !.vocab[Token(<<33>>)] = -1],
   noTokens |-> [Full EXCEPT !.vocab = << >>],
   negative |-> [Full EXCEPT !.addedTokens = Negative],
   negativeBos |-> [Full EXCEPT !.addedTokens = <<AddedToken(-2, <<33, 39>>, TRUE)>>],
   onlyNegative |-> [Full EXCEPT !.vocab = << >>, !.merges = << >>,
                       !.addedTokens = <<AddedToken(-1, <<33>>, FALSE)>>],
   twoSplits |-> [Full EXCEPT !.preTokenizer = <<SplitNode("digits")>> \o @],
   threeParts |-> [Full EXCEPT !.merges = <<<<<<33>>, <<33>>, <<33>>>>>>]]

-----------------------------------------------------------------------------
MCTemplate ==
  [begin |-> <<33, 39>>, startHeader |-> <<60>>, endHeader |-> <<62>>, endOfTurn |-> <<124>>,
   system |-> <<115>>, user |-> <<117>>, assistant |-> <<97>>, gap |-> <<10, 10>>]

Args(documents, texts, parse, bos, skip) ==
  [document : documents, text : texts, parseSpecial : parse, addBos : bos, skipSpecial : skip]

PlainTexts ==
  Strings({10, 32, 33, 39, 49, 97, 160, 195, 227}, 3)
    \cup UNION {Strings(alphabet, MaxLong) :
                  alphabet \in {{10, 32, 33, 97}, {39, 83, 108}, {49, 32}, {160, 195, 227}}}
    \cup Strings({39, 101, 114, 118}, 4)

Prompts == {PromptInput("chat", chat, system, prompt) : chat \in BOOLEAN,
              system \in {<< >>, <<33>>}, prompt \in Strings({32, 33, 39}, 2) \cup {<<97, 60>>}}

MCInputs ==
  Args({"full"}, PlainTexts, {TRUE}, {FALSE}, {TRUE})
    \cup Args({"added"}, Strings({33, 39, 97, 195}, 4), BOOLEAN, {FALSE}, BOOLEAN)
    \cup Args({"negative"}, Strings({33, 97}, 4), BOOLEAN, {FALSE}, {FALSE})
    \cup Args({"full", "added", "bosInVocab", "negativeBos"}, Strings({33, 39}, 2), BOOLEAN, {TRUE}, {FALSE})
    \cup Args({"pieceMissing", "idTwice", "idOfSpecial", "otherNodes", "onlyAdded"},
              Strings({33, 97}, 3), {TRUE}, {FALSE}, {TRUE})
    \cup Args(DOMAIN MCDocuments, {<<97, 49>>}, {TRUE}, {FALSE}, {TRUE})
    \cup Prompts

R == INSTANCE Regex WITH Codes <- MCCodes

Patterns == [llama3 |-> R!Llama3Split, digits |-> R!One(R!N)]

Splits == [name \in DOMAIN Documents |->
             {node.pattern : node \in {n \in ToSet(Documents[name].preTokenizer) :
                                        n.type = "Split"}}]

(* Every cut of the hand-written matcher is where a leftmost-first regular *)
(* expression engine would cut by the pattern of the file that was loaded, *)
(* and some alternative matches everywhere: the step of one codepoint that *)
(* keeps split_pretokens from spinning is never needed.  A file with two   *)
(* patterns is excepted: the code looks at the last.                       *)
SplitMatchesRegex ==
  phase = "splitting" /\ cursor <= Len(Codepoints) =>
    LET values == [k \in DOMAIN Codepoints |-> Codepoints[k].value]
    IN  \A pattern \in Splits[document] : Splits[document] = {pattern} =>
          Taken(Codepoints, cursor) = R!MatchLength(Patterns[pattern], values, cursor)

=============================================================================
