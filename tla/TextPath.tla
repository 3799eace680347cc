------------------------------ MODULE TextPath -------------------------------
(***************************************************************************)
(* The path of a text through src/main.cu: encoded by Tokenizer, decoded   *)
(* one token at a time, and written to the terminal by the Utf8Streamer,   *)
(* which holds bytes back until they form whole characters.                *)
(***************************************************************************)
EXTENDS Tokenizer

CONSTANT Template   (* The literals of build_chat_prompt, by name.         *)

VARIABLES
  fed,         (* Tokens of the output fed to the streamer so far.         *)
  pending,     (* pending_                                                 *)
  written      (* Everything fwrite was given.                             *)

vars == <<encodeVars, fed, pending, written>>

Init == InitEncode /\ fed = 0 /\ pending = << >> /\ written = << >>

(* build_chat_prompt: each message is a header, a gap, and the body.       *)
Header(role) == Template.startHeader \o Template[role] \o Template.endHeader \o Template.gap
Message(role, body) == Header(role) \o body \o Template.endOfTurn
ChatPrompt(system, user) ==
  Template.begin \o (IF system = << >> THEN << >> ELSE Message("system", system))
    \o Message("user", user) \o Header("assistant")

(* What run() asks of the tokenizer: a chat prompt has its own marker.     *)
PromptInput(file, chat, system, prompt) ==
  [document |-> file, text |-> IF chat THEN ChatPrompt(system, prompt) ELSE prompt,
   addBos |-> ~chat, parseSpecial |-> TRUE, skipSpecial |-> TRUE]

(* complete_prefix_length: sequences are counted by their lead bytes.      *)
EveryByte(bytes) == Len(bytes)                                   (* mutant *)
CompletePrefixLength(bytes) ==
  LET from[i \in 0 .. Len(bytes)] ==
        IF i = Len(bytes) \/ i + Width(bytes[i + 1]) > Len(bytes)
          THEN i ELSE from[i + Width(bytes[i + 1])]
  IN  from[0]

Feed ==
  /\ phase = "encoded" /\ fed < Len(output)
  /\ LET bytes    == pending \o DecodeOne(output[fed + 1].id, input.skipSpecial)
         complete == CompletePrefixLength(bytes)
     IN  /\ written' = written \o SubSeq(bytes, 1, complete)
         /\ pending' = SubSeq(bytes, complete + 1, Len(bytes))
  /\ fed' = fed + 1
  /\ UNCHANGED encodeVars

FlushStream ==
  /\ phase = "encoded" /\ fed = Len(output)
  /\ written' = written \o pending /\ pending' = << >>
  /\ phase' = "done"
  /\ UNCHANGED <<object, input, pos, chunkStart, cursor, rest, output, fed>>

Stopped == phase \in {"done", "refused", "corrupted", "failed"} /\ UNCHANGED vars

Next ==
  \/ NextEncode /\ UNCHANGED <<fed, pending, written>>
  \/ Feed \/ FlushStream \/ Stopped

Spec == Init /\ [][Next]_vars

-----------------------------------------------------------------------------
(* What a tokenizer.json is expected to be: no id stands for two texts, and *)
(* that of a special token for no ordinary text.                           *)
Unambiguous ==
  LET added     == AddedTokens(Documents[document])
      vocab     == tables.tokenToId
      named(id) == IF id \in DOMAIN tables.idToToken THEN {tables.idToToken[id]} ELSE {}
  IN  /\ Cardinality(DOMAIN tables.idToToken) = Cardinality(DOMAIN vocab)
      /\ \A k \in DOMAIN added :
           /\ \A j \in DOMAIN added :
                added[j].id = added[k].id => added[j].content = added[k].content
           /\ \A token \in named(added[k].id) :
                ByteLevelDecode(token) = added[k].content /\ ~added[k].special

Bos == IF input.addBos THEN Decode(<<output[1]>>, FALSE) ELSE << >>

(* The ids pushed so far stand for exactly the text up to the pretoken     *)
(* being encoded, each for at least a byte of it: no byte is dropped,      *)
(* duplicated or reordered by the cuts, malformed UTF-8 included, and the  *)
(* marker of a raw prompt comes first.  What is written in the end is that *)
(* text, without the special tokens that were matched in it if they are    *)
(* skipped.  A file that gives one id to several texts is excepted, and so *)
(* is a loader that wrote out of bounds and did harm.                      *)
RoundTrip ==
  phase \notin {"loading", "begin", "refused", "corrupted", "failed"} /\ Unambiguous =>
    LET done == Decode(output, FALSE) \o rest
        Written(k) == IF input.skipSpecial /\ output[k].source # "bpe"
                        THEN DecodeOne(output[k].id, TRUE) ELSE DecodeOne(output[k].id, FALSE)
    IN  /\ input.addBos => Bos \in ToSet(BosNames)
        /\ IsPrefix(done, Bos \o text)
        /\ Len(output) <= Len(Bos) + Len(text)
        /\ phase \in {"encoded", "done"} => done = Bos \o text
        /\ phase = "done" =>
             written = FlattenSeq([k \in DOMAIN output |-> Written(k)])

(* Added tokens are found leftmost first and longest first, wherever the   *)
(* scan has been: none occurs in the text handed to byte-pair encoding,    *)
(* unless one with a negative id and no shorter occurs at the same place,  *)
(* and the one pushed is the longest that occurs at its place.  So every   *)
(* marker of the chat template becomes its one token.  The same files are  *)
(* excepted.                                                               *)
AddedLeftmostLongest ==
  phase \notin {"loading", "begin", "refused", "corrupted"} /\ Unambiguous =>
    LET OccursAt(c, p) == c # << >> /\ IsPrefix(c, SubSeq(text, p, Len(text)))
        first      == IF input.addBos THEN 2 ELSE 1
        StartOf(k) == 1 + Len(Decode(SubSeq(output, first, k - 1), FALSE))
    IN  /\ input.parseSpecial =>
             \A p \in chunkStart .. pos - 1 : \A c \in Contents : OccursAt(c, p) =>
               \E d \in Contents : /\ OccursAt(d, p) /\ Len(c) <= Len(d)
                                   /\ tables.addedByContent[d] < 0
        /\ \A k \in first .. Len(output) :
             output[k].source = "added" =>
               /\ input.parseSpecial
               /\ \A c \in Contents : OccursAt(c, StartOf(k)) =>
                    Len(c) <= Len(Decode(<<output[k]>>, FALSE))

(* A text that is well-formed UTF-8 reaches the terminal in whole          *)
(* characters although tokens end inside of them, and no character waits   *)
(* once it is complete.  A file that gives one id to several texts is      *)
(* excepted from the first.                                                *)
WholeCharacters ==
  /\ phase \in {"encoded", "done"} /\ Unambiguous /\ WellFormed(text) => WellFormed(written)
  /\ pending # << >> => Len(pending) < Width(pending[1])

=============================================================================
