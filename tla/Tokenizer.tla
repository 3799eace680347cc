------------------------------ MODULE Tokenizer ------------------------------
(***************************************************************************)
(* Tokenizer::encode and Tokenizer::decode_one of src/tokenizer.cpp, over  *)
(* the tables of Vocabulary.  Added tokens are cut out of the text by      *)
(* literal match, what lies between them is split into pretokens, and      *)
(* byte-pair encoding turns each pretoken into tokens.                     *)
(*                                                                         *)
(* Of byte-pair encoding this module uses what Bpe establishes: its pieces *)
(* tile the pretoken in order, and each is a character or the product of a *)
(* merge rule.  Which cuts it makes depends on the ranks and is left open. *)
(***************************************************************************)
EXTENDS Pretokenizer, Vocabulary

CONSTANTS
  Inputs       (* Sets of arguments: the file, the text and flags.         *)

ASSUME InputsAssumption ==
  \A i \in Inputs : /\ i.text \in Seq(Byte)
                    /\ {i.addBos, i.parseSpecial, i.skipSpecial} \subseteq BOOLEAN

VARIABLES
  document,    (* The name of the tokenizer.json.                          *)
  tables,      (* The members build_from_json fills.                       *)
  input,       (* The arguments of encode and decode.                      *)
  pos,         (* pos, counted from 1                                      *)
  chunkStart,  (* chunk_start, counted from 1                              *)
  cursor,      (* i of split_pretokens, counted from 1                     *)
  rest,        (* The bytes of the pretoken not yet covered by tokens.     *)
  output,      (* out: ids, and (history) where each was pushed            *)
  phase        (* "loading", "begin", "scanning", "splitting", "encoded",  *)
               (* "refused" (no tokenizer), "failed" (encode threw) or     *)
               (* "corrupted" (undefined behaviour)                        *)

encodeVars == <<document, tables, input, pos, chunkStart, cursor, rest, output, phase>>
object     == <<document, tables>>

text     == input.text
Contents == DOMAIN tables.addedByContent

Added(content) == [source |-> "added", id |-> tables.addedByContent[content]]
Piece(raw)     == [source |-> "bpe",   id |-> tables.tokenToId[ByteLevelEncode(raw)]]
Known(raw)     == ByteLevelEncode(raw) \in DOMAIN tables.tokenToId

NoTables == << >>
NoInput  == << >>

InitEncode ==
  /\ document \in DOMAIN Documents
  /\ tables = NoTables /\ input = NoInput
  /\ pos = 1 /\ chunkStart = 1 /\ cursor = 1
  /\ rest = << >> /\ output = << >>
  /\ phase = "loading"

(* build_from_json returns the tables, or throws.                          *)
LoadTokenizer ==
  /\ phase = "loading"
  /\ Accepted(Documents[document])
  /\ tables' \in BuildFromJson(Documents[document])
  /\ phase' = "begin"
  /\ UNCHANGED <<document, input, pos, chunkStart, cursor, rest, output>>

RefuseTokenizer ==
  /\ phase = "loading"
  /\ ~Accepted(Documents[document])
  /\ phase' = "refused"
  /\ UNCHANGED <<object, input, pos, chunkStart, cursor, rest, output>>

(* The write in front of id_to_token_ may do no harm, and loading goes on  *)
(* as above; or it ends the process, or overwrites something else, and     *)
(* nothing more can be said.                                               *)
WriteOutOfBounds ==
  /\ phase = "loading"
  /\ WritesOutOfBounds(Documents[document])
  /\ phase' = "corrupted"
  /\ UNCHANGED <<object, input, pos, chunkStart, cursor, rest, output>>

-----------------------------------------------------------------------------
(* build_from_json: the filter on first bytes, and the distinct lengths;   *)
(* an added token without content is never matched.                        *)
FirstBytes == {Head(c) : c \in Contents \ {<< >>}}
LengthsOfAll == {Len(c) : c \in Contents}                        (* mutant *)
Lengths    == {Len(c) : c \in Contents \ {<< >>}}

MatchesAt(p) ==
  {c \in Contents : /\ Len(c) \in Lengths
                    /\ p + Len(c) - 1 <= Len(text)
                    /\ SubSeq(text, p, p + Len(c) - 1) = c}

ShortestOf(contents) == CHOOSE c \in contents : \A d \in contents : Len(c) <= Len(d)  (* mutant *)
Longest(contents)  == CHOOSE c \in contents : \A d \in contents : Len(d) <= Len(c)

(* The search ends with the longest match.  If the id of that is negative, *)
(* it counts as none, and shorter ones are not looked at.                  *)
Shadowed(matches) == matches # {} /\ tables.addedByContent[Longest(matches)] < 0

AddedAt(p) ==
  IF input.parseSpecial /\ text[p] \in FirstBytes /\ ~Shadowed(MatchesAt(p))
    THEN MatchesAt(p) ELSE {}

Begin ==
  /\ phase = "begin"
  /\ input' \in {i \in Inputs : i.document = document}
  /\ IF input'.addBos /\ tables.bosId < 0
       THEN phase' = "failed" /\ UNCHANGED output
       ELSE /\ phase' = "scanning"
            /\ output' = IF input'.addBos THEN <<[source |-> "bos", id |-> tables.bosId]>>
                         ELSE << >>
  /\ UNCHANGED <<object, pos, chunkStart, cursor, rest>>

SkipByte ==
  /\ phase = "scanning" /\ pos <= Len(text) /\ AddedAt(pos) = {}
  /\ pos' = pos + 1
  /\ UNCHANGED <<object, input, chunkStart, cursor, rest, output, phase>>

(* An added token, or the end of the text: flush_through_bpe(pos).         *)
Flush ==
  /\ phase = "scanning"
  /\ pos <= Len(text) => AddedAt(pos) # {}
  /\ phase' = "splitting" /\ cursor' = 1
  /\ UNCHANGED <<object, input, pos, chunkStart, rest, output>>

Chunk == SubSeq(text, chunkStart, pos - 1)
Codepoints == DecodeUtf8(Chunk)

(* split_pretokens: the bytes of the next pretoken.                        *)
PretokenFrom(n) ==
  LET ByteEnd(k) == IF k <= Len(Codepoints) THEN Codepoints[k].offset - 1 ELSE Len(Chunk)
  IN  SubSeq(Chunk, Codepoints[cursor].offset, ByteEnd(cursor + n))

(* A pretoken that is a whole entry is pushed as it is if merges are to be *)
(* ignored; otherwise it is left to bpe_encode_pretoken.                   *)
Split ==
  /\ phase = "splitting" /\ rest = << >> /\ cursor <= Len(Codepoints)
  /\ LET n        == Taken(Codepoints, cursor)
         pretoken == PretokenFrom(n)
     IN  /\ cursor' = cursor + n
         /\ IF tables.ignoreMerges /\ Known(pretoken)
              THEN output' = Append(output, Piece(pretoken)) /\ UNCHANGED rest
              ELSE rest' = pretoken /\ UNCHANGED output
  /\ UNCHANGED <<object, input, pos, chunkStart, phase>>

(* The next piece: a character, or what a rule produced.                   *)
Pieces ==
  {SubSeq(rest, 1, n) : n \in {m \in 1 .. Len(rest) :
     m = 1 \/ ByteLevelEncode(SubSeq(rest, 1, m)) \in tables.products}}

BpeToken ==
  /\ phase = "splitting"
  /\ \E piece \in Pieces :
       /\ Known(piece)
       /\ output' = Append(output, Piece(piece))
       /\ rest' = SubSeq(rest, Len(piece) + 1, Len(rest))
  /\ UNCHANGED <<object, input, pos, chunkStart, cursor, phase>>

(* A piece without an entry throws out of encode.                          *)
BpeThrows ==
  /\ phase = "splitting"
  /\ \E piece \in Pieces : ~Known(piece)
  /\ phase' = "failed"
  /\ UNCHANGED <<object, input, pos, chunkStart, cursor, rest, output>>

Flushed == phase = "splitting" /\ rest = << >> /\ cursor > Len(Codepoints)

PushAdded ==
  /\ Flushed /\ pos <= Len(text)
  /\ LET content == Longest(AddedAt(pos))
     IN  /\ output' = Append(output, Added(content))
         /\ pos' = pos + Len(content)
  /\ chunkStart' = pos'
  /\ phase' = "scanning"
  /\ UNCHANGED <<object, input, cursor, rest>>

EndOfText ==
  /\ Flushed /\ pos > Len(text)
  /\ phase' = "encoded"
  /\ UNCHANGED <<object, input, pos, chunkStart, cursor, rest, output>>

NextEncode ==
  \/ LoadTokenizer \/ RefuseTokenizer \/ WriteOutOfBounds
  \/ Begin \/ SkipByte \/ Flush \/ Split
  \/ BpeToken \/ BpeThrows \/ PushAdded \/ EndOfText

-----------------------------------------------------------------------------
DecodeOne(id, skipSpecial) ==
  CASE id \notin DOMAIN tables.addedById -> ByteLevelDecode(tables.idToToken[id])
    [] skipSpecial /\ id \in tables.specialIds -> << >>
    [] OTHER -> tables.addedById[id]

Decode(tokens, skipSpecial) ==
  FlattenSeq([k \in DOMAIN tokens |-> DecodeOne(tokens[k].id, skipSpecial)])

=============================================================================
