-------------------------------- MODULE Utf8 ---------------------------------
(***************************************************************************)
(* Bytes, UTF-8 and the byte-level alphabet, as src/tokenizer.cpp and the  *)
(* streamer of src/main.cu read them.  A text is a sequence of bytes.      *)
(***************************************************************************)
EXTENDS Naturals, Sequences, FiniteSets, SequencesExt

Byte == 0 .. 255

IsContinuation(byte) == byte \div 64 = 2

(* How many bytes a sequence led by this byte should have; a byte that can *)
(* lead none, a stray continuation byte say, stands alone.                 *)
Width(lead) ==
  CASE lead \div 32 = 6  -> 2
    [] lead \div 16 = 14 -> 3
    [] lead \div 8 = 30  -> 4
    [] OTHER             -> 1

(* The bits of the codepoint that the lead byte of a sequence carries.     *)
Payload(lead) ==
  CASE Width(lead) = 2 -> lead % 32
    [] Width(lead) = 3 -> lead % 16
    [] Width(lead) = 4 -> lead % 8
    [] OTHER           -> lead

(* The sequence led by the byte at place i is all there.                   *)
CompleteAt(text, i) ==
  /\ i + Width(text[i]) - 1 <= Len(text)
  /\ \A k \in i + 1 .. i + Width(text[i]) - 1 : IsContinuation(text[k])

(* The codepoint at place i and the place after it; a malformed byte is a  *)
(* codepoint equal to the byte.                                            *)
CodepointAt(text, i) ==
  IF CompleteAt(text, i)
    THEN LET extra == Width(text[i]) - 1
             cp[k \in 0 .. extra] ==
               IF k = 0 THEN Payload(text[i]) ELSE cp[k - 1] * 64 + (text[i + k] % 64)
         IN  [value |-> cp[extra], after |-> i + extra + 1]
    ELSE [value |-> text[i], after |-> i + 1]

(* The codepoints of a text, each with the place it starts at.             *)
DecodeUtf8(text) ==
  LET from[i \in 1 .. Len(text) + 1] ==
        IF i > Len(text) THEN << >>
        ELSE LET cp == CodepointAt(text, i)
             IN  <<[value |-> cp.value, offset |-> i]>> \o from[cp.after]
  IN  from[1]

AppendUtf8(cp) ==
  LET Low6(bits) == 128 + (bits % 64)
  IN  CASE cp < 128 -> <<cp>>
        [] 128 <= cp /\ cp < 2048 -> <<192 + cp \div 64, Low6(cp)>>
        [] 2048 <= cp /\ cp < 65536 -> <<224 + cp \div 4096, Low6(cp \div 64), Low6(cp)>>
        [] OTHER -> <<240 + cp \div 262144, Low6(cp \div 4096), Low6(cp \div 64), Low6(cp)>>

(* No malformed byte: each is in a complete sequence.                      *)
WellFormed(text) ==
  LET cps == DecodeUtf8(text)
  IN  \A k \in DOMAIN cps : /\ CompleteAt(text, cps[k].offset)
                            /\ ~IsContinuation(text[cps[k].offset])

-----------------------------------------------------------------------------
(* ByteAlphabet: printable bytes stand for themselves, the rest follow     *)
(* from U+0100 upward.                                                     *)
Printable == 33 .. 126 \cup 161 .. 172 \cup 174 .. 255

ToCodepoint ==
  [b \in Byte |-> IF b \in Printable THEN b
                  ELSE 256 + Cardinality({c \in 0 .. b - 1 : c \notin Printable})]

ToByte == [cp \in {ToCodepoint[b] : b \in Byte} |->
             CHOOSE b \in Byte : ToCodepoint[b] = cp]

ByteLevelEncode(raw) ==
  FlattenSeq([k \in DOMAIN raw |-> AppendUtf8(ToCodepoint[raw[k]])])

(* A codepoint outside the alphabet is passed through as UTF-8.            *)
ByteLevelDecode(encoded) ==
  LET cps == DecodeUtf8(encoded)
  IN  FlattenSeq([k \in DOMAIN cps |->
        IF cps[k].value \in DOMAIN ToByte THEN <<ToByte[cps[k].value]>>
                                          ELSE AppendUtf8(cps[k].value)])

=============================================================================
