---------------------------- MODULE Pretokenizer -----------------------------
(***************************************************************************)
(* The hand-written matcher for the Llama 3 split pattern in               *)
(* src/tokenizer.cpp: one operator per alternative, each the number of     *)
(* codepoints it consumes at place i of a text, zero for no match.         *)
(***************************************************************************)
EXTENDS Utf8

CONSTANTS
  Letters,     (* kLetterRanges                                            *)
  Numbers      (* kNumberRanges                                            *)

Apostrophe == 39
Space      == 32
LineBreaks == {10, 13}

IsLetter(cp) == cp \in Letters
IsNumber(cp) == cp \in Numbers
IsWhitespace(cp) ==
  \/ cp \in 9 .. 13 \cup {32, 133, 160, 5760, 8232, 8233, 8239, 8287, 12288}
  \/ cp \in 8192 .. 8202
IsLineBreak(cp) == cp \in LineBreaks
IsSymbol(cp) == ~IsWhitespace(cp) /\ ~IsLetter(cp) /\ ~IsNumber(cp)

(* What may lead a word, and the classes a run of codepoints is made of.   *)
AllowedPrefix(cp) == ~IsLineBreak(cp) /\ ~IsLetter(cp) /\ ~IsNumber(cp)

IsOf(class, cp) ==
  CASE class = "letter"     -> IsLetter(cp)
    [] class = "number"     -> IsNumber(cp)
    [] class = "symbol"     -> IsSymbol(cp)
    [] class = "whitespace" -> IsWhitespace(cp)
    [] class = "line break" -> IsLineBreak(cp)
    [] class = "space"      -> cp = Space
    [] class = "prefix"     -> AllowedPrefix(cp)

AsciiLower(cp) == IF cp \in 65 .. 90 THEN cp + 32 ELSE cp

(* The place after the longest run of codepoints of a class from place i.  *)
RunEnd(cps, i, class) ==
  CHOOSE e \in i .. Len(cps) + 1 :
    /\ \A k \in i .. e - 1 : IsOf(class, cps[k].value)
    /\ e <= Len(cps) => ~IsOf(class, cps[e].value)

(* The same run, led by one codepoint that may be taken along: first with  *)
(* it, and without if the class does not follow.                           *)
LedRunEnd(cps, i, lead, class) ==
  LET led == RunEnd(cps, i + 1, class)
  IN  IF IsOf(lead, cps[i].value) /\ led > i + 1 THEN led ELSE RunEnd(cps, i, class)

-----------------------------------------------------------------------------
(* Suffixes after an apostrophe: s t m d, and re ve ll.                    *)
MatchContraction(cps, i) ==
  LET At(k) == IF k <= Len(cps) THEN AsciiLower(cps[k].value) ELSE 0
  IN  CASE cps[i].value # Apostrophe       -> 0
        [] At(i + 1) \in {115, 116, 109, 100} -> 2
        [] <<At(i + 1), At(i + 2)>>
             \in {<<114, 101>>, <<118, 101>>, <<108, 108>>} -> 3
        [] OTHER -> 0

MatchWord(cps, i) == LedRunEnd(cps, i, "prefix", "letter") - i

MatchDigits(cps, i) ==
  LET run == RunEnd(cps, i, "number") - i IN IF run < 3 THEN run ELSE 3

MatchPunctuation(cps, i) ==
  LET symbols == LedRunEnd(cps, i, "space", "symbol")
  IN  IF symbols = i THEN 0 ELSE RunEnd(cps, symbols, "line break") - i

(* The whitespace run up to and including its last line break.             *)
MatchLineBreak(cps, i) ==
  LET breaks == {k \in i .. RunEnd(cps, i, "whitespace") - 1 :
                   IsLineBreak(cps[k].value)}
  IN  IF breaks = {} THEN 0
                     ELSE 1 + Max(breaks) - i

(* A whitespace run, one short when something printable follows it.        *)
MatchTrailingWhole(cps, i) == RunEnd(cps, i, "whitespace") - i   (* mutant *)
MatchTrailingWhitespace(cps, i) ==
  LET run == RunEnd(cps, i, "whitespace") - i
  IN  CASE i + run > Len(cps) -> run
        [] run >= 2           -> run - 1
        [] OTHER              -> 0

MatchWhitespace(cps, i) == RunEnd(cps, i, "whitespace") - i

(* split_pretokens: the first alternative that matches; never nothing.     *)
Taken(cps, i) ==
  LET lengths == <<MatchContraction(cps, i), MatchWord(cps, i), MatchDigits(cps, i),
                   MatchPunctuation(cps, i), MatchLineBreak(cps, i),
                   MatchTrailingWhitespace(cps, i), MatchWhitespace(cps, i)>>
      matched == {k \in DOMAIN lengths : lengths[k] > 0}
  IN  IF matched = {} THEN 1 ELSE lengths[Min(matched)]

=============================================================================
