-------------------------------- MODULE Regex --------------------------------
(***************************************************************************)
(* What a backtracking regular expression engine matches, for the operators*)
(* the Llama 3 split pattern is written with.  Ends lists the places a     *)
(* match starting at place i may end at, in the order the engine tries     *)
(* them; the first one is the match.                                       *)
(*                                                                         *)
(* The pattern itself is the string kLlama3SplitRegex of src/tokenizer.cpp *)
(* over a finite set of codepoints.                                        *)
(***************************************************************************)
EXTENDS Pretokenizer
LOCAL INSTANCE SequencesExt

CONSTANT Codes   (* The codepoints texts are made of.                      *)

One(set)            == [op |-> "one", set |-> set]
Cat(left, right)    == [op |-> "cat", left |-> left, right |-> right]
Alt(left, right)    == [op |-> "alt", left |-> left, right |-> right]
Repeat(re, lo, hi)  == [op |-> "repeat", re |-> re, lo |-> lo, hi |-> hi]
NotBefore(set)      == [op |-> "not before", set |-> set]

Many == 9   (* More repetitions than any text has codepoints.              *)

RECURSIVE Ends(_, _, _)
Ends(re, values, i) ==
  LET here == i <= Len(values) /\ values[i] \in re.set
      less == IF re.lo = 0 THEN 0 ELSE re.lo - 1
      Then(starts, next) ==
        FlattenSeq([k \in DOMAIN starts |-> Ends(next, values, starts[k])])
  IN  CASE re.op = "one"        -> IF here THEN <<i + 1>> ELSE << >>
        [] re.op = "not before" -> IF here THEN << >> ELSE <<i>>
        [] re.op = "alt"    -> Ends(re.left, values, i) \o Ends(re.right, values, i)
        [] re.op = "cat"    -> Then(Ends(re.left, values, i), re.right)
        [] re.op = "repeat" ->
             (IF re.hi = 0 THEN << >>
              ELSE Then(Ends(re.re, values, i), Repeat(re.re, less, re.hi - 1)))
             \o (IF re.lo = 0 THEN <<i>> ELSE << >>)

(* How many codepoints the pattern matches at place i, zero for no match.  *)
MatchLength(re, values, i) ==
  LET ends == Ends(re, values, i) IN IF ends = << >> THEN 0 ELSE Head(ends) - i

-----------------------------------------------------------------------------
Either(letter) == One({letter, letter - 32})     (* (?i:...), over ASCII   *)
L  == {c \in Codes : IsLetter(c)}
N  == {c \in Codes : IsNumber(c)}
WS == {c \in Codes : IsWhitespace(c)}
CRLF == LineBreaks

Contraction ==
  Cat(One({Apostrophe}),
      Alt(Either(115), Alt(Either(116), Alt(Cat(Either(114), Either(101)),
      Alt(Cat(Either(118), Either(101)), Alt(Either(109),
      Alt(Cat(Either(108), Either(108)), Either(100))))))))

Llama3Split ==
  Alt(Contraction,
  Alt(Cat(Repeat(One(Codes \ (CRLF \cup L \cup N)), 0, 1), Repeat(One(L), 1, Many)),
  Alt(Repeat(One(N), 1, 3),
  Alt(Cat(Repeat(One({Space}), 0, 1),
          Cat(Repeat(One(Codes \ (WS \cup L \cup N)), 1, Many), Repeat(One(CRLF), 0, Many))),
  Alt(Cat(Repeat(One(WS), 0, Many), Repeat(One(CRLF), 1, Many)),
  Alt(Cat(Repeat(One(WS), 1, Many), NotBefore(Codes \ WS)),
      Repeat(One(WS), 1, Many)))))))

=============================================================================
