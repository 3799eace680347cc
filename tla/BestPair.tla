------------------------------ MODULE BestPair ------------------------------
(***************************************************************************)
(* What tokenizer.cpp:342 promises of byte-pair encoding: merge the best   *)
(* pair of neighbours, the lowest rank and the leftmost of equals, until   *)
(* no neighbours have a rank; then every piece is a token.                 *)
(***************************************************************************)
EXTENDS Naturals, Sequences

VARIABLES
  text, merges, vocab, ignoreMerges,  (* The pretoken and the tokenizer.   *)
  pieces,   (* The pretoken, cut up.                                       *)
  result    (* <<>> until the tokens, or the failure, are known.           *)

params == <<text, merges, vocab, ignoreMerges>>
vars   == <<params, pieces, result>>

Init ==
  /\ pieces = [k \in 1 .. Len(text) |-> <<text[k]>>]
  /\ result = <<>>

(* The places and ranks at which two neighbours may be merged.             *)
Candidates == {c \in (1 .. Len(pieces) - 1) \X DOMAIN merges :
                 merges[c[2]] = <<pieces[c[1]], pieces[c[1] + 1]>>}

BetterOrSame(c, d) == c[2] < d[2] \/ (c[2] = d[2] /\ c[1] <= d[1])

UnknownPiece == << <<>> >>  (* The result of a pretoken with a piece outside the vocabulary. *)

Whole == ignoreMerges /\ text \in vocab

MergeBest ==
  /\ result = <<>> /\ ~Whole
  /\ \E c \in Candidates :
       /\ \A d \in Candidates : BetterOrSame(c, d)
       /\ pieces' = SubSeq(pieces, 1, c[1] - 1)
                      \o <<pieces[c[1]] \o pieces[c[1] + 1]>>
                      \o SubSeq(pieces, c[1] + 2, Len(pieces))
  /\ UNCHANGED <<params, result>>

Finish ==
  /\ result = <<>> /\ ~Whole
  /\ Candidates = {}
  /\ result' = IF \A k \in DOMAIN pieces : pieces[k] \in vocab
                 THEN pieces ELSE UnknownPiece
  /\ UNCHANGED <<params, pieces>>

TakeWhole ==
  /\ result = <<>> /\ Whole
  /\ result' = <<text>>
  /\ UNCHANGED <<params, pieces>>

Next == MergeBest \/ Finish \/ TakeWhole

Spec == Init /\ [][Next]_vars

=============================================================================
