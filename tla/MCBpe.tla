------------------------------- MODULE MCBpe --------------------------------
(***************************************************************************)
(* Bpe over an alphabet of two characters: every pretoken of up to MaxText *)
(* characters, every list of up to two rules over texts of up to two       *)
(* characters, and the lists of three rules a trainer could have produced. *)
(***************************************************************************)
EXTENDS Bpe

CONSTANTS a, b, MaxText

TextsUpTo(n) == UNION {[1 .. k -> {a, b}] : k \in 1 .. n}

Rules == {rule \in TextsUpTo(2) \X TextsUpTo(2) : Len(rule[1]) + Len(rule[2]) <= 3}

AnyTwoRules == UNION {[1 .. k -> Rules] : k \in 0 .. 2}

AllTexts  == TextsUpTo(MaxText)
AllVocabs == {TextsUpTo(MaxText), TextsUpTo(2)}

TrainedLists ==
  {list \in [1 .. 3 -> {rule \in TextsUpTo(2) \X TextsUpTo(2) :
                          Len(rule[1]) = 1 \/ rule[1] = rule[2]}] :
     /\ Trained(list)
     /\ \A r \in 1 .. 3 : \A part \in {list[r][1], list[r][2]} :
          Len(part) > 1 => \E q \in 1 .. r - 1 : Product(list[q]) = part}

MCRuleLists == AnyTwoRules \cup TrainedLists

=============================================================================
