------------------------------ MODULE Transcript ------------------------------
(***************************************************************************)
(* What the forward pass promises: the logits it leaves behind are those   *)
(* of a causal transformer applied to exactly the tokens absorbed since    *)
(* the last reset, in order.  Nothing else (chunk sizes, pages, an earlier *)
(* sequence, a call that failed) may show in them.                         *)
(*                                                                         *)
(* Arithmetic is abstracted to terms: a value is the tuple of what it was  *)
(* computed from, so two computations agree only if they read the same     *)
(* inputs.                                                                 *)
(***************************************************************************)
EXTENDS Naturals, Sequences

CONSTANTS NumLayers, MaxSeq, Tokens, NoLogits

VARIABLES
  context,   (* The tokens absorbed since the last reset.                  *)
  logits     (* The contents of the logits buffer.                         *)

vars == <<context, logits>>

(* The kernels, as free constructors.  Weight set l of the norm belongs to *)
(* layer l, NumLayers being the final norm.                                *)
Norm(l, row)         == <<"norm", l, row>>
KvOf(normed, p)      == <<"kv", normed, p>>
Join(row, normed, p, keys) == <<"join", row, KvOf(normed, p), keys>>

(* The residual stream below layer l, for every position of a sequence.    *)
Residual(tokens) ==
  LET row[l \in 0 .. NumLayers] ==
        IF l = 0 THEN tokens
        ELSE LET below == row[l - 1]
             IN  [i \in 1 .. Len(tokens) |->
                    Join(below[i], Norm(l - 1, below[i]), i - 1,
                         [q \in 1 .. i |-> KvOf(Norm(l - 1, below[q]), q - 1)])]
  IN  row

LogitsOf(tokens) == Norm(NumLayers, Residual(tokens)[NumLayers][Len(tokens)])

Init == context = << >> /\ logits = NoLogits

(* Absorb some tokens: the logits become those of the last one.            *)
Absorb(tokens) ==
  /\ Len(context) + Len(tokens) <= MaxSeq
  /\ context' = context \o tokens
  /\ logits' = LogitsOf(context')

Reset == context' = << >> /\ UNCHANGED logits

Next ==
  \/ \E n \in 1 .. MaxSeq : \E tokens \in [1 .. n -> Tokens] : Absorb(tokens)
  \/ Reset

Spec == Init /\ [][Next]_vars

=============================================================================
