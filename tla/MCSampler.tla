------------------------------ MODULE MCSampler -------------------------------
(***************************************************************************)
(* Sampler over five logits: greedily with six threads in two blocks, one  *)
(* of which sees no logit, as happens in the last block of a real grid;    *)
(* otherwise with a buffer of four candidates, two threads and bins of two *)
(* depths.  The exponential is a power of two; one top-p is out of range.  *)
(***************************************************************************)
EXTENDS Sampler

MCWeight  == [d \in 0 .. 5 |-> 2 ^ (5 - d)]
Fractions == {<<1, 2>>, <<3, 4>>, <<1, 1>>, <<3, 2>>}
Draws     == {<<0, 1>>, <<1, 2>>, <<9, 10>>}

=============================================================================
