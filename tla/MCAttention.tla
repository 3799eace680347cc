---------------------------- MODULE MCAttention -----------------------------
(***************************************************************************)
(* Attention with two warps and up to four splits of up to five positions: *)
(* five positions in four splits leave the last split empty, and blocks of *)
(* one position leave a warp empty; prefill chunks of two and three tokens *)
(* with two key/value heads of two query heads each.                       *)
(***************************************************************************)
EXTENDS PrefillAttention
=============================================================================
