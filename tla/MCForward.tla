------------------------------ MODULE MCForward ------------------------------
(***************************************************************************)
(* Forward on a paged window of three positions.  With chunks of two, a    *)
(* prompt of three ends with a chunk of one token, which takes the decode  *)
(* path.  No definition tells two tokens apart but by equality.            *)
(***************************************************************************)
EXTENDS Forward, FiniteSets, TLC

TokenSymmetry == Permutations(Tokens)
=============================================================================
