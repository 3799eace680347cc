------------------------------ MODULE MCGenerate ------------------------------
(***************************************************************************)
(* Generate with a cache of four positions, prompts of zero to four tokens *)
(* and limits below, at and above what the cache can still take.           *)
(***************************************************************************)
EXTENDS Generate
=============================================================================
