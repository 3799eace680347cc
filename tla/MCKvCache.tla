------------------------------ MODULE MCKvCache ------------------------------
(***************************************************************************)
(* KvCache on small instances: a window that is not a multiple of the page *)
(* size, and copies that may fail.                                         *)
(***************************************************************************)
EXTENDS KvCache
=============================================================================
