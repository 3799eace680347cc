------------------------------- MODULE KvStore -------------------------------
(***************************************************************************)
(* What the KV cache promises the forward pass, whatever its layout: one   *)
(* value per layer and position, positions that become available in order, *)
(* a write that touches exactly the positions it names, and a position     *)
(* that reads as zero from the moment it is available until it is written. *)
(***************************************************************************)
EXTENDS Naturals, Sequences

CONSTANTS
  NumLayers,  (* Transformer layers, each with a cache of its own.         *)
  MaxSeq,     (* Positions the cache was built for.                        *)
  Values,     (* What a position of a layer can be given to hold.          *)
  Zero        (* What device memory holds before the first write.          *)

VARIABLES
  store,      (* store[layer][position]                                    *)
  length      (* Positions made available so far.                          *)

vars == <<store, length>>

Layer    == 0 .. NumLayers - 1
Position == 0 .. MaxSeq - 1

Init ==
  /\ store  = [l \in Layer |-> [p \in Position |-> Zero]]
  /\ length = 0

(* Make the first n positions available; never takes any away.             *)
Reserve(n) ==
  /\ n > length
  /\ length' = n
  /\ UNCHANGED store

(* Give the positions start, start + 1, ... of one layer new values.       *)
Write(layer, start, vals) ==
  /\ start + Len(vals) <= length
  /\ store' = [store EXCEPT ![layer] = [p \in Position |->
                 IF p \in start .. start + Len(vals) - 1
                   THEN vals[p - start + 1] ELSE @[p]]]
  /\ UNCHANGED length

Next ==
  \/ \E n \in 1 .. MaxSeq : Reserve(n)
  \/ \E layer \in Layer, start \in Position :
       \E n \in 1 .. MaxSeq : \E vals \in [1 .. n -> Values] : Write(layer, start, vals)

Spec == Init /\ [][Next]_vars

=============================================================================
