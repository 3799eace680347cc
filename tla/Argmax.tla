------------------------------- MODULE Argmax --------------------------------
(***************************************************************************)
(* The greedy kernels of src/kernels/sampling.cu, which Sampler launches   *)
(* at temperature zero.  Each thread reduces a strided part of the logits, *)
(* the threads of a block meet in a shared maximum between two barriers,   *)
(* and one thread of each block publishes it; nothing orders the blocks.   *)
(***************************************************************************)
EXTENDS Integers, FiniteSets

CONSTANTS
  Vocab,     (* Logits in the row.                                         *)
  Blocks,    (* gridDim.x                                                  *)
  Threads,   (* blockDim.x                                                 *)
  Keys       (* Values of order_preserving_key over the logits.            *)

(* What the kernels are launched with.                                     *)
ArgmaxAssumption ==
  /\ Vocab \in Nat \ {0} /\ Blocks \in Nat \ {0} /\ Threads \in Nat \ {0}
  /\ Keys \subseteq Nat \ {0}

VARIABLES
  key,      (* key[i]: the ordered key of logit i.                         *)
  pc,       (* pc[<<block, thread>>]                                       *)
  local,    (* local, of each thread                                       *)
  shared,   (* shared, of each block                                       *)
  best,     (* *best, in device memory                                     *)
  outId     (* *out_id, None until argmax_unpack_kernel has run.           *)

vars == <<key, pc, local, shared, best, outId>>

Token  == 0 .. Vocab - 1
Block  == 0 .. Blocks - 1
Thread == Block \X (0 .. Threads - 1)
None   == -1

Maximum(S) == CHOOSE x \in S : \A y \in S : y <= x

(* The key in the high word and the complemented index in the low one.     *)
Packed(i)      == key[i] * Vocab + (Vocab - 1 - i)

(* Which logits a thread strides over.                                     *)
Strided(t) == {i \in Token : i % (Blocks * Threads) = t[1] * Threads + t[2]}

(* Memory a kernel has not written holds anything: nothing, or a maximum.  *)
Uninitialised == {0, (Maximum(Keys) + 1) * Vocab}

Init ==
  /\ key \in [Token -> Keys]
  /\ pc = [t \in Thread |-> "scan"]
  /\ local = [t \in Thread |-> 0]
  /\ shared \in [Block -> Uninitialised]
  /\ best \in Uninitialised         (* launch_sample zeroes it              *)
  /\ outId = None

Goto(t, label) == pc' = [pc EXCEPT ![t] = label]

(* __syncthreads: a thread goes on once no peer is still before it.        *)
PeersPastAll(t, before) ==      (* mutant: peers without logits never arrive *)
  \A u \in Thread : u[1] = t[1] => pc[u] \notin before /\ Strided(u) # {}
PeersPast(t, before) ==
  \A u \in Thread : u[1] = t[1] => pc[u] \notin before

Scan(t) ==
  /\ pc[t] = "scan"
  /\ local' = [local EXCEPT ![t] = Maximum({0} \cup {Packed(i) : i \in Strided(t)})]
  /\ Goto(t, "clear")
  /\ UNCHANGED <<key, shared, best, outId>>

Clear(t) ==
  /\ pc[t] = "clear"
  /\ shared' = IF t[2] = 0 THEN [shared EXCEPT ![t[1]] = 0] ELSE shared
  /\ Goto(t, "combine")
  /\ UNCHANGED <<key, local, best, outId>>

NotYetCleared == {}                     (* mutant: no barrier after the clear *)
Uncleared     == {"scan", "clear"}
Uncombined    == Uncleared \cup {"combine"}

Combine(t) ==
  /\ pc[t] = "combine" /\ PeersPast(t, Uncleared)
  /\ shared' = [shared EXCEPT ![t[1]] = Maximum({@, local[t]})]
  /\ Goto(t, "publish")
  /\ UNCHANGED <<key, local, best, outId>>

Publish(t) ==
  /\ pc[t] = "publish" /\ PeersPast(t, Uncombined)
  /\ best' = IF t[2] = 0 THEN Maximum({best, shared[t[1]]}) ELSE best
  /\ Goto(t, "done")
  /\ UNCHANGED <<key, local, shared, outId>>

(* argmax_unpack_kernel, which the stream runs after the whole grid.       *)
Unpack ==
  /\ outId = None /\ \A t \in Thread : pc[t] = "done"
  /\ outId' = Vocab - 1 - (best % Vocab)
  /\ UNCHANGED <<key, pc, local, shared, best>>

Next == \/ \E t \in Thread : Scan(t) \/ Clear(t) \/ Combine(t) \/ Publish(t)
        \/ Unpack

=============================================================================
