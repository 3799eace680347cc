-------------------------------- MODULE Sampler -------------------------------
(***************************************************************************)
(* Model::sample and launch_sample: one call over a row of logits, greedy  *)
(* (Argmax) at temperature zero and with sample_kernel (Sampling) above.   *)
(* Both read the same logits, write the same word of device memory, and    *)
(* the greedy kernels accumulate in scratch that decode attention used.    *)
(***************************************************************************)
EXTENDS Sampling

CONSTANTS
  Blocks, BlockThreads,  (* The grid of the greedy kernel.                 *)
  GreedyDepths   (* Bound: the depths of a row that is decoded greedily.   *)

VARIABLES
  stage,         (* What the call does next.                               *)
  temperature,   (* Its sign: "zero" covers negative temperatures.         *)
  pc, local, shared, best,  (* The greedy kernel's, see Argmax.            *)
  result         (* What the call returned.                                *)

Deepest == CHOOSE d \in Depths : \A e \in Depths : e <= d
KeyOf   == [i \in Token |-> Deepest + 1 - depth[i]]

Greedy == INSTANCE Argmax WITH key <- KeyOf, Threads <- BlockThreads,
                               Keys <- 1 .. Deepest + 1

ASSUME GreedyAssumption ==
  /\ Greedy!ArgmaxAssumption
  /\ Deepest \in Depths /\ \A d \in Depths : d <= Deepest

nucleusVars == <<cursor, claimed, count, slots>>
greedyVars  == <<pc, local, shared, best>>
vars == <<stage, temperature, inputs, nucleusVars, greedyVars, outId, result>>

Init ==
  /\ stage = "launch"
  /\ NucleusInit
  /\ Greedy!Init
  /\ result = None
  /\ \/ /\ temperature = "positive"
        /\ best = 0 /\ \A b \in DOMAIN shared : shared[b] = 0
     \/ /\ temperature = "zero"
        /\ \A i \in Token : depth[i] \in GreedyDepths
        /\ topK = 0 /\ topP = <<1, 1>> /\ uniform = <<0, 1>>

-----------------------------------------------------------------------------
(* launch_sample up to its kernels; a refused call throws.                 *)
TopPValid == topP[1] > 0 /\ topP[1] <= topP[2]

LaunchOverScratch ==           (* mutant: the accumulator is not zeroed *)
  /\ stage = "launch"
  /\ stage' = IF temperature = "zero" THEN "argmax"
              ELSE IF TopPValid THEN "sample" ELSE "refused"
  /\ UNCHANGED <<temperature, inputs, nucleusVars, greedyVars, outId, result>>

Launch ==
  /\ stage = "launch"
  /\ IF temperature = "zero"
       THEN stage' = "argmax" /\ best' = 0
     ELSE /\ stage' = IF TopPValid THEN "sample" ELSE "refused"
          /\ UNCHANGED best
  /\ UNCHANGED <<temperature, inputs, nucleusVars, pc, local, shared, outId, result>>

RunArgmax ==
  /\ stage = "argmax"
  /\ UNCHANGED <<stage, temperature, inputs, nucleusVars, result>>
  /\ Greedy!Next

RunSample ==
  /\ stage = "sample" /\ NucleusNext
  /\ UNCHANGED <<stage, temperature, greedyVars, result>>

(* The copy to the host is ordered after the kernels; then the range check.*)
Return ==
  /\ stage \in {"argmax", "sample"} /\ outId # None
  /\ IF outId \in Token
       THEN stage' = "returned" /\ result' = outId
       ELSE stage' = "refused" /\ UNCHANGED result
  /\ UNCHANGED <<temperature, inputs, nucleusVars, greedyVars, outId>>

Next == Launch \/ RunArgmax \/ RunSample \/ Return

(* The device runs every thread of a launched kernel, and the host goes on *)
(* behind it; sample_kernel, a loop without waits, is given no fairness.   *)
Spec == Init /\ [][Next]_vars /\ WF_vars(Launch \/ RunArgmax \/ Return)

-----------------------------------------------------------------------------
(* Whatever the schedule, and whatever attention left in the scratch and   *)
(* an earlier kernel in shared memory, greedy decoding returns the first   *)
(* of the largest logits (sampling.cu:47).                                 *)
GreedyPicksFirstMaximum ==
  stage = "returned" /\ temperature = "zero" =>
    /\ \A i \in Token : depth[i] >= depth[result]
    /\ \A i \in 0 .. result - 1 : depth[i] > depth[result]

(* Greedy decoding ends: its barriers let every thread through, and the    *)
(* range check accepts the token it picked.                                *)
Finishes == temperature = "zero" => <>(stage = "returned")

=============================================================================
