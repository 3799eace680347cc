-------------------------------- MODULE Arena ---------------------------------
(***************************************************************************)
(* src/arena.cu: one device block, handed out from the bottom up.  Nothing *)
(* in the program calls release, reset or ArenaScope, which are left out.  *)
(***************************************************************************)
EXTENDS Integers

CONSTANT Alignment

ASSUME ArenaAssumption == Alignment \in Nat \ {0}

VARIABLES
  capacity,  (* capacity_                                                  *)
  used       (* used_                                                      *)

(* common.h computes this with a mask, the same for powers of two.         *)
AlignUp(v) == ((v + Alignment - 1) \div Alignment) * Alignment

Reserve(bytes) == capacity' = bytes /\ used' = 0

HasRoom(bytes) == AlignUp(used) + bytes <= capacity

Allocate(bytes) ==
  /\ HasRoom(bytes)
  /\ used' = AlignUp(used) + bytes
  /\ UNCHANGED capacity

=============================================================================
