------------------------------- MODULE KvCache -------------------------------
(***************************************************************************)
(* The KV cache of src/kv_cache.cu: the contiguous layout, which gives each *)
(* layer one window of max_seq positions, and the paged layout, which maps *)
(* fixed-size pages of a shared pool to (layer, logical page) pairs as the *)
(* sequence reaches them.  The heads and the element type only scale the   *)
(* addresses, so a slot of a page stands for all of them.                  *)
(*                                                                         *)
(* The host keeps the page tables; kernels read a copy in device memory    *)
(* that cudaMemcpy refreshes, one layer at a time.                         *)
(***************************************************************************)
EXTENDS Integers, Sequences

CONSTANTS
  NumLayers,       (* config_.num_layers                                   *)
  MaxSeq,          (* max_seq_                                             *)
  PageSizeOption,  (* Options::page_size                                   *)
  Paged,           (* layout_ == KvLayout::kPaged                          *)
  CopyMayFail,     (* May cudaMemcpy report an error (CUDA_CHECK throws)?  *)
  Values,          (* What the forward pass writes at a position.          *)
  Zero,            (* What cudaMemset left in the pool.                    *)
  Garbage          (* What a read outside the pool gives.                  *)

ASSUME KvAssumption ==
  /\ NumLayers \in Nat \ {0}
  /\ MaxSeq \in Nat \ {0}
  /\ PageSizeOption \in Nat \ {0}
  /\ Paged \in BOOLEAN
  /\ CopyMayFail \in BOOLEAN
  /\ Zero \notin Values

VARIABLES
  length,        (* length_: the high-water mark of the sequence.          *)
  pagesMapped,   (* pages_mapped_: the next page of the pool to hand out.  *)
  hostTable,     (* page_tables_host_[layer][page]                         *)
  deviceTable,   (* page_tables_device_[layer][page]                       *)
  pool           (* key_pool_ / value_pool_, as pool[page][slot]           *)

vars == <<length, pagesMapped, hostTable, deviceTable, pool>>

CeilDiv(a, b) == (a + b - 1) \div b

PageSize  == IF Paged THEN PageSizeOption ELSE MaxSeq
MaxPages  == CeilDiv(MaxSeq, PageSize)
PoolPagesRoundedDown == (MaxSeq \div PageSize) * NumLayers  (* mutant *)
PoolPages == MaxPages * NumLayers

Layer    == 0 .. NumLayers - 1
Position == 0 .. MaxSeq - 1
Page     == 0 .. MaxPages - 1
Slot     == 0 .. PageSize - 1
PoolPage == 0 .. PoolPages - 1
Unmapped == -1

Init ==
  /\ length      = 0
  /\ pagesMapped = 0
  /\ hostTable   = [l \in Layer |-> [g \in Page |-> Unmapped]]
  /\ deviceTable = [l \in Layer |-> [g \in Page |-> Unmapped]]
  /\ pool        = [g \in PoolPage |-> [s \in Slot |-> Zero]]

-----------------------------------------------------------------------------
(***************************************************************************)
(* KvCacheView::offset: where a kernel finds a position of a layer.  The   *)
(* contiguous view has no table: layer l owns the l-th window.             *)
(***************************************************************************)
PhysicalPage(layer, p) ==
  IF Paged THEN deviceTable[layer][p \div PageSize] ELSE layer

SlotFromTop(p) == PageSize - 1  (* mutant: one slot serves the whole page *)
SlotOf(p)      == p % PageSize

ReadKv(layer, p) ==
  LET g == PhysicalPage(layer, p)
  IN  IF g = Unmapped THEN Garbage ELSE pool[g][SlotOf(p)]

(* rope_write_kv_kernel: one thread block per token writes its key and     *)
(* value at start_position + token.                                        *)
WriteKv(layer, start, vals) ==
  /\ pool' = [g \in PoolPage |-> [s \in Slot |->
       LET hits == {p \in start .. start + Len(vals) - 1 :
                      PhysicalPage(layer, p) = g /\ SlotOf(p) = s}
       IN  IF hits = {} THEN pool[g][s]
           ELSE vals[(CHOOSE p \in hits : TRUE) - start + 1]]]
  /\ UNCHANGED <<length, pagesMapped, hostTable, deviceTable>>

-----------------------------------------------------------------------------
(***************************************************************************)
(* reserve_length.  Pages are handed out layer by layer, page by page, so  *)
(* the i-th page handed out in this call goes to entry i of the sequence   *)
(* <layer 0, have>, ..., <layer 0, need-1>, <layer 1, have>, ...  A call    *)
(* that throws has handed out the first `count' of them and has copied     *)
(* the tables of the first `copied' layers to the device.                  *)
(***************************************************************************)
RankInLayer(have, need, l, g) == g - have                            (* mutant *)
Rank(have, need, l, g)        == l * (need - have) + (g - have)

CopiedFirst(l, copied) == l = 0                                      (* mutant *)
Copied(l, copied)      == l < copied

MapPages(have, need, count, copied) ==
  LET table == [l \in Layer |-> [g \in Page |->
                  IF g \in have .. need - 1 /\ Rank(have, need, l, g) < count
                    THEN pagesMapped + Rank(have, need, l, g) ELSE hostTable[l][g]]]
  IN  /\ hostTable'   = table
      /\ deviceTable' = [l \in Layer |-> [g \in Page |->
                           IF g \in have .. need - 1 /\ Copied(l, copied)
                             THEN table[l][g] ELSE deviceTable[l][g]]]
      /\ pagesMapped' = pagesMapped + count

HaveFloor    == length \div PageSize    (* mutant: forgets a partly used page *)
NeedExtra(n) == n \div PageSize + 1     (* mutant: one page too many at a page boundary *)

Have    == CeilDiv(length, PageSize)
Need(n) == CeilDiv(n, PageSize)
Wanted(n) == NumLayers * (Need(n) - Have)
Room    == PoolPages - pagesMapped

LengthFits(n) == n <= MaxSeq

(* The call returns.  A length already reached is an early return.         *)
ReserveLength(n) ==
  /\ LengthFits(n)
  /\ n > length
  /\ IF Paged
       THEN /\ Wanted(n) <= Room
            /\ MapPages(Have, Need(n), Wanted(n), NumLayers)
       ELSE UNCHANGED <<pagesMapped, hostTable, deviceTable>>
  /\ length' = n
  /\ UNCHANGED pool

(* The call throws because the pool has no page left for the next entry.   *)
PoolExhausted(n) ==
  /\ Paged /\ LengthFits(n) /\ n > length
  /\ Room < Wanted(n)
  /\ MapPages(Have, Need(n), Room, Room \div (Need(n) - Have))
  /\ UNCHANGED <<length, pool>>

(* The call throws because copying the table of some layer failed.         *)
CopyFailsTooLate(n) ==  (* mutant: length_ is set before the copies *)
  /\ CopyMayFail
  /\ Paged /\ LengthFits(n) /\ Need(n) > Have
  /\ Wanted(n) <= Room
  /\ MapPages(Have, Need(n), Wanted(n), 0)
  /\ length' = n
  /\ UNCHANGED pool

CopyFails(n) ==
  /\ CopyMayFail
  /\ Paged /\ LengthFits(n) /\ Need(n) > Have
  /\ \E failed \in Layer :
       /\ (failed + 1) * (Need(n) - Have) <= Room
       /\ MapPages(Have, Need(n), (failed + 1) * (Need(n) - Have), failed)
  /\ UNCHANGED <<length, pool>>

(* The forward pass writes only positions it has reserved, and may ask for *)
(* more than the cache was built for, which every branch refuses.          *)
Next ==
  \/ \E n \in 1 .. MaxSeq + 1 : ReserveLength(n)
  \/ \E n \in 1 .. MaxSeq + 1 : PoolExhausted(n)
  \/ \E n \in 1 .. MaxSeq + 1 : CopyFails(n)
  \/ \E layer \in Layer, start \in Position : \E n \in 1 .. MaxSeq :
       /\ start + n <= length
       /\ \E vals \in [1 .. n -> Values] : WriteKv(layer, start, vals)

Spec == Init /\ [][Next]_vars

-----------------------------------------------------------------------------
(* Type invariant: a table entry is unmapped or names a page of the pool.  *)
TypeOK ==
  /\ length \in 0 .. MaxSeq
  /\ pagesMapped \in 0 .. PoolPages
  /\ hostTable   \in [Layer -> [Page -> PoolPage \cup {Unmapped}]]
  /\ deviceTable \in [Layer -> [Page -> PoolPage \cup {Unmapped}]]
  /\ pool \in [PoolPage -> [Slot -> Values \cup {Zero}]]

(* No page of the pool backs two logical pages, of one layer or of two,    *)
(* and none that reserve_length will still hand out backs any: two         *)
(* positions can never overwrite each other.                               *)
NoSharing ==
  \A l1, l2 \in Layer : \A g1, g2 \in Page :
    /\ hostTable[l1][g1] # Unmapped => hostTable[l1][g1] < pagesMapped
    /\ /\ hostTable[l1][g1] # Unmapped
       /\ hostTable[l1][g1] = hostTable[l2][g2]
       => l1 = l2 /\ g1 = g2

(* The logical pages some reserved position lies on.                       *)
Reached == {g \in Page : g * PageSize < length}

(* The partial copies of reserve_length keep the device's table equal to   *)
(* the host's, and mapped, on every page of the reserved length.           *)
DeviceCurrent ==
  Paged => \A l \in Layer : \A g \in Reached :
             /\ deviceTable[l][g] = hostTable[l][g]
             /\ deviceTable[l][g] # Unmapped

(* Pages handed out by calls that then threw: no logical page needs them.  *)
Leaked == pagesMapped - NumLayers * Have

(* kv_cache.cu:37: the pool is sized so that a sequence of up to max_seq   *)
(* positions finds its pages, as long as no call has failed half way.      *)
PoolSuffices ==
  Paged /\ Leaked = 0 => \A n \in length .. MaxSeq : Wanted(n) <= Room

(* kv_cache.cu:82: a call that returns has handed out exactly the pages    *)
(* its new positions are the first to lie on, also after a failed one.     *)
ReturnLeaksNothing ==
  [][Paged /\ length' # length => Leaked' = Leaked]_vars

(* A kernel enqueued against a reserved page stays valid: later calls of   *)
(* reserve_length, failed ones included, never move a reserved page.       *)
ReservedPagesFixed ==
  [][\A l \in Layer : \A g \in Reached :
       deviceTable'[l][g] = deviceTable[l][g]]_vars

(* Both layouts implement the abstract store: a reserved position reads    *)
(* what was last written there, through the table kernels use.             *)
Store == INSTANCE KvStore WITH
  store <- [l \in Layer |-> [p \in Position |->
              IF p < length THEN ReadKv(l, p) ELSE Zero]]
ImplementsStore == Store!Spec

=============================================================================
