------------------------------- MODULE Profiler -------------------------------
(***************************************************************************)
(* src/profiler.cu: pairs of CUDA events around the stages of a pass, from *)
(* a pool that is reused by the next pass, folded into totals by name.     *)
(* The stream is a clock: it moves by one between two stages and by the    *)
(* stage's work within one, and an event remembers when it was recorded.   *)
(***************************************************************************)
EXTENDS Integers, Sequences, SequencesExt

CONSTANTS NumLayers, Open   (* Open: Span::stop while it is null.          *)

ASSUME ProfilerAssumption == NumLayers \in Nat \ {0} /\ Open \notin Nat

VARIABLES
  profiling,   (* enabled_                                                 *)
  spans,       (* spans_                                                   *)
  pool,        (* pool_: the time each event was last recorded at.         *)
  poolUsed,    (* pool_used_                                               *)
  totals,      (* totals_: launches and time of each stage.                *)
  now          (* The stream's clock.                                      *)

profilerVars == <<profiling, spans, pool, poolUsed, totals, now>>

-----------------------------------------------------------------------------
(* The ProfileScopes of run_layers, in order.  Every layer but the first   *)
(* finds its input normalised, and so does the end of the pass.            *)
LayerStages ==
  << "qkv_proj (fused GEMM)", "rope + kv write", "attention", "o_proj (GEMM)",
     "residual+rmsnorm (fused)", "mlp gate/up (fused GEMM)", "swiglu",
     "mlp down (GEMM)", "residual+rmsnorm (fused)" >>

AllLayers  == [i \in 1 .. NumLayers * Len(LayerStages) |->
                 LayerStages[((i - 1) % Len(LayerStages)) + 1]]
PassStages == <<"rmsnorm">> \o AllLayers \o <<"lm_head (GEMM)">>

StageNames == ToSet(PassStages)
Work(name) == IF name = "attention" THEN 2 ELSE 1

Occurrences(name) == Cardinality({i \in DOMAIN PassStages : PassStages[i] = name})

-----------------------------------------------------------------------------
NoTotals == [name \in StageNames |-> [launches |-> 0, time |-> 0]]

ProfilerInit ==
  /\ profiling = FALSE /\ spans = << >>
  /\ pool = << >> /\ poolUsed = 0
  /\ totals = NoTotals /\ now = 0

(* acquire_event: an index into the pool.                                  *)
Event == poolUsed + 1
Recorded(event, time) ==
  IF event \in DOMAIN pool THEN [pool EXCEPT ![event] = time] ELSE Append(pool, time)

HasOpenSpan == spans # << >> /\ Last(spans).stop = Open

Begin(name) ==
  /\ now' = now + 1
  /\ pool' = Recorded(Event, now')
  /\ poolUsed' = poolUsed + 1
  /\ spans' = Append(spans, [name |-> name, start |-> Event, stop |-> Open])
  /\ UNCHANGED <<profiling, totals>>

(* The stage's kernels, and the destructor of its scope.                   *)
End ==
  /\ HasOpenSpan
  /\ now' = now + Work(Last(spans).name)
  /\ pool' = Recorded(Event, now')
  /\ poolUsed' = poolUsed + 1
  /\ spans' = [spans EXCEPT ![Len(spans)].stop = Event]
  /\ UNCHANGED <<profiling, totals>>

Elapsed(span) == pool[span.stop] - pool[span.start]

Folded ==
  LET after[n \in 0 .. Len(spans)] ==
        IF n = 0 THEN totals
        ELSE IF spans[n].stop = Open THEN after[n - 1]
        ELSE [after[n - 1] EXCEPT ![spans[n].name] =
                [launches |-> @.launches + 1, time |-> @.time + Elapsed(spans[n])]]
  IN  after[Len(spans)]

CollectAgain ==        (* mutant: the spans of this pass stay for the next *)
  /\ totals' = Folded
  /\ UNCHANGED <<profiling, spans, pool, poolUsed, now>>

Collect ==
  /\ totals' = Folded
  /\ spans' = << >> /\ poolUsed' = 0
  /\ UNCHANGED <<profiling, pool, now>>

(* profiler().reset(), set_enabled(true).                                  *)
Enable ==
  /\ totals' = NoTotals /\ spans' = << >> /\ poolUsed' = 0
  /\ profiling' = TRUE
  /\ UNCHANGED <<pool, now>>

=============================================================================
