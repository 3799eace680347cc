------------------------------- MODULE Generate -------------------------------
(***************************************************************************)
(* The command line program of src/main.cu: warmup passes, the timed       *)
(* prefill, the generation loop, and what the report at the end says.      *)
(*                                                                         *)
(* The model is used through the interface Transcript specifies (Forward   *)
(* implements it): `logits' is the context the logits buffer was computed  *)
(* from.  `resident' is the length the KV cache reports, a high-water mark *)
(* that Model::reset leaves alone.                                         *)
(***************************************************************************)
EXTENDS Profiler

CONSTANTS
  Tokens,      (* The vocabulary.                                          *)
  Eos,         (* The tokens config.is_eos() accepts.                      *)
  MaxSeq,      (* --max-seq                                                *)
  Chunk,       (* --prefill-chunk                                          *)
  MaxNew,      (* Bound on --max-tokens.                                   *)
  MaxWarmup,   (* Bound on --warmup.                                       *)
  NotGiven,    (* --warmup is not on the command line.                     *)
  NoLogits     (* The logits buffer before the first call.                 *)

ASSUME GenerateAssumption ==
  /\ Eos \subseteq Tokens
  /\ {MaxSeq, Chunk} \subseteq Nat \ {0}

Filler   == CHOOSE t \in Tokens \ Eos : TRUE

VARIABLES
  args,        (* What the command line and the prompt came to.            *)
  pc,          (* The statement of run() to execute next.                  *)
  warmLeft,    (* Iterations the warmup loop has left.                     *)
  context,     (* Model: tokens absorbed since its last reset.             *)
  logits,      (* Model: context the logits buffer was computed from.      *)
  resident,    (* KvCache::length_                                         *)
  stagesDone,  (* Stages the profiled call under way has finished.         *)
  emitted,     (* Tokens fed to the streamer.                              *)
  next,        (* The token the next decode call is given.                 *)
  decodeSteps, (* decode_steps                                             *)
  keysRead     (* History: positions read by attention in timed decodes.   *)

modelVars == <<context, logits, resident, stagesDone, profilerVars>>
loopVars  == <<emitted, next, decodeSteps, keysRead>>
vars == <<args, pc, warmLeft, modelVars, loopVars>>

Prompt == [i \in 1 .. args.promptLength |-> Filler]

Budget == IF args.maxNew < MaxSeq - args.promptLength
            THEN args.maxNew ELSE MaxSeq - args.promptLength

(* parse_args: --profile switches the report on, and a report warms up     *)
(* once unless told otherwise.                                             *)
Reports(profile, bench) == bench \/ profile
WarmupOf(given, reports) ==
  IF given # NotGiven THEN given ELSE IF reports THEN 1 ELSE 0

(* The prompt may be empty or not fit; run() checks that first.            *)
Init ==
  /\ \E length \in 0 .. MaxSeq, limit \in -1 .. MaxNew, profile, bench \in BOOLEAN,
        given \in {NotGiven} \cup (-1 .. MaxWarmup) :
       args = [promptLength |-> length, maxNew |-> limit, profile |-> profile,
               warmup |-> WarmupOf(given, Reports(profile, bench))]
  /\ pc = "check" /\ warmLeft = args.warmup
  /\ context = << >> /\ logits = NoLogits /\ resident = 0
  /\ ProfilerInit /\ stagesDone = 0
  /\ emitted = << >> /\ next = Filler
  /\ decodeSteps = 0 /\ keysRead = 0

-----------------------------------------------------------------------------
(* Model::prefill and Model::decode as the program sees them.  Their check *)
(* that the positions fit is the guard: were it to fail the call would     *)
(* throw out of run(), which CallsFit says never happens.  A call that is  *)
(* profiled goes through its stages first, one pass of the layers for each *)
(* chunk, and folds them into the totals as it returns.                    *)
Larger(a, b) == IF a < b THEN b ELSE a

Calling == pc \in {"prefill", "decode", "warm decode"} \/ (pc = "warmup" /\ warmLeft > 0)

Passes    == IF pc = "prefill" THEN (args.promptLength + Chunk - 1) \div Chunk ELSE 1
AllStages == Passes * Len(PassStages)

BeginStage ==
  /\ Calling /\ profiling /\ ~HasOpenSpan /\ stagesDone < AllStages
  /\ Begin(PassStages[(stagesDone % Len(PassStages)) + 1])
  /\ UNCHANGED <<args, pc, warmLeft, context, logits, resident, stagesDone, loopVars>>

EndStage ==
  /\ Calling /\ profiling /\ End
  /\ stagesDone' = stagesDone + 1
  /\ UNCHANGED <<args, pc, warmLeft, context, logits, resident, loopVars>>

Absorb(tokens) ==
  /\ Len(context) + Len(tokens) <= MaxSeq
  /\ context'  = context \o tokens
  /\ logits'   = context'
  /\ resident' = Larger(resident, Len(context'))
  /\ IF profiling
       THEN stagesDone = AllStages /\ stagesDone' = 0 /\ Collect
       ELSE UNCHANGED <<stagesDone, profilerVars>>

Goto(label) == pc' = label

(* The generation loop may also throw out of Model::sample, or out of      *)
(* decode_one if the token has an id the tokenizer lacks; the warmup's     *)
(* sample runs where its decode does.                                      *)
MayThrow == Calling \/ (pc = "loop" /\ decodeSteps < Budget)

ThrowOpen ==       (* mutant: the scope of the stage does not close its span *)
  /\ MayThrow
  /\ Goto("failed")
  /\ UNCHANGED <<args, warmLeft, modelVars, loopVars>>

(* A CUDA call or a check fails.  The exception closes the open scope, and *)
(* main reports it; but if recording that scope's own event is what fails, *)
(* it leaves a destructor and the process is terminated.                   *)
Throw ==
  /\ MayThrow
  /\ IF HasOpenSpan THEN End ELSE UNCHANGED profilerVars
  /\ Goto("failed")
  /\ UNCHANGED <<args, warmLeft, context, logits, resident, stagesDone, loopVars>>

Terminate ==
  /\ Calling /\ HasOpenSpan
  /\ Goto("terminated")
  /\ UNCHANGED <<args, warmLeft, modelVars, loopVars>>

-----------------------------------------------------------------------------
PromptNotLonger == args.promptLength > 0 /\ args.promptLength <= MaxSeq  (* mutant *)
PromptFits      == args.promptLength > 0 /\ args.promptLength < MaxSeq

CheckPrompt ==
  /\ pc = "check"
  /\ IF PromptFits
       THEN Goto("warmup") ELSE Goto("refused")
  /\ UNCHANGED <<args, warmLeft, modelVars, loopVars>>

(* One warmup iteration: prefill, a greedy sample, one decode, reset.      *)
WarmPrefill ==
  /\ pc = "warmup" /\ warmLeft > 0
  /\ Absorb(Prompt)
  /\ Goto("warm decode")
  /\ UNCHANGED <<args, warmLeft, loopVars>>

WarmDecode ==
  /\ pc = "warm decode"
  /\ \E token \in Tokens : Absorb(<<token>>)
  /\ Goto("warm reset")
  /\ UNCHANGED <<args, warmLeft, loopVars>>

WarmResetForever ==  (* mutant: the warmup loop does not count *)
  /\ pc = "warm reset"
  /\ context' = << >>
  /\ Goto("warmup")
  /\ UNCHANGED <<args, warmLeft, logits, resident, stagesDone, profilerVars, loopVars>>

WarmReset ==
  /\ pc = "warm reset"
  /\ context' = << >>
  /\ warmLeft' = warmLeft - 1
  /\ Goto("warmup")
  /\ UNCHANGED <<args, logits, resident, stagesDone, profilerVars, loopVars>>

(* After the warmup loop, which a negative count skips.                    *)
EnableProfiler ==
  /\ pc = "warmup" /\ warmLeft <= 0
  /\ IF args.profile THEN Enable ELSE UNCHANGED profilerVars
  /\ Goto("prefill")
  /\ UNCHANGED <<args, warmLeft, context, logits, resident, stagesDone, loopVars>>

TimedPrefill ==
  /\ pc = "prefill"
  /\ Absorb(Prompt)
  /\ Goto("loop")
  /\ UNCHANGED <<args, warmLeft, loopVars>>

BudgetExceeded(n) == n > Budget     (* mutant *)
BudgetSpent(n)    == n >= Budget

IsEos(token)    == token \in Eos

(* One turn of the loop up to its decode call; `step' equals decodeSteps,  *)
(* as both are incremented once per completed turn.                        *)
Sample ==
  /\ pc = "loop" /\ decodeSteps < Budget
  /\ \E token \in Tokens :
       IF IsEos(token)
         THEN Goto("report") /\ UNCHANGED <<emitted, next>>
         ELSE /\ emitted' = Append(emitted, token)
              /\ IF BudgetSpent(Len(emitted'))
                   THEN Goto("report") /\ UNCHANGED next
                   ELSE Goto("decode") /\ next' = token
  /\ UNCHANGED <<args, warmLeft, modelVars, decodeSteps, keysRead>>

LoopEnds ==
  /\ pc = "loop" /\ decodeSteps >= Budget
  /\ Goto("report")
  /\ UNCHANGED <<args, warmLeft, modelVars, loopVars>>

TimedDecodeStale ==  (* mutant: the previous token is fed again *)
  /\ pc = "decode"
  /\ Absorb(<<context[Len(context)]>>)
  /\ decodeSteps' = decodeSteps + 1
  /\ keysRead' = keysRead + Len(context')
  /\ Goto("loop")
  /\ UNCHANGED <<args, warmLeft, emitted, next>>

TimedDecode ==
  /\ pc = "decode"
  /\ Absorb(<<next>>)
  /\ decodeSteps' = decodeSteps + 1
  /\ keysRead' = keysRead + Len(context')
  /\ Goto("loop")
  /\ UNCHANGED <<args, warmLeft, emitted, next>>

(* compute_metrics: twice the mean length of the cache over the run.       *)
TwiceMeanShort  == 2 * args.promptLength + decodeSteps      (* mutant *)
TwiceMeanLength == 2 * args.promptLength + decodeSteps + 1

(* The process has printed its report, refused the prompt, or failed.      *)
Final   == {"report", "refused", "failed", "terminated"}
Stopped == pc \in Final /\ UNCHANGED vars

Next ==
  \/ CheckPrompt \/ WarmPrefill \/ WarmDecode \/ WarmReset \/ EnableProfiler
  \/ TimedPrefill \/ Sample \/ LoopEnds \/ TimedDecode
  \/ BeginStage \/ EndStage \/ Throw \/ Terminate \/ Stopped

Spec == Init /\ [][Next]_vars /\ WF_vars(Next)

-----------------------------------------------------------------------------
(* main.cu: the one test before the warmup loop is enough.  No prefill or  *)
(* decode, warmup's extra decode included, ever finds the cache too short. *)
CallsFit ==
  /\ pc = "prefill" \/ (pc = "warmup" /\ warmLeft > 0)
       => Len(context) + args.promptLength <= MaxSeq
  /\ pc \in {"warm decode", "decode"} => Len(context) < MaxSeq

(* The generation loop: whenever it samples, the logits are those of the   *)
(* prompt followed by exactly the tokens printed so far, whatever the      *)
(* warmup left in the model.                                               *)
ContinuesPrompt ==
  /\ pc = "loop"   => logits = Prompt \o emitted /\ context = logits
  /\ pc = "decode" => context \o <<next>> = Prompt \o emitted

(* The loop's three exits: there is one token more than decode steps only  *)
(* when the budget was exhausted, and the budget is never exceeded.        *)
StepsFollowTokens ==
  /\ pc = "loop"   => Len(emitted) = decodeSteps
  /\ pc = "decode" => Len(emitted) = decodeSteps + 1 /\ Len(emitted) < Budget
  /\ pc = "report" => \/ Len(emitted) = decodeSteps
                      \/ Len(emitted) = decodeSteps + 1 /\ Len(emitted) = Budget

(* compute_metrics and the report's cache line: the cache read per decode  *)
(* step, averaged over the run, is that of prompt + (steps + 1) / 2        *)
(* positions; and the resident length is that of the timed sequence, but   *)
(* for the one position a warmup pass leaves ahead of a run of no steps.   *)
ReportExact ==
  pc = "report" =>
    /\ 2 * keysRead = decodeSteps * TwiceMeanLength
    /\ resident = Len(context)
         + IF args.warmup > 0 /\ decodeSteps = 0 THEN 1 ELSE 0

(* The profile holds every stage of every timed pass, each with the time   *)
(* its kernels took, and nothing of the warmup, although the events behind *)
(* it are recorded anew by every pass.                                     *)
StagesTimed ==
  pc = "report" /\ args.profile =>
    LET runs == (args.promptLength + Chunk - 1) \div Chunk + decodeSteps
    IN  \A name \in StageNames :
          totals[name] = [launches |-> runs * Occurrences(name),
                          time     |-> runs * Occurrences(name) * Work(name)]

(* profiler.cu: the events of the spans not yet collected are distinct and *)
(* taken from the used part of the pool; the pool never grows past the     *)
(* longest call; and no span is open between stages or behind a failure,   *)
(* so end() always finds its begin().                                      *)
EventsHoldTheirSpan ==
  LET events == [i \in DOMAIN spans |->
                   {spans[i].start} \cup ({spans[i].stop} \ {Open})]
  IN  /\ \A i \in DOMAIN spans : spans[i].start # spans[i].stop
      /\ \A i, j \in DOMAIN spans : i # j => events[i] \cap events[j] = {}
      /\ \A i \in DOMAIN spans : events[i] \subseteq 1 .. poolUsed
      /\ \A i \in DOMAIN spans : spans[i].stop = Open =>
            i = Len(spans) /\ pc \in {"prefill", "decode", "terminated"}
      /\ Len(pool) <= 2 * Len(PassStages) * ((args.promptLength + Chunk - 1) \div Chunk)

(* Generation stops: at an end-of-sequence token, at the token limit, at   *)
(* the end of the cache or at a failure.                                   *)
Terminates == <>(pc \in Final)

(* main.cu:337 says that the profile is a breakdown of decode steps.       *)
ProfileIsOfDecode ==
  pc = "report" /\ args.profile =>
    \A name \in StageNames : totals[name].launches = decodeSteps * Occurrences(name)

=============================================================================
