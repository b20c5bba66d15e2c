-------------------------- MODULE EpisodeExecution --------------------------
(***************************************************************************)
(* execute_episode and EpisodeRecorder of ovlab-runner, driving one        *)
(* PolicyAdapter and one BenchmarkAdapter through a sequence of episodes   *)
(* of one run.  Every hook of an adapter may raise; SIGINT and SIGTERM     *)
(* raise KeyboardInterrupt between any two steps.                          *)
(*                                                                         *)
(* An observation is reduced to the instruction it carries, a prediction   *)
(* to its horizon and the step it was made for, an action to the pair      *)
(* (prediction, chunk offset): the data the execution modes and the        *)
(* recorder's checks look at.  Images, proprioception, signals, timings    *)
(* and metadata are left out.                                              *)
(***************************************************************************)
EXTENDS Naturals, Sequences

CONSTANTS
  MaximumSteps,        \* task.maximum_steps
  MaximumHorizon,      \* policy.capabilities.maximum_action_horizon
  Modes,               \* the ActionExecutionModes a plan may choose from
  ReplanInterval,      \* action_execution_policy.replan_interval
  Instructions,        \* instructions the benchmark may attach to observations
  InitialInstruction,  \* EpisodeContext.initial_instruction
  RecordObservations,  \* TraceRecordingPolicy.record_policy_observations
  MaxEpisodes,         \* bound: episodes of the run
  MaxInterrupts        \* bound: signals received

AllModes == {"receding_horizon", "open_loop_chunk", "fixed_replan_interval"}

ASSUME ExecutionAssumption ==
  /\ MaximumSteps \in Nat \ {0}
  /\ MaximumHorizon \in Nat \ {0}
  /\ ReplanInterval \in Nat \ {0}
  /\ Modes \subseteq AllModes
  /\ InitialInstruction \in Instructions
  /\ RecordObservations \in BOOLEAN
  /\ MaxEpisodes \in Nat
  /\ MaxInterrupts \in Nat

VARIABLES
  mode,           \* action_execution_policy.mode, fixed for the run
  pc,             \* where execute_episode is
  policy,         \* PolicyAdapter._state
  benchmark,      \* BenchmarkAdapter._state
  policyActive,   \* local policy_active
  failureDomain,  \* local failure_domain
  exc,            \* what the except clauses caught: "none" | "exception" | "interrupt"
  pending,        \* index of the pending prediction, 0 for None
  chunkIndex,     \* local chunk_index
  executionLimit, \* local execution_limit
  instruction,    \* instruction of the local observation
  terminal,       \* terminal status of a step that ended the episode
  contexts,       \* EpisodeRecorder.step_contexts: the step indices are 0..contexts-1
  observed,       \* instruction of the observation of every recorded context
  predictions,    \* EpisodeRecorder.predictions
  executed,       \* EpisodeRecorder.executed_actions
  outcome,        \* (terminal status, error) of the last finished call
  episode,        \* number of calls begun
  interrupts,     \* signals received
  blame,          \* history: the party whose failure raised the exception
  entry           \* history: adapter states when the call began

locals == <<policyActive, failureDomain, exc, pending, chunkIndex, executionLimit,
            instruction, terminal, blame>>
recorder == <<contexts, observed, predictions, executed>>
run == <<mode, outcome, episode, interrupts, entry>>
vars == <<pc, policy, benchmark, locals, recorder, run>>

\* What the runner sees of the component.
Contract == INSTANCE EpisodeContract WITH
  phase <- IF pc = "idle" THEN "idle" ELSE "running",
  policy <- IF pc = "idle" THEN policy ELSE entry.policy,
  benchmark <- IF pc = "idle" THEN benchmark ELSE entry.benchmark

AdapterState == {"ready", "episode_active"}
TryPcs == {"reset_policy", "policy_reset", "reset_benchmark", "loop", "ending", "ended"}
HandlerPcs == {"safe_end", "safe_abort", "finalize"}

stepIndex == Len(executed)

-----------------------------------------------------------------------------
(* Execution modes.                                                        *)

\* How many actions of a prediction with horizon h may be executed.
Limit(h) ==
  CASE mode = "receding_horizon" -> 1
    [] mode = "open_loop_chunk" -> h
    [] mode = "fixed_replan_interval" -> ReplanInterval

\* A fixed interval longer than the returned horizon is an error of the runner.
IntervalExceeds(h) == mode = "fixed_replan_interval" /\ ReplanInterval > h

\* Faulty: one element too many; the whole horizon whatever the mode.
NeedsPredictionOffByOne == pending = 0 \/ chunkIndex > executionLimit
NeedsPredictionIgnoringLimit == pending # 0 => chunkIndex >= predictions[pending].horizon

\* needs_prediction
NeedsPrediction == pending = 0 \/ chunkIndex >= executionLimit

\* pending_step_instruction: the instruction of the recorded observation the
\* prediction was made for; the initial one when observations are not recorded.
PendingInstruction ==
  IF RecordObservations THEN observed[predictions[pending].step + 1]
  ELSE InitialInstruction

\* Faulty: the chunk survives a change of instruction.
KeepPending(i) == pending

\* The pending prediction after an observation carrying instruction i.
PendingAfter(i) == IF i = PendingInstruction THEN pending ELSE 0

-----------------------------------------------------------------------------
(* Leaving the try block.                                                  *)

Caught(kind) == pc' = "safe_end" /\ exc' = kind

\* An exception raised by party, while failure_domain is domain.
RaiseFrom(party, domain) ==
  /\ Caught("exception")
  /\ failureDomain' = domain
  /\ blame' = party

Raise(party, domain) ==
  /\ RaiseFrom(party, domain)
  /\ UNCHANGED <<policyActive, pending, chunkIndex, executionLimit, instruction, terminal>>

-----------------------------------------------------------------------------
(* The try block.                                                          *)

\* make_episode_context, EpisodeRecorder.start and the locals.
Begin ==
  /\ pc = "idle"
  /\ episode < MaxEpisodes
  /\ outcome.error # "interrupt"
  /\ pc' = "reset_policy"
  /\ episode' = episode + 1
  /\ entry' = [policy |-> policy, benchmark |-> benchmark]
  /\ policyActive' = FALSE
  /\ failureDomain' = "policy"
  /\ exc' = "none"
  /\ blame' = "none"
  /\ pending' = 0
  /\ chunkIndex' = 0
  /\ executionLimit' = 0
  /\ instruction' = InitialInstruction
  /\ terminal' = "none"
  /\ contexts' = 0
  /\ observed' = <<>>
  /\ predictions' = <<>>
  /\ executed' = <<>>
  /\ UNCHANGED <<policy, benchmark, mode, outcome, interrupts>>

\* policy.reset_episode(context): refused unless the adapter is READY.
ResetPolicy ==
  /\ pc = "reset_policy"
  /\ policy = "ready"
  /\ policy' = "episode_active"
  /\ pc' = "policy_reset"
  /\ UNCHANGED <<benchmark, locals, recorder, run>>

ResetPolicyFails ==
  /\ pc = "reset_policy"
  /\ Raise("policy", "policy")
  /\ UNCHANGED <<policy, benchmark, recorder, run>>

\* policy_active = True: a signal may fall between the reset and this line.
MarkPolicyActive ==
  /\ pc = "policy_reset"
  /\ pc' = "reset_benchmark"
  /\ policyActive' = TRUE
  /\ failureDomain' = "benchmark"
  /\ UNCHANGED <<policy, benchmark, exc, pending, chunkIndex, executionLimit, instruction,
                 terminal, blame, recorder, run>>

\* benchmark.reset_episode(context), then the initial observation is recorded.
ResetBenchmark ==
  /\ pc = "reset_benchmark"
  /\ benchmark = "ready"
  /\ benchmark' = "episode_active"
  /\ pc' = "loop"
  /\ contexts' = 1
  /\ observed' = <<InitialInstruction>>
  /\ UNCHANGED <<policy, locals, predictions, executed, run>>

ResetBenchmarkFails ==
  /\ pc = "reset_benchmark"
  /\ Raise("benchmark", "benchmark")
  /\ UNCHANGED <<policy, benchmark, recorder, run>>

\* policy.predict(observation) returns a prediction of an admitted horizon; it
\* is recorded before the execution mode looks at it.
Predict ==
  /\ pc = "loop"
  /\ NeedsPrediction
  /\ \E h \in 1..MaximumHorizon :
       /\ predictions' = Append(predictions, [horizon |-> h, step |-> stepIndex])
       /\ IF IntervalExceeds(h)
          THEN /\ RaiseFrom("plan", "runner")
               /\ UNCHANGED <<executionLimit, pending, chunkIndex>>
          ELSE /\ pending' = Len(predictions) + 1
               /\ executionLimit' = Limit(h)
               /\ chunkIndex' = 0
               /\ failureDomain' = "runner"
               /\ UNCHANGED <<pc, exc, blame>>
  /\ UNCHANGED <<policy, benchmark, policyActive, instruction, terminal, contexts, observed,
                 executed, run>>

\* predict raises, or PolicyAdapter.predict rejects what the hook returned.
PredictFails ==
  /\ pc = "loop"
  /\ NeedsPrediction
  /\ Raise("policy", "policy")
  /\ UNCHANGED <<policy, benchmark, recorder, run>>

\* The action of the pending prediction that benchmark.step applies.
NextAction == [prediction |-> pending, offset |-> chunkIndex]

\* Faulty: the observation that follows a step is not recorded.
RecordStepOnly(i) ==
  /\ executed' = Append(executed, NextAction)
  /\ UNCHANGED <<contexts, observed, predictions>>

\* recorder.record_step and record_observation.
RecordStep(i) ==
  /\ executed' = Append(executed, NextAction)
  /\ contexts' = contexts + 1
  /\ observed' = Append(observed, i)
  /\ UNCHANGED predictions

\* recorder.record_step alone: a terminal result may carry no observation.
RecordLastStep ==
  /\ executed' = Append(executed, NextAction)
  /\ UNCHANGED <<contexts, observed, predictions>>

\* benchmark.step returns and the episode goes on.
Step ==
  /\ pc = "loop"
  /\ ~NeedsPrediction
  /\ stepIndex + 1 < MaximumSteps
  /\ \E i \in Instructions :
       /\ RecordStep(i)
       /\ instruction' = i
       /\ pending' = PendingAfter(i)
  /\ chunkIndex' = chunkIndex + 1
  /\ failureDomain' = "runner"
  /\ UNCHANGED <<pc, policy, benchmark, policyActive, exc, executionLimit, terminal, blame, run>>

\* benchmark.step returns at the task maximum without ending the episode.
StepOverrunsMaximum ==
  /\ pc = "loop"
  /\ ~NeedsPrediction
  /\ stepIndex + 1 >= MaximumSteps
  /\ \E i \in Instructions : RecordStep(i)
  /\ Raise("benchmark", "runner")
  /\ UNCHANGED <<policy, benchmark, run>>

\* benchmark.step ends the episode (BenchmarkAdapter.step: READY again), with
\* or without a last observation.
StepEndsEpisode ==
  /\ pc = "loop"
  /\ ~NeedsPrediction
  /\ \/ \E i \in Instructions : RecordStep(i)
     \/ RecordLastStep
  /\ benchmark' = "ready"
  /\ terminal' \in {"success", "failure", "time_limit"}
  /\ failureDomain' = "runner"
  /\ pc' = "ending"
  /\ UNCHANGED <<policy, policyActive, exc, pending, chunkIndex, executionLimit, instruction,
                 blame, run>>

StepFails ==
  /\ pc = "loop"
  /\ ~NeedsPrediction
  /\ Raise("benchmark", "benchmark")
  /\ UNCHANGED <<policy, benchmark, recorder, run>>

\* policy.end_episode(context) on the way out of a finished episode.
EndEpisode ==
  /\ pc = "ending"
  /\ policy = "episode_active"
  /\ policy' = "ready"
  /\ pc' = "ended"
  /\ UNCHANGED <<benchmark, locals, recorder, run>>

\* Faulty: the failure is swallowed as it is in the except clauses.
EndEpisodeFailureIgnored ==
  /\ pc = "ending"
  /\ pc' = "ended"
  /\ UNCHANGED <<policy, benchmark, locals, recorder, run>>

EndEpisodeFails ==
  /\ pc = "ending"
  /\ Raise("policy", "runner")
  /\ UNCHANGED <<policy, benchmark, recorder, run>>

\* policy_active = False; return _finalize(recorder, terminal), None
ReturnClean ==
  /\ pc = "ended"
  /\ pc' = "idle"
  /\ policyActive' = FALSE
  /\ outcome' = [status |-> terminal, error |-> "none"]
  /\ UNCHANGED <<policy, benchmark, failureDomain, exc, pending, chunkIndex, executionLimit,
                 instruction, terminal, blame, recorder, mode, episode, interrupts, entry>>

-----------------------------------------------------------------------------
(* The except clauses.                                                     *)

\* _safe_end(policy, context): any Exception of the hook is swallowed.
SafeEnd ==
  /\ pc = "safe_end"
  /\ pc' = "safe_abort"
  /\ IF policyActive /\ policy = "episode_active"
     THEN policy' \in {"ready", "episode_active"}
     ELSE UNCHANGED policy
  /\ UNCHANGED <<benchmark, locals, recorder, run>>

\* Faulty: the handler is run again until the benchmark is released.
SafeAbortRetried ==
  /\ pc = "safe_abort"
  /\ IF benchmark = "episode_active"
     THEN benchmark' \in {"ready", "episode_active"}
     ELSE UNCHANGED benchmark
  /\ pc' = IF benchmark' = "ready" THEN "finalize" ELSE "safe_end"
  /\ UNCHANGED <<policy, locals, recorder, run>>

\* _safe_abort(benchmark): likewise.
SafeAbort ==
  /\ pc = "safe_abort"
  /\ pc' = "finalize"
  /\ IF benchmark = "episode_active"
     THEN benchmark' \in {"ready", "episode_active"}
     ELSE UNCHANGED benchmark
  /\ UNCHANGED <<policy, locals, recorder, run>>

\* The terminal status of an episode that raised.
ErrorStatus ==
  CASE exc = "interrupt" -> "aborted"
    [] exc = "exception" /\ failureDomain \in {"policy", "runner"} -> "policy_error"
    [] OTHER -> "benchmark_error"

\* return _finalize(recorder, status), exc
ReturnFailed ==
  /\ pc = "finalize"
  /\ pc' = "idle"
  /\ outcome' = [status |-> ErrorStatus, error |-> exc]
  /\ UNCHANGED <<policy, benchmark, locals, recorder, mode, episode, interrupts, entry>>

-----------------------------------------------------------------------------
(* Signals.                                                                *)

Interrupt ==
  /\ pc \in TryPcs
  /\ interrupts < MaxInterrupts
  /\ interrupts' = interrupts + 1
  /\ Caught("interrupt")
  /\ UNCHANGED <<policy, benchmark, policyActive, failureDomain, pending, chunkIndex,
                 executionLimit, instruction, terminal, blame, recorder, mode, outcome, episode,
                 entry>>

\* The except clauses of _safe_end and _safe_abort name Exception only: a
\* signal here leaves execute_episode without a trace.
InterruptHandler ==
  /\ pc \in HandlerPcs
  /\ interrupts < MaxInterrupts
  /\ interrupts' = interrupts + 1
  /\ pc' = "idle"
  /\ outcome' = [status |-> "none", error |-> "interrupt"]
  /\ UNCHANGED <<policy, benchmark, locals, recorder, mode, episode, entry>>

-----------------------------------------------------------------------------
Init ==
  /\ mode \in Modes
  /\ pc = "idle"
  /\ policy = "ready"
  /\ benchmark = "ready"
  /\ policyActive = FALSE
  /\ failureDomain = "runner"
  /\ exc = "none"
  /\ pending = 0
  /\ chunkIndex = 0
  /\ executionLimit = 0
  /\ instruction = InitialInstruction
  /\ terminal = "none"
  /\ contexts = 0
  /\ observed = <<>>
  /\ predictions = <<>>
  /\ executed = <<>>
  /\ outcome = [status |-> "none", error |-> "none"]
  /\ episode = 0
  /\ interrupts = 0
  /\ blame = "none"
  /\ entry = [policy |-> "ready", benchmark |-> "ready"]

TryBlock ==
  \/ ResetPolicy \/ ResetPolicyFails \/ MarkPolicyActive
  \/ ResetBenchmark \/ ResetBenchmarkFails
  \/ Predict \/ PredictFails
  \/ Step \/ StepOverrunsMaximum \/ StepEndsEpisode \/ StepFails
  \/ EndEpisode \/ EndEpisodeFails \/ ReturnClean

Handlers == SafeEnd \/ SafeAbort \/ ReturnFailed

Next == Begin \/ TryBlock \/ Handlers \/ Interrupt \/ InterruptHandler

\* One synchronous thread executes the episode, and every hook returns or
\* raises (the remote policy client has a request timeout): the code between
\* two signals does not stop.  Neither a new episode nor a signal is owed.
Spec == Init /\ [][Next]_vars /\ WF_vars(TryBlock \/ Handlers)

-----------------------------------------------------------------------------
(* Invariants.                                                             *)

Prediction == [horizon: 1..MaximumHorizon, step: Nat]
Action == [prediction: Nat \ {0}, offset: Nat]
Outcome == [status: {"none", "success", "failure", "time_limit", "policy_error",
                     "benchmark_error", "aborted"},
            error: {"none", "exception", "interrupt"}]

\* Every variable of the execution loop and of the recorder has its type.
TypeOK ==
  /\ mode \in Modes
  /\ pc \in {"idle"} \union TryPcs \union HandlerPcs
  /\ policy \in AdapterState
  /\ benchmark \in AdapterState
  /\ policyActive \in BOOLEAN
  /\ failureDomain \in {"runner", "policy", "benchmark"}
  /\ exc \in {"none", "exception", "interrupt"}
  /\ pending \in Nat
  /\ chunkIndex \in Nat
  /\ executionLimit \in Nat
  /\ instruction \in Instructions
  /\ terminal \in {"none", "success", "failure", "time_limit"}
  /\ contexts \in Nat
  /\ observed \in Seq(Instructions)
  /\ predictions \in Seq(Prediction)
  /\ executed \in Seq(Action)
  /\ outcome \in Outcome
  /\ episode \in Nat
  /\ interrupts \in Nat
  /\ blame \in {"none", "policy", "benchmark", "plan"}
  /\ entry \in [policy: AdapterState, benchmark: AdapterState]

MadeAtStep(a) == predictions[a.prediction].step
HorizonOf(a) == predictions[a.prediction].horizon

\* An executed action was predicted from an observation carrying the
\* instruction in force at the step that executed it: a chunk never outlives a
\* change of instruction (execution.py, the pending_step_instruction test).
ExecutesCurrentInstruction ==
  \A k \in 1..Len(executed) : observed[MadeAtStep(executed[k]) + 1] = observed[k]

\* The actions of a chunk are executed in order from offset 0, without a gap,
\* never past the horizon, and no prediction is skipped or returned to: what
\* the recorder's chunk audit reports as executed is a prefix of every chunk.
ChunksExecutedAsPrefixes ==
  \A k \in 1..Len(executed) :
    LET a == executed[k] IN
    /\ a.prediction \in 1..Len(predictions)
    /\ a.offset < HorizonOf(a)
    /\ IF a.offset = 0
       THEN a.prediction = IF k = 1 THEN 1 ELSE executed[k - 1].prediction + 1
       ELSE k > 1 /\ executed[k - 1] = [prediction |-> a.prediction, offset |-> a.offset - 1]

\* A chunk is left before its execution limit only for a new instruction, and
\* is never executed past the limit.
ReplansExactlyWhenDue ==
  \A k \in 1..Len(executed) :
    LET a == executed[k] IN
    /\ a.offset < Limit(HorizonOf(a))
    /\ k < Len(executed) /\ executed[k + 1].prediction # a.prediction =>
         \/ a.offset + 1 = Limit(HorizonOf(a))
         \/ observed[k + 1] # observed[MadeAtStep(a) + 1]

\* No step is predicted twice: the policy service refuses a repeated step_id
\* (service.py, _seen_steps), so a second prediction for one step would fail.
OnePredictionPerStep ==
  \A j \in 1..Len(predictions), k \in 1..Len(predictions) :
    j < k => predictions[j].step < predictions[k].step

\* The checks of EpisodeRecorder.record_step and record_prediction never
\* refuse the execution loop: when it is about to predict or to act, the
\* newest recorded context is the current step and has no action yet, and the
\* action's prediction is recorded.
RecorderNeverRefuses ==
  pc = "loop" =>
    /\ contexts = Len(executed) + 1
    /\ instruction = observed[contexts]
    /\ ~NeedsPrediction => pending = Len(predictions) /\ chunkIndex < predictions[pending].horizon

\* What the recorder is given is what happened: chunk by chunk a prefix, in
\* order, and nothing it refuses.
ExecutionIsRecorded == ChunksExecutedAsPrefixes /\ RecorderNeverRefuses

\* A policy failure is never charged to the benchmark, and a benchmark_error
\* trace always stands for a failure of the benchmark.
FailuresAttributed ==
  pc = "idle" /\ outcome.error = "exception" =>
    /\ blame = "policy" => outcome.status = "policy_error"
    /\ outcome.status = "benchmark_error" => blame = "benchmark"

\* Every call of execute_episode ends with the outcome and the adapter states
\* the runner relies on: the detailed loop implements EpisodeContract.
ImplementsContract == Contract!ContractSpec

\* Whatever the benchmark and the policy answer, a call of execute_episode ends.
EveryEpisodeEnds == pc # "idle" ~> pc = "idle"
=============================================================================
