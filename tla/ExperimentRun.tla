--------------------------- MODULE ExperimentRun ---------------------------
(***************************************************************************)
(* One benchmark run: ExperimentRunner.connect, run and close of           *)
(* ovlab-runner, the FilesystemRunArtifactStore it writes to, and the      *)
(* finally block of the command line that owns the runner.                 *)
(*                                                                         *)
(* Every write of the store is a step of its own, so every state is also   *)
(* what a killed process leaves behind.  Between two steps a write may     *)
(* raise (a full disk, a refused permission, a failing encoder) and        *)
(* SIGINT or SIGTERM may raise KeyboardInterrupt.  execute_episode is      *)
(* replaced by what EpisodeContract says of it.  File contents, metric     *)
(* values and names are left out: a directory is the set of its files.     *)
(***************************************************************************)
EXTENDS Naturals, FiniteSets, Sequences

CONSTANTS
  TaskCount,      \* selected tasks of the plan
  RolloutCount,   \* plan.rollout_count_per_task
  ErrorPolicies,  \* the EpisodeErrorPolicy values a plan may choose from
  MaxFaults,      \* bound: hooks and writes that raise
  MaxInterrupts   \* bound: signals received

AllErrorPolicies == {"stop_run", "continue_task", "continue_run"}

ASSUME RunAssumption ==
  /\ TaskCount \in Nat \ {0}
  /\ RolloutCount \in Nat \ {0}
  /\ ErrorPolicies \subseteq AllErrorPolicies
  /\ MaxFaults \in Nat
  /\ MaxInterrupts \in Nat

Tasks == 1..TaskCount
Rollouts == 1..RolloutCount
Episodes == Tasks \X Rollouts

VARIABLES
  errorPolicy,     \* plan.episode_error_policy
  pc,              \* where the process is
  state,           \* ExperimentRunner.state
  caller,          \* who called _close_resources: the "runner" itself or the "cli"
  task, rollout,   \* loop variables of run
  error,           \* error execute_episode returned
  raised,          \* exception on its way out of connect or run
  policy,          \* AdapterState of the policy adapter
  benchmark,       \* AdapterState of the benchmark adapter
  resourcesClosed, \* ExperimentRunner._resources_closed
  closeRaised,     \* policy.close() of the current _close_resources raised
  episodeCount,    \* local episode_count
  manifest,        \* the final manifest being published
  pendingVideos,   \* episode directories generate_canonical_videos has not reached
  runFiles,        \* files at the top of the run directory
  taskMetrics,     \* tasks with a metrics.task.json
  directory,       \* the directory of each episode
  episodeFiles,    \* and the files in it
  sealed,          \* what integrity.json lists
  verdicts,        \* history: what became of each episode
  faults,          \* number of failures so far
  interrupts,      \* number of signals so far
  unsettled,       \* history: the making or publication of a final manifest was disturbed
  closingTrouble,  \* history: something was raised while closing the adapters
  benchmarkTrouble \* history: how often benchmark.close() failed, or a signal spared it

loop == <<errorPolicy, task, rollout, error, episodeCount, verdicts>>
troubles == <<closingTrouble, benchmarkTrouble>>
closing == <<resourcesClosed, closeRaised, caller, troubles>>
adapters == <<policy, benchmark, closing>>
tree == <<taskMetrics, directory>>
files == <<runFiles, tree, episodeFiles>>
final == <<manifest, pendingVideos, sealed>>
counters == <<faults, interrupts>>
vars == <<pc, state, raised, loop, adapters, files, final, counters, unsettled>>

Contract == INSTANCE EpisodeContract WITH
  phase <- "idle", outcome <- [status |-> "none", error |-> "none"]

episode == <<task, rollout>>

FirstFiles == <<"manifest.started.json", "source_config.yaml", "resolved_config.yaml",
                "plan.json", "connection.json">>
EpisodeFileNames == {"trace.json", "trace.finalized.json", "metrics.episode.json",
                     "metadata.json", "finalized.json", "video.json"}
FinalNames == {"manifest.completed.json", "manifest.failed.json"}
StagingNames == {"manifest.completed.json.tmp", "manifest.failed.json.tmp"}

NoManifest == [status |-> "none", episodes |-> 0]
ManifestName == IF manifest.status = "completed" THEN "manifest.completed.json"
                ELSE "manifest.failed.json"
StagingName == IF manifest.status = "completed" THEN "manifest.completed.json.tmp"
               ELSE "manifest.failed.json.tmp"

\* What a walk of the run directory lists, integrity.json and *.tmp left out.
Inventory == [run |-> runFiles \ (StagingNames \union {"integrity.json"}),
              tasks |-> taskMetrics, directories |-> directory, episodes |-> episodeFiles]

ConnectPcs == {"initialize_benchmark", "initialize_policy", "negotiate", "describe", "artifacts"}
EpisodePcs == {"make_partial", "write_trace", "mark_trace", "rename", "metrics", "metadata",
               "finish_episode"}
LoopPcs == EpisodePcs \union {"count", "judge", "aggregate", "postprocess_task", "manifest"}
WritePcs == {"videos", "report", "integrity", "stage", "publish"}
FinalPcs == WritePcs \union {"finalize", "cleanup", "published", "postprocess_run"}
ClosePcs == {"close_progress", "close_policy", "close_benchmark", "cli_finally"}

-----------------------------------------------------------------------------
(* connect                                                                 *)

InitializeBenchmark ==
  /\ pc = "initialize_benchmark"
  /\ benchmark' = "ready"
  /\ pc' = "initialize_policy"
  /\ UNCHANGED <<state, raised, loop, policy, closing, files, final, counters, unsettled>>

InitializePolicy ==
  /\ pc = "initialize_policy"
  /\ policy' = "ready"
  /\ pc' = "negotiate"
  /\ UNCHANGED <<state, raised, loop, benchmark, closing, files, final, counters, unsettled>>

\* Capabilities, tasks and metrics fit together.
Negotiate ==
  /\ pc = "negotiate"
  /\ pc' = "describe"
  /\ UNCHANGED <<state, raised, loop, adapters, files, final, counters, unsettled>>

\* What manifest.started.json says: the provenance is collected and the adapters
\* are asked for their metadata, outside of both try blocks.
DescribeRun ==
  /\ pc = "describe"
  /\ pc' = "artifacts"
  /\ UNCHANGED <<state, raised, loop, adapters, files, final, counters, unsettled>>

\* create_run, write_configuration, write_plan, write_connection_report.
WriteFirstFiles ==
  /\ pc = "artifacts"
  /\ \E n \in 1..Len(FirstFiles) :
       /\ \A k \in 1..Len(FirstFiles) : FirstFiles[k] \in runFiles <=> k < n
       /\ runFiles' = runFiles \union {FirstFiles[n]}
       /\ IF n = Len(FirstFiles)
          THEN pc' = "connected" /\ state' = "connected"
          ELSE UNCHANGED <<pc, state>>
  /\ UNCHANGED <<raised, loop, adapters, tree, episodeFiles, final, counters, unsettled>>

-----------------------------------------------------------------------------
(* run: the loops over tasks and rollouts                                  *)

StartRun ==
  /\ pc = "connected"
  /\ pc' = "episode"
  /\ state' = "running"
  /\ UNCHANGED <<raised, loop, adapters, files, final, counters, unsettled>>

\* execute_episode returns a trace and an error, or a signal escapes from it.
ExecuteEpisode ==
  /\ pc = "episode"
  /\ \E r \in Contract!Results(policy, benchmark) :
       /\ IF r.outcome.error = "interrupt"
          THEN interrupts < MaxInterrupts /\ interrupts' = interrupts + 1
          ELSE UNCHANGED interrupts
       /\ IF r.outcome \in Contract!Escaped
          THEN pc' = "except" /\ raised' = "interrupt" /\ UNCHANGED error
          ELSE pc' = "make_partial" /\ error' = r.outcome.error /\ UNCHANGED raised
       /\ policy' = r.policy
       /\ benchmark' = r.benchmark
  /\ verdicts' = [verdicts EXCEPT ![episode] = "started"]
  /\ UNCHANGED <<state, errorPolicy, task, rollout, episodeCount, closing, files,
                 final, faults, unsettled>>

\* write_episode_trace: the trace is encoded into <episode>.partial ...
MakePartial ==
  /\ pc = "make_partial"
  /\ directory' = [directory EXCEPT ![episode] = "partial"]
  /\ pc' = "write_trace"
  /\ UNCHANGED <<state, raised, loop, adapters, runFiles, taskMetrics, episodeFiles, final,
                 counters, unsettled>>

\* One file of the episode directory is written, then control goes on at next.
WriteEpisodeFile(at, name, next) ==
  /\ pc = at
  /\ episodeFiles' = [episodeFiles EXCEPT ![episode] = @ \union {name}]
  /\ pc' = next
  /\ UNCHANGED <<state, raised, loop, adapters, runFiles, tree, final, counters, unsettled>>

WriteTrace == WriteEpisodeFile("write_trace", "trace.json", "mark_trace")
MarkTrace == WriteEpisodeFile("mark_trace", "trace.finalized.json", "rename")

\* ... and renamed to its final name.
RenameEpisode ==
  /\ pc = "rename"
  /\ directory' = [directory EXCEPT ![episode] = "episode"]
  /\ pc' = "count"
  /\ UNCHANGED <<state, raised, loop, adapters, runFiles, taskMetrics, episodeFiles, final,
                 counters, unsettled>>

CountEpisode ==
  /\ pc = "count"
  /\ episodeCount' = episodeCount + 1
  /\ pc' = "metrics"
  /\ UNCHANGED <<state, raised, errorPolicy, task, rollout, error, verdicts, adapters, files,
                 final, counters, unsettled>>

\* _evaluate and write_episode_metric_results.
WriteMetrics == WriteEpisodeFile("metrics", "metrics.episode.json", "metadata")
WriteMetadata == WriteEpisodeFile("metadata", "metadata.json", "finish_episode")
FinishEpisode == WriteEpisodeFile("finish_episode", "finalized.json", "judge")

\* The next rollout of the task, or the task's aggregation.
NextRollout ==
  IF rollout < RolloutCount
  THEN pc' = "episode" /\ rollout' = rollout + 1
  ELSE pc' = "aggregate" /\ UNCHANGED rollout

RaiseInRun(kind) ==
  /\ pc' = "except"
  /\ raised' = kind
  /\ UNCHANGED rollout

\* Faulty: a failed episode under stop_run only ends its task.
AfterEpisodeStopsTask(failed) ==
  \/ ~failed /\ NextRollout /\ UNCHANGED raised
  \/ failed /\ error = "interrupt" /\ RaiseInRun("interrupt")
  \/ failed /\ error # "interrupt" /\ errorPolicy \in {"stop_run", "continue_run"}
       /\ pc' = "aggregate" /\ UNCHANGED <<rollout, raised>>
  \/ failed /\ error # "interrupt" /\ errorPolicy = "continue_task"
       /\ NextRollout /\ UNCHANGED raised

\* The error policy decides what follows an episode that failed, or one whose
\* required metrics did.
AfterEpisode(failed) ==
  \/ ~failed /\ NextRollout /\ UNCHANGED raised
  \/ failed /\ error = "interrupt" /\ RaiseInRun("interrupt")
  \/ failed /\ error # "interrupt" /\ errorPolicy = "stop_run" /\ RaiseInRun("exception")
  \/ failed /\ error # "interrupt" /\ errorPolicy = "continue_run"
       /\ pc' = "aggregate" /\ UNCHANGED <<rollout, raised>>
  \/ failed /\ error # "interrupt" /\ errorPolicy = "continue_task"
       /\ NextRollout /\ UNCHANGED raised

JudgeEpisode ==
  /\ pc = "judge"
  /\ \E requiredError \in BOOLEAN :
       LET failed == error # "none" \/ requiredError IN
       /\ AfterEpisode(failed)
       /\ verdicts' = [verdicts EXCEPT ![episode] = IF failed THEN "failed" ELSE "ok"]
  /\ UNCHANGED <<state, errorPolicy, task, error, episodeCount, adapters, files, final, counters,
                 unsettled>>

\* _aggregate_task and write_task_metric_results.
WriteTaskMetrics ==
  /\ pc = "aggregate"
  /\ taskMetrics' = taskMetrics \union {task}
  /\ pc' = "postprocess_task"
  /\ UNCHANGED <<state, raised, loop, adapters, runFiles, directory, episodeFiles, final, counters,
                 unsettled>>

\* Faulty: the last task is left out; one task too many.
LastTaskTooEarly == task + 1 >= TaskCount
LastTask == task = TaskCount

\* A failing postprocessor only warns; then the next task, or the end.
PostprocessTask ==
  /\ pc = "postprocess_task"
  /\ IF LastTask
     THEN pc' = "manifest" /\ UNCHANGED <<task, rollout>>
     ELSE pc' = "episode" /\ task' = task + 1 /\ rollout' = 1
  /\ UNCHANGED <<state, raised, errorPolicy, error, episodeCount, verdicts, adapters, files, final,
                 counters, unsettled>>

\* completed = self._final_manifest("completed", ...)
MakeCompletedManifest ==
  /\ pc = "manifest"
  /\ manifest' = [status |-> "completed", episodes |-> episodeCount]
  /\ pc' = "finalize"
  /\ UNCHANGED <<state, raised, loop, adapters, files, pendingVideos, sealed, counters, unsettled>>

-----------------------------------------------------------------------------
(* FilesystemRunArtifactStore._final_manifest: finalize_run while the      *)
(* manifest's status is "completed", mark_run_failed otherwise.            *)

\* run's except block: mark_run_failed swallows every Exception.
InExceptBlock == pc = "except" \/ manifest.status \in {"failed", "aborted"}

\* Faulty: the other manifest's presence is not looked for.
RefusesToFinalizeAgainstOwnName ==
  ManifestName \in runFiles \/ StagingName \in runFiles

\* "run already finalized", "partial final manifest already exists"
RefusesToFinalize == FinalNames \intersect runFiles # {} \/ StagingName \in runFiles

\* The exception leaves _final_manifest.
LeaveFinalization ==
  IF InExceptBlock
  THEN pc' = "close_progress" /\ UNCHANGED raised
  ELSE pc' = "except" /\ raised' = "exception"

EnterFinalization ==
  /\ pc = "finalize"
  /\ IF RefusesToFinalize
     THEN LeaveFinalization /\ UNCHANGED pendingVideos
     ELSE /\ pc' = "videos"
          /\ pendingVideos' = {e \in Episodes : directory[e] # "absent"}
          /\ UNCHANGED raised
  /\ UNCHANGED <<state, loop, adapters, files, manifest, sealed, counters, unsettled>>

\* generate_canonical_videos decodes every directory below episodes/, the
\* .partial ones too, and refuses to replace a video.
Encodable(e) == "trace.json" \in episodeFiles[e] /\ "video.json" \notin episodeFiles[e]

GenerateVideo ==
  /\ pc = "videos"
  /\ \E e \in pendingVideos :
       IF Encodable(e)
       THEN /\ episodeFiles' = [episodeFiles EXCEPT ![e] = @ \union {"video.json"}]
            /\ pendingVideos' = pendingVideos \ {e}
            /\ UNCHANGED pc
       ELSE pc' = "cleanup" /\ UNCHANGED <<episodeFiles, pendingVideos>>
  /\ UNCHANGED <<state, raised, loop, adapters, runFiles, tree, manifest, sealed, counters,
                 unsettled>>

VideosDone ==
  /\ pc = "videos"
  /\ pendingVideos = {}
  /\ pc' = "report"
  /\ UNCHANGED <<state, raised, loop, adapters, files, final, counters, unsettled>>

\* A file of the run directory that must not exist yet.
WriteNewFile(at, name, next) ==
  /\ pc = at
  /\ IF name \in runFiles
     THEN pc' = "cleanup" /\ UNCHANGED runFiles
     ELSE pc' = next /\ runFiles' = runFiles \union {name}
  /\ UNCHANGED <<state, raised, loop, adapters, tree, episodeFiles, manifest, pendingVideos,
                 counters, unsettled>>

WriteReport == WriteNewFile("report", "reports", "integrity") /\ UNCHANGED sealed

\* integrity_document lists the tree and, as a virtual file, the manifest.
WriteIntegrity ==
  /\ WriteNewFile("integrity", "integrity.json", "stage")
  /\ sealed' = [Inventory EXCEPT !.run = @ \union {ManifestName}]

\* temporary.write_bytes(encoded)
StageManifest ==
  /\ pc = "stage"
  /\ runFiles' = runFiles \union {StagingName}
  /\ pc' = "publish"
  /\ UNCHANGED <<state, raised, loop, adapters, tree, episodeFiles, final, counters, unsettled>>

\* finalize_managed_tree, then temporary.replace(path / name)
PublishManifest ==
  /\ pc = "publish"
  /\ runFiles' = (runFiles \ {StagingName}) \union {ManifestName}
  /\ pc' = "published"
  /\ UNCHANGED <<state, raised, loop, adapters, tree, episodeFiles, final, counters, unsettled>>

\* remove_generated_outputs
Cleaned == [e \in Episodes |-> episodeFiles[e] \ {"video.json"}]

\* Faulty: mark_run_failed is retried until it succeeds.
CleanUpAndRetry ==
  /\ pc = "cleanup"
  /\ runFiles' = runFiles \ {StagingName, "reports", "integrity.json"}
  /\ episodeFiles' = Cleaned
  /\ IF InExceptBlock
     THEN pc' = "finalize" /\ UNCHANGED raised
     ELSE pc' = "except" /\ raised' = "exception"
  /\ UNCHANGED <<state, loop, adapters, tree, final, counters, unsettled>>

\* except Exception: the staging file and everything generated are removed.
CleanUp ==
  /\ pc = "cleanup"
  /\ runFiles' = runFiles \ {StagingName, "reports", "integrity.json"}
  /\ episodeFiles' = Cleaned
  /\ LeaveFinalization
  /\ UNCHANGED <<state, loop, adapters, tree, final, counters, unsettled>>

\* self.state = COMPLETED, on the way out of finalize_run.
Published ==
  /\ pc = "published"
  /\ pc' = "postprocess_run"
  /\ state' = IF InExceptBlock THEN state ELSE "completed"
  /\ UNCHANGED <<raised, loop, adapters, files, final, counters, unsettled>>

PostprocessRun ==
  /\ pc = "postprocess_run"
  /\ pc' = "close_progress"
  /\ UNCHANGED <<state, raised, loop, adapters, files, final, counters, unsettled>>

-----------------------------------------------------------------------------
(* The except block, the finally blocks.                                   *)

\* Faulty: a signal is reported like any other exception.
StatusOfFailed(kind) == "failed"

StatusOf(kind) == IF kind = "interrupt" THEN "aborted" ELSE "failed"

HandleException ==
  /\ pc = "except"
  /\ state' = StatusOf(raised)
  /\ manifest' = [status |-> StatusOf(raised), episodes |-> episodeCount]
  /\ pc' = "finalize"
  /\ UNCHANGED <<raised, loop, adapters, files, pendingVideos, sealed, counters, unsettled>>

\* finally: progress.close swallows what its output raises; then the adapters.
CloseProgress ==
  /\ pc = "close_progress"
  /\ pc' = "close_policy"
  /\ UNCHANGED <<state, raised, loop, adapters, files, final, counters, unsettled>>

\* _close_resources: a closed adapter's close() does nothing.
ClosePolicy ==
  /\ pc = "close_policy"
  /\ policy' = "closed"
  /\ closeRaised' = FALSE
  /\ pc' = "close_benchmark"
  /\ UNCHANGED <<state, raised, loop, benchmark, resourcesClosed, caller, troubles, files,
                 final, counters, unsettled>>

\* Control returns to whoever called _close_resources.
LeaveClosing ==
  pc' = IF caller = "runner" THEN "cli_finally" ELSE "exited"

\* finally: self.benchmark.close(); the resources count as closed only when
\* policy.close() returned, too.
CloseBenchmark ==
  /\ pc = "close_benchmark"
  /\ benchmark' = "closed"
  /\ resourcesClosed' = ~closeRaised
  /\ state' = IF caller = "cli" /\ ~closeRaised THEN "closed" ELSE state
  /\ LeaveClosing
  /\ UNCHANGED <<raised, loop, policy, closeRaised, caller, troubles, files, final, counters,
                 unsettled>>

\* runner.close() of the command line.
CloseRunner ==
  /\ pc = "cli_finally"
  /\ caller' = "cli"
  /\ IF resourcesClosed
     THEN pc' = "exited" /\ state' = "closed"
     ELSE pc' = "close_policy" /\ UNCHANGED state
  /\ UNCHANGED <<raised, loop, policy, benchmark, resourcesClosed, closeRaised, troubles,
                 files, final, counters, unsettled>>

-----------------------------------------------------------------------------
(* Failures.                                                               *)

Fault ==
  /\ faults < MaxFaults
  /\ faults' = faults + 1
  /\ UNCHANGED interrupts

\* connect closes the adapters itself ...
ConnectFails ==
  /\ pc \in ConnectPcs \ {"describe"}
  /\ Fault
  /\ pc' = "close_policy"
  /\ state' = "failed"
  /\ raised' = "exception"
  /\ UNCHANGED <<loop, adapters, files, final, unsettled>>

\* ... but not when the run cannot be described: its state stays CREATED.
DescribeFails ==
  /\ pc = "describe"
  /\ Fault
  /\ pc' = "cli_finally"
  /\ raised' = "exception"
  /\ UNCHANGED <<state, loop, adapters, files, final, unsettled>>

\* A failing write or metric leaves the loops, and so does metadata that an
\* adapter fails to give for the final manifest.
WriteFailure == pc' = "except" /\ raised' = "exception"

WriteFails ==
  /\ pc \in EpisodePcs \union {"aggregate", "manifest"}
  /\ Fault
  /\ WriteFailure
  /\ UNCHANGED <<state, loop, adapters, files, final, unsettled>>

FinalizationFails ==
  /\ pc \in WritePcs
  /\ Fault
  /\ pc' = "cleanup"
  /\ unsettled' = (unsettled \/ InExceptBlock)
  /\ UNCHANGED <<state, raised, loop, adapters, files, final>>

\* The metadata fails in the except block: no manifest is made and the new
\* exception leaves run.
HandleExceptionFails ==
  /\ pc = "except"
  /\ Fault
  /\ state' = StatusOf(raised)
  /\ raised' = "exception"
  /\ pc' = "close_progress"
  /\ unsettled' = TRUE
  /\ UNCHANGED <<loop, adapters, files, final>>

\* benchmark.close() is called all the same.
AfterPolicyClose == pc' = "close_benchmark"

ClosePolicyFails ==
  /\ pc = "close_policy"
  /\ policy # "closed"
  /\ Fault
  /\ raised' = "exception"
  /\ closingTrouble' = TRUE
  /\ closeRaised' = TRUE
  /\ AfterPolicyClose
  /\ UNCHANGED <<state, loop, policy, benchmark, resourcesClosed, caller, benchmarkTrouble,
                 files, final, unsettled>>

CloseBenchmarkFails ==
  /\ pc = "close_benchmark"
  /\ benchmark # "closed"
  /\ Fault
  /\ raised' = "exception"
  /\ closingTrouble' = TRUE
  /\ benchmarkTrouble' = benchmarkTrouble + 1
  /\ LeaveClosing
  /\ UNCHANGED <<state, loop, policy, benchmark, resourcesClosed, closeRaised, caller, files, final,
                 unsettled>>

Failures == ConnectFails \/ DescribeFails \/ WriteFails \/ FinalizationFails
            \/ HandleExceptionFails \/ ClosePolicyFails \/ CloseBenchmarkFails

-----------------------------------------------------------------------------
(* Signals.                                                                *)

Signal ==
  /\ interrupts < MaxInterrupts
  /\ interrupts' = interrupts + 1
  /\ raised' = "interrupt"
  /\ UNCHANGED faults

\* connect handles Exception only: its state stays CREATED.
InterruptConnect ==
  /\ pc \in ConnectPcs \union {"connected"}
  /\ Signal
  /\ pc' = "cli_finally"
  /\ UNCHANGED <<state, loop, adapters, files, final, unsettled>>

InterruptRun ==
  /\ pc \in LoopPcs \union FinalPcs
  /\ ~InExceptBlock
  /\ Signal
  /\ pc' = "except"
  /\ unsettled' = (unsettled \/ pc \in FinalPcs)
  /\ UNCHANGED <<state, loop, adapters, files, final>>

\* Out of the except block into the finally block.
InterruptExceptBlock ==
  /\ InExceptBlock
  /\ pc \in FinalPcs \union {"except"}
  /\ Signal
  /\ pc' = "close_progress"
  /\ unsettled' = TRUE
  /\ UNCHANGED <<state, loop, adapters, files, final>>

\* A signal before _close_resources skips it; one in policy.close() does not
\* spare benchmark.close().
InterruptClosing ==
  /\ pc \in ClosePcs
  /\ Signal
  /\ closingTrouble' = TRUE
  /\ benchmarkTrouble' = IF pc = "close_policy" THEN benchmarkTrouble ELSE benchmarkTrouble + 1
  /\ closeRaised' = TRUE
  /\ CASE pc = "close_policy" -> pc' = "close_benchmark"
       [] pc \in {"close_progress", "close_benchmark"} -> LeaveClosing
       [] pc = "cli_finally" -> pc' = "exited"
  /\ UNCHANGED <<state, loop, policy, benchmark, resourcesClosed, caller, files, final, unsettled>>

Signals == InterruptConnect \/ InterruptRun \/ InterruptExceptBlock \/ InterruptClosing

-----------------------------------------------------------------------------
Init ==
  /\ errorPolicy \in ErrorPolicies
  /\ pc = "initialize_benchmark"
  /\ state = "created"
  /\ caller = "runner"
  /\ task = 1
  /\ rollout = 1
  /\ error = "none"
  /\ raised = "none"
  /\ policy = "created"
  /\ benchmark = "created"
  /\ resourcesClosed = FALSE
  /\ closeRaised = FALSE
  /\ episodeCount = 0
  /\ manifest = NoManifest
  /\ pendingVideos = {}
  /\ runFiles = {}
  /\ taskMetrics = {}
  /\ directory = [e \in Episodes |-> "absent"]
  /\ episodeFiles = [e \in Episodes |-> {}]
  /\ sealed = Inventory
  /\ verdicts = [e \in Episodes |-> "none"]
  /\ faults = 0
  /\ interrupts = 0
  /\ unsettled = FALSE
  /\ closingTrouble = FALSE
  /\ benchmarkTrouble = 0

Connecting ==
  InitializeBenchmark \/ InitializePolicy \/ Negotiate \/ DescribeRun \/ WriteFirstFiles

Looping ==
  \/ StartRun \/ ExecuteEpisode
  \/ MakePartial \/ WriteTrace \/ MarkTrace \/ RenameEpisode \/ CountEpisode
  \/ WriteMetrics \/ WriteMetadata \/ FinishEpisode \/ JudgeEpisode
  \/ WriteTaskMetrics \/ PostprocessTask \/ MakeCompletedManifest

Finalizing ==
  \/ EnterFinalization \/ GenerateVideo \/ VideosDone \/ WriteReport \/ WriteIntegrity
  \/ StageManifest \/ PublishManifest \/ CleanUp \/ Published \/ PostprocessRun
  \/ HandleException

Closing == CloseProgress \/ ClosePolicy \/ CloseBenchmark \/ CloseRunner

Progress == Connecting \/ Looping \/ Finalizing \/ Closing

Next == Progress \/ Failures \/ Signals

\* One synchronous thread: between failures and signals, of which there are
\* finitely many, the program runs on.
Spec == Init /\ [][Next]_vars /\ WF_vars(Progress)

-----------------------------------------------------------------------------
(* Properties.                                                             *)

AdapterState == {"created", "ready", "episode_active", "closed"}
Attempted == {e \in Episodes : verdicts[e] # "none"}
FinalManifests == FinalNames \intersect runFiles
CanonicalFiles == EpisodeFileNames \ {"video.json"}

\* Every variable of the runner and of the run directory has its type.
TypeOK ==
  /\ errorPolicy \in ErrorPolicies
  /\ pc \in ConnectPcs \union LoopPcs \union FinalPcs \union ClosePcs
            \union {"connected", "episode", "except", "exited"}
  /\ state \in {"created", "connected", "running", "completed", "aborted", "failed", "closed"}
  /\ caller \in {"runner", "cli"}
  /\ task \in Tasks
  /\ rollout \in Rollouts
  /\ error \in {"none", "exception", "interrupt"}
  /\ raised \in {"none", "exception", "interrupt"}
  /\ policy \in AdapterState
  /\ benchmark \in AdapterState
  /\ resourcesClosed \in BOOLEAN
  /\ closeRaised \in BOOLEAN
  /\ episodeCount \in Nat
  /\ manifest \in [status: {"none", "completed", "failed", "aborted"}, episodes: Nat]
  /\ pendingVideos \subseteq Episodes
  /\ runFiles \subseteq {FirstFiles[n] : n \in 1..Len(FirstFiles)} \union FinalNames
                        \union StagingNames \union {"reports", "integrity.json"}
  /\ taskMetrics \subseteq Tasks
  /\ directory \in [Episodes -> {"absent", "partial", "episode"}]
  /\ episodeFiles \in [Episodes -> SUBSET EpisodeFileNames]
  /\ verdicts \in [Episodes -> {"none", "started", "ok", "failed"}]
  /\ faults \in Nat
  /\ interrupts \in Nat
  /\ unsettled \in BOOLEAN
  /\ closingTrouble \in BOOLEAN
  /\ benchmarkTrouble \in Nat

\* A published manifest is the only one, and the directory it closes is the one
\* integrity.json lists: nothing was written, replaced or cleaned up between
\* the inventory and the publication, or after it, whatever failed.
FinalManifestSealsRun ==
  FinalManifests # {} =>
    /\ Cardinality(FinalManifests) = 1
    /\ "integrity.json" \in runFiles
    /\ StagingNames \intersect runFiles = {}
    /\ sealed = Inventory
    /\ \A e \in Episodes : directory[e] # "absent" => "video.json" \in episodeFiles[e]

\* Once a final manifest is published no step changes a file of the run, not
\* even the clean-up of a second finalization.
FinalizedRunIsImmutable == [][FinalManifests # {} => UNCHANGED files]_vars

\* A run published as completed holds every file of every episode the runner
\* attempted, the metrics of every task, nothing partial, and counts them right.
CompletedRunIsWhole ==
  "manifest.completed.json" \in runFiles =>
    /\ taskMetrics = Tasks
    /\ \A e \in Attempted : directory[e] = "episode" /\ episodeFiles[e] = EpisodeFileNames
    /\ \A e \in Episodes \ Attempted : directory[e] = "absent"
    /\ episodeCount = Cardinality(Attempted)

\* Whatever stops a run, only the episode it stopped in can lack a finalized
\* trace, metrics or its finalized.json marker.
OnlyLastEpisodeIncomplete ==
  \A e \in Attempted \ {episode} :
    /\ directory[e] = "episode"
    /\ CanonicalFiles \subseteq episodeFiles[e]
    /\ verdicts[e] \in {"ok", "failed"}

\* A completed run is whole, and any other lacks at most what its last episode
\* was still to write.
CompletedMeansComplete == CompletedRunIsWhole /\ OnlyLastEpisodeIncomplete

Earlier(e, f) == e[1] < f[1] \/ (e[1] = f[1] /\ e[2] < f[2])

\* The episodes the error policy calls for, given what failed.
Due(e) ==
  \A f \in Episodes : Earlier(f, e) /\ verdicts[f] = "failed" =>
    \/ errorPolicy = "continue_task"
    \/ (errorPolicy = "continue_run" /\ f[1] # e[1])

\* stop_run attempts nothing after a failure, continue_run leaves only the
\* task, continue_task leaves nothing out; a completed run attempted all of it.
ErrorPolicyRespected ==
  /\ \A e \in Attempted : Due(e)
  /\ "manifest.completed.json" \in runFiles => \A e \in Episodes : Due(e) => e \in Attempted

\* What the caller of run() sees agrees with what the run directory says.
OutcomeAgrees ==
  pc = "exited" /\ Attempted # {} =>
    /\ raised = "none" => "manifest.completed.json" \in runFiles
    /\ "manifest.completed.json" \in runFiles /\ raised # "none" =>
         unsettled \/ closingTrouble
    /\ "manifest.failed.json" \in runFiles /\ ~unsettled /\ ~closingTrouble =>
         raised = IF manifest.status = "aborted" THEN "interrupt" ELSE "exception"

Undecodable(e) == directory[e] = "partial" /\ "trace.json" \notin episodeFiles[e]

\* The only ways to end without a final manifest: a trace torn before its
\* trace.json, or trouble while the manifest was made or published.
MissingManifestExplained ==
  pc = "exited" /\ Attempted # {} /\ FinalManifests = {} =>
    unsettled \/ \E e \in Episodes : Undecodable(e)

\* The simulator is released: a failing policy.close() never leaves the
\* benchmark open, and one close() of its own that failed or that a signal spared
\* does so only when connect, interrupted or unable to describe the run, left the
\* command line's attempt as the only one.
BenchmarkReleased ==
  pc = "exited" /\ benchmark # "closed" =>
    benchmarkTrouble >= 2 \/ (benchmarkTrouble = 1 /\ state \in {"created", "connected"})

\* A run that has ended left its directory and its adapters as it said: the
\* manifest agrees with the outcome, a missing one is explained by what failed,
\* and the simulator is released.
ManifestAgreesWithOutcome == OutcomeAgrees /\ MissingManifestExplained /\ BenchmarkReleased

\* A run ends and gives its caller control back, whatever fails.
RunEnds == pc # "exited" ~> pc = "exited"

-----------------------------------------------------------------------------
(* What the documentation says and the code does not do.                   *)

\* ARCHITECTURE.md:504-505: "Run finalization ... publishes exactly one final
\* manifest."
EveryRunGetsAFinalManifest ==
  pc = "exited" /\ Attempted # {} => FinalManifests # {}
=============================================================================
