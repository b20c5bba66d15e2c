# OVLAB in TLA+

OVLAB evaluates OpenVLA policies on LIBERO. This directory specifies the parts
of it that keep state, fail, run beside each other or decide, checks them with
TLC and proves the most important properties with TLAPS. Paths are relative to
the repository; `RUNNER` is `code/apps/runner/src/ovlab_runner`, `REMOTE` is
`code/packages/ovlab-remote-policy/src/ovlab_remote_policy`, `BENCHCTL` is
`code/apps/benchctl/src/ovlab_benchctl`.

## 1. The system

| Component | State it keeps | Operations | What makes it hard | What makes it correct |
|---|---|---|---|---|
| Episode execution (`RUNNER/execution.py`, `recorder.py`) | pending chunk, chunk index, limit, the recorder's five lists, `policy_active`, `failure_domain` | one call per episode | every hook may raise, a signal may fall anywhere, a chunk may outlive its instruction | actions belong to the current chunk and instruction, the recorder is never contradicted, the adapters are released, failures are attributed |
| Run lifecycle (`RUNNER/runner.py`, `connection.py`) | `RunnerState`, loop variables, counters | `connect`, `run`, `close` | exceptions inside except and finally blocks, signals | the error policy decides what is attempted; the outcome agrees with the directory; the simulator is closed |
| Run artifact store (`RUNNER/artifacts/`, `reporting.py`) | the run directory | `create_run` ... `finalize_run`, `mark_run_failed` | a failure between any two writes, a second finalization | exactly one manifest, sealing the inventory; completed means complete |
| Adapter lifecycles (policy SDK, `ovlab_benchmarks/adapter.py`) | `AdapterState`, episode context | `initialize` ... `close` | a failing hook leaves the state as it was | the runner uses them only in the states they admit |
| Negotiation and contracts (`ovlab-core`, `RUNNER/connection.py`) | none | `connect_components`, validation of observations and predictions | declarations are compared by one piece of code and used by others | a negotiated pair exchanges what it negotiated |
| Metrics (`ovlab-metrics`) | one trace per episode | preflight, evaluate, aggregate | episodes that failed before they had evidence | every episode is in a numerator, a denominator or an exclusion |
| Remote policy service (`REMOTE/service.py`, `client.py`, `adapter.py`, `protocol.py`) | session owner, lock, episode, seen steps; per client a request index and an adapter state | six operations over one connection | threads per connection, timeouts and late answers, broken connections, hanging inference | one owner at a time, its episode only, answers matched with requests, probes always answered |
| Owned service process (`REMOTE/process.py`) | process, socket, log | `start`, `stop` | start-up polling races with bind and chmod | a healthy service is accepted, a stopped one is reaped |
| OpenVLA policies (`code/policies/`) | runtime, model, episode, descriptor | `initialize`, `reset_episode`, `predict`, `close` | a load that fails half way, files that change between reading and hashing | what is served is what was announced |
| LIBERO benchmark (`ovlab_benchmarks/libero/`) | environment, renderer, step index | `reset_episode`, `step`, `abort_episode`, `close` | a simulator that raises in any call, also in `close` | one simulator at a time, the limit is kept, the renderer is restored |
| Configuration (`BENCHCTL/resolver.py`, `schema.py`, `config_bundle.py`) | none | resolve, bundle, resolve again | inheritance, overlays, documents and hub that change between host and container | the container runs what the host planned or refuses |
| Compose deployment (`BENCHCTL/deployment.py`) | snapshot of run directories | `run` | other deployments and direct runs | the reported run is this deployment's |
| Model deployment (`BENCHCTL/model_deployment.py`) | deployment record, configs, container | `deploy`, `inspect`, `verify`, `stop` | crash between docker and the record | the record agrees with the container |
| Checkpoint resolution (`BENCHCTL/checkpointing.py`) | managed cache, locks | `resolve`, `resolve_latest`, finalized trainings | two locks, candidate order, changing sources | only verified checkpoints are returned |
| Datasets (`BENCHCTL/datasets.py`) | staging directories, published builds, locks | `fetch`, `import`, `verify` | crash between rename and manifest, concurrent fetches | a ready dataset is complete and unique |
| Data management (`BENCHCTL/data_management.py`, `run_references.py`) | runs, exports, archive | `archive`, `delete`, `list` | copies across filesystems, companions, no locks, ambiguous short hashes | nothing lost, nothing twice, nothing modified that is not meant |
| Training (`BENCHCTL/training_*.py`) | run directory, result, checkpoint bundle, partition | `create`, worker, `finalize`, `fail`, `verify` | host and two containers write one directory; a killed worker; partial batches | one final result; a bundle is complete before it is visible; every example is counted once |
| Reports and exports (`RUNNER/derived.py`, `exports.py`, `interactive.py`) | output directories | generate, refresh, verify | partial output, sources that change underneath | published whole, and says what the run says |
| Command line (`BENCHCTL/cli.py`, `application.py`) | signal handlers | one call | exceptions in `finally` | the runner is closed |
| Deployment scripts, vendored PEFT | -- | -- | -- | not modelled |

How they interact: the command line resolves a configuration, installs the
signal handlers, builds the runner and closes it in a `finally`; with Compose or
a model deployment it starts a container that resolves the bundled configuration
once more. The runner negotiates the two adapters, calls `execute_episode`, the
artifact store, the metrics and the postprocessor, all in one thread.
`execute_episode` drives the adapters. A policy adapter is one of the OpenVLA
policies or a `RemotePolicyAdapter`, whose client talks to a `PolicyService` that
serves another adapter; other runners may be connected to the same service.
Policies load what checkpoint resolution returns, among it what a training
published. Reports, exports, archives and deployments meet the runner only
through the run directory it leaves behind.

## 2. The modules

| Module | Models | Composed into |
|---|---|---|
| `EpisodeContract` | what a call of `execute_episode` may do to its caller | abstract specification, used by `ExperimentRun` |
| `EpisodeExecution` | `execute_episode`, `EpisodeRecorder`, `_safe_end`, `_safe_abort` | implements `EpisodeContract` |
| `ExperimentRun` | `ExperimentRunner`, `FilesystemRunArtifactStore`, `reporting.py`, the owner's `finally` | uses `EpisodeContract!Results` in place of the loop |
| `InferenceSession` | the session the remote policy README promises | abstract specification |
| `PolicyService` | `PolicyService` (persistent, TCP) and its `RemotePolicyAdapter` clients | implements `InferenceSession` |
| `PublicationSlot` | what a publication path of a host-side store promises | abstract specification |
| `DatasetStore` | `DatasetStore.fetch`, `import_local`, `_materialize` and the bridges | implements `PublicationSlot` |
| `PublicationRegistry` | what a store that publishes by content promises | abstract specification |
| `TrainingRun` | `ovlab train run`: host, trainer and finalizer on one run directory, `CheckpointBundleStore` | `MCStorage`; implements `PublicationRegistry` |
| `CheckpointResolver` | `CheckpointResolver` | `MCStorage` |
| `DataManagement`, `DataCatalog` | archive and delete; references, lists and states | `MCStorage` |
| `DerivedReports`, `DerivedExports` | report engine and dashboard; exports and their publication | `MCStorage`; `DerivedReports` implements `PublicationRegistry` |
| `PolicyRuntime`, `QuicProvider` | Vanilla, merged LoRA and OFT; QuIC | `MCStorage` |
| `TrainingLoop`, `EpisodePartition` | both optimizer loops; selection, split and streaming of episodes | `MCHost` |
| `ModelDeployment`, `ComposeDeployment` | `ovlab deploy` and its siblings; `ComposeDeployment.run` | `MCHost` |
| `ServiceProcess` | `OwnedPolicyServiceProcess` with `serve` | `MCHost` |
| `LiberoAdapter` | the LIBERO adapter, environment and renderer | `MCHost` |
| `ConfigResolution` | resolver, bundle, preflight, the container's resolver | `MCHost` |
| `PolicyExchange` | `compatibility.py`, contracts, `protocol.py` conversions | `MCHost` |
| `EpisodeMetrics`, `ReportModel` | the metrics of a task; what a report counts and draws | `MCHost` |
| `EpisodeExecution_proofs`, `ExperimentRun_proofs`, `PolicyService_proofs`, `DatasetStore_proofs` | theorems and their proofs | extend the module of that name |
| `Storage_proofs` | the same of `DataManagement`, `DataCatalog`, `CheckpointResolver`, `DerivedReports`, `DerivedExports` | extends them |
| `Policies_proofs` | of `PolicyRuntime`, `QuicProvider`, `TrainingRun` | extends them |
| `Host_proofs` | of `ServiceProcess`, `LiberoAdapter`, `ModelDeployment`, `ComposeDeployment`, `PolicyExchange`, `ConfigResolution` | extends them |
| `Accounting_proofs` | of `TrainingLoop`, `EpisodePartition`, `EpisodeMetrics`, `ReportModel`, and laws of sums | extends them |
| `MC*` | constants for TLC, a terminating step or the choice of a component | extend what they check |

### EpisodeExecution

A call of `execute_episode` is a walk of `pc`: `reset_policy`, `policy_reset`,
`reset_benchmark`, `loop`, `ending`, `ended`, and from anywhere in the try block
`safe_end`, `safe_abort`, `finalize`. The variables are the locals of the
function, the recorder's lists and the two `AdapterState`s. A hook and what the
code does with its result up to the next hook is one action; its failure is an
action of its own (`PredictFails`, `StepFails`, ...). The assignments to
`policy_active` are steps of their own, because a signal between a hook and the
assignment changes what the handler does. Recording one step and the observation
after it is one action: a signal inside it is taken as one before or after it.
An observation is the instruction it carries; a prediction its horizon and step;
an action its prediction and chunk offset. `blame` and `entry` are history.

### ExperimentRun

`pc` follows `connect`, the loops of `run`, `_final_manifest` of the store, the
except block, `_close_resources` and the command line's `finally`. Every file
the store writes is an action, so every reachable state is also what a killed
process leaves. The except block finalizes through the same actions; the
manifest's status tells `finalize_run` from `mark_run_failed`
(`InExceptBlock`), which decides where an exception goes. `Failures` and
`Signals` are bounded by counters. `verdicts`, `unsettled`, `closingTrouble`
and `benchmarkTrouble` are history and no guard reads them. `DescribeRun` is the part of
`connect` outside its two try blocks (provenance, runtime metadata), `CloseProgress`
the `progress.close` that `run`'s `finally` calls before it closes the adapters; a
signal in it skips them. The episode loop is
`Contract!Results(policy, benchmark)`: `EpisodeExecution` is shown to implement
that module (run property and theorem `ImplementsContract`), so what holds of a
run here holds of a run with the real loop as far as the contract tells.

### PolicyService

A client is one connection. It sends a request (`Send`), waits, and reads an
answer (`Receive`), times out (`Timeout`), or breaks off (`Disconnect`). A late
answer stays in the stream. The handler thread of the connection reads, locks,
dispatches, answers, and leaves through the `finally` of `_serve_tcp_session`.
Testing and claiming the owner is one step, the operation under the lock
another, so that other threads act in between. A request is a frame with an id,
an operation, an episode and a step. `FailingHooks` says which hooks of the
served adapter may raise. The owner's side of a service in a process of its own
is `ServiceProcess`: `start` polls the process and the socket file while the
service loads, binds, restricts and listens; `stop` waits, terminates, kills and
unlinks.

### Stores on the host

`DatasetStore`: any number of processes call `fetch` or `import_local`. `pc`
follows a call: the lock of its resolution, `find_resolution`,
`_assert_version_slot_available`, the choice of a staging directory, then the
statements of `_materialize`. A build is a staging directory; `Rename` moves it
to the publication path and only then `WriteManifest` announces it. The
resolutions compete for one path: the lock file is per resolution, the path per
provider, name and version. `Bridge` is the provider. LIBERO resumes a failed or
interrupted staging directory, checks files as they arrive and has no digest for
the whole; a URL and a local directory always begin anew and are compared with a
digest; a local source may change between its inventory and its copy. The code
takes the newest of several recoverable directories, the model any of them:
`OneRecoverableStaging` shows that there never are two. `outcome` and
`disturbed` are history.

`TrainingRun`: each run has a host command, a trainer container and a finalizer
container, each with a control variable; the run directory is `result.json`, the
events, the staged checkpoint and `manifest.json` with what it inventories. The
"planned" event (`RecordPlan`) and `docker run` (`StartTrainer`) are two steps, and
what strikes between them is caught nowhere.
Several runs may produce one content and compete for one checkpoint identity.
`CheckpointResolver`: candidate sources in the code's order (Hugging Face cache,
local profile, managed cache), verification, linking under `.resolve.lock`,
download under `.download.lock`, one rename. A directory of files is the version
of its content. `DataManagement`: a target is a directory and perhaps a companion;
across filesystems it is copied into a stage, verified, renamed and removed, part
by part, without a lock. `DataCatalog` is how a reference finds its directory in
typed and legacy roots. `DerivedReports`: the evaluation writes on while an
engine reads manifest, episodes and checksums, stages, renames, points
`latest.json` and publishes the dashboard. `DerivedExports`: selection, then the
two renames of `_publish` with the restoration of the old export.

In all of them every write of the code is an action, a raised error goes through
the except clauses, an interrupt is a raised `KeyboardInterrupt`, a kill leaves
things as they are and drops the locks the kernel drops.

### Containers, simulator, policies

`ModelDeployment`: deploy, inspect, verify and stop act on one record, one
configs directory and one container; each statement that touches one of them is
an action. `ComposeDeployment`: the snapshot, the services, `compose down` and
the second look, beside other commands and direct runs. `LiberoAdapter`: the
hooks with every place where the simulator may raise; a simulator is in `lost` when
its close raised or was interrupted, or when it was created and its seeding raised,
so that the adapter never got it (`SeedFails`). `NoSimulatorIsLeft` therefore
counts: each failure leaves at most one simulator open that the adapter does not
hold. `PolicyRuntime`: one load as steps (`ResolveSnapshot` ...), because the
snapshot may change between them; then episodes and predictions with decoding.
`OpenVlaOftRuntime.load` counts model, action head and projector as it loads each
(`LoadModel`, `LoadHead`, `LoadProjector`); a load that fails after one of them
counts it again when it is retried, so what is served holds one of each and what is
counted may be more. `QuicProvider`: the artifact is hashed, read and loaded by
different statements; directory and host checkpoint may be replaced in between.

### Algorithms

`ConfigResolution` composes documents along `extends` (`Composed`, a function of
the documents that already wait for their parent, the resolver's `stack`), bundles
the closure of an experiment (`BuildBundle`; `Closure` is the least set that holds
the leaf and the parents of its members) and resolves the bundle in a container;
the documents, the hub and the cache may change in between. The checkpoint is
selected by a second implementation of the composition, which asks a document for its
kind and checks neither type nor schema (`LoadUnchecked`, `Unvalidated`), and an entry
of the registry may declare the method its weights were made with, which the policies
ask for (`MethodOf`). `PolicyExchange`
negotiates a pair of declarations (`CheckImage` ...), then sends observations
and predictions through the conversions of the protocol and the checks of every
hop. `EpisodeMetrics` follows the episodes of a task: what is recorded, which
metrics are available, an error or not applicable, and what aggregation makes of
them. `ReportModel` computes outcomes, denominators, charts and quantiles of a
report at any moment of a run. `EpisodePartition` and `TrainingLoop` split and
stream the episodes of a dataset and count what the optimizer consumed. The fraction
that is held out is a float, and `math.ceil` of a product that lies just above a whole
number is one too many (0.14 * 50 gives 8); `over` is the set of sizes where that
happens, any set in the proof, one small size in the run. Each is
checked against a definition that does not use the algorithm.

## 3. Runs

| Run | Bounds | Shows |
|---|---|---|
| `MCEpisodeExecution` | 3 steps, horizon up to 3, all modes, replan interval 2, 2 instructions, 2 episodes, 2 signals | the loop's invariants, `EpisodeContract`, every episode ends |
| `MCExperimentRun` | 2 tasks, 2 rollouts, all error policies, 2 failures, 1 signal | attempted episodes, completeness, sealing, immutability, agreement, termination |
| `MCPolicyService` | 2 clients, 5 and 3 requests, 6 in all (`FewRequests`), reset and end hooks may fail | agreement of client and service, late answers, `InferenceSession` |
| `MCSessionLiveness` | 2 clients, 3 and 1 requests, the other hooks may fail, inference may hang | a probe is answered; if hooks return, a dead client's session is released |
| `MCDatasetStore` | LIBERO, 2 processes, 2 resolutions, 2 files, 3 calls, two of an error, an interrupt and a kill | completeness, resumption, `PublicationSlot` |
| `MCDatasetImport` | local import, 2 processes, 2 resolutions, 2 files, 2 calls, an error, an interrupt and a kill | every call ends, the waiting ones included |
| `MCStorage` | per component: 2 runs of one content; 2 resolvers, 2 source changes, 1 kill; 3 commands on 2 targets; 2 names of one short hash; 2 report engines; 2 exporters of 3 runs; 5 policy settings; 4 QuIC payloads; 1 fault each (trainings: 1 error, 2 interrupts, 1 kill) | the stores keep what they publish, under faults between any two steps; `PublicationRegistry`, twice |
| `MCHost` | per component: 3 deployers, 2 containers, 2 faults; 2 deployments, 1 foreign run; 3 owner faults; 3 simulators, 3 steps; one change to one document, the hub or the cache; 144 pairings, 2 exchanges; 6 metric plans, 4 actions, 2 rollouts; 4 episodes of 3 frames; 5 batch streams | records, reports and results agree with what happened |
| `MCNoFinalManifest` | 1 failure | violation: finding 1 |
| `MCArchivedTraining` | component `catalog` | violation: finding 2 |
| `MCStaleReport` | component `reports` | violation: finding 3 |
| `MCSuccessRate` | component `metrics` | violation: finding 4 |

`MCStorage` and `MCHost` hold several components; their variable `part` names the
one a behaviour is about and the others stand still, so a state space is the sum
of the components' and not the product. A property that a run checks of such a
component is the conjunction of named parts:

| Property | Parts |
|---|---|
| `TrainingRunsHold` | `SealedRunsIntact`, `PublishedBundlesSound`, `RunsSettled` |
| `ResolvedIsVerified` | what is returned was verified, and a race leaves the other's snapshot |
| `ArchivingIsSafe` | `ArchivingLosesNothing`, `EntriesAreComplete` |
| `ReferencesAreFaithful` | what resolves, what is listed and what may be modified |
| `ReportsHold` | `CompleteReportsAreComplete`, `DerivedStoreIsConsistent`, `ReportedIsPublished` |
| `ExportsHold` | `PublishedExportsStay`, `ExportsAreComparable` |
| `PolicyServesWhatItAnnounced`, `ProviderServesTheDescriptor` | identity, quantization and indices of what is served |
| `TrainingIsAccountedFor` | `MetricsAccountForBatches`, `TrainedIsFinalizable` |
| `PartitionHolds` | `SplitsAreSound`, `PassesYieldTheirLength` |
| `RecordsHold` | `EveryContainerIsStoppable`, `ReadyRecordsHold` |
| `DeploymentsAreExplained` | `ReportsItsOwnRun`, `EndedDeploymentsExplained` |
| `OwnerLeavesNothing` | neither process nor socket after `stop`; a started service's socket is private |
| `ReportsAreFaithful` | `OutcomesAddUp`, `SeriesAreSound` |
| `AdapterIsSound` | `NoSimulatorIsLeft`, `EpisodesEndInTime` |
| `ContainerResolvesTheSame` | what the container resolves is what the host planned |
| `NegotiationIsHonoured` | what fails in an episode after a negotiation, and why |
| `MetricsAreSound` | `EveryEpisodeAccounted`, `SuccessRateCounts`, `OnlyIncomparableDropped`, `RaisedOverEvidence`, `NoOpsAreStretches`, `FlickerIsARate` |
| `ExecutionIsRecorded` | `ChunksExecutedAsPrefixes`, `RecorderNeverRefuses` |

Why the bounds are enough. Three steps and horizons up to three let a chunk be
cut short by the limit, by the end of the episode and by a new instruction, and
leave room for the chunk after it; two episodes carry adapter states over. Two
tasks of two rollouts tell `stop_run`, `continue_task` and `continue_run` apart.
A second failure or signal hits the handling of the first. Five requests are
initialize, health, reset_episode, a prediction that times out and a request
that reads its late answer; with six in all either client can own an episode and
the other follow it. Three dataset calls let a call fail, a second resume and
fail or be overtaken by another resolution, and a third find what they left. Two
commands meet in every pair of steps; the third deployer and the third data
command act on what two others left behind. Two interrupts let Ctrl-C strike the
cleanup of the first. Two targets, names or contents are one and another one; a
second container is the one a later deploy creates. Three simulators are the one
that is lost, the one that is replaced and its successor. Two rollouts are one
with evidence and one without; four actions hold a no-op stretch of three and
what ends it. The rewrites of a document are the ways in which a composition can
come out differently (another parent, type, component or reference, a missing
field, a cycle). Processes, files and clients are interchangeable where SYMMETRY
is used (safety properties only).

The bounds are named: constants called `Max...`, and the budget variables
`changes`, `faults`, `strikes`, `ownerFaults`, `simFaults`, `generations`,
`exportsLeft`, `exportFaults`, `policyBudget`, `quicBudget`, guard the actions
that spend them; `FewRequests` and `FewStrikes` are constraints of the runs.
Except `MaximumSteps`, `MaxImageBytes`, `MaxProprioBytes` and `MaxFrameBytes`,
which are limits of the code made small, none of them stands for anything in the
code. `ChunkLength`, `ProtocolDimension`, `MaxSamples` and `ShownSamples` are
constants of the code made small.

Deadlock is checked in the runs of `EpisodeExecution`, `ExperimentRun`,
`PolicyService` and `DatasetStore`, whose MC modules add a step for the states in
which the program has ended. The components of `MCStorage` and `MCHost` stop when
their commands are over or their bounds are used up, so these two do not check it.

### Fairness

`EpisodeExecution` and `ExperimentRun` assume weak fairness of the code between
failures and signals: one synchronous thread, whose hooks return or raise (the
remote client has a request timeout). Failures, signals and new episodes are
never owed. `PolicyService` assumes weak fairness of every handler thread, and
of `Dispatch` in `Spec`; in `HangingSpec` the model may hang, and
`SessionIsReleased` names the fairness it needs (`HooksReturn`). Nothing is
assumed of clients, and nothing of the lock: strong fairness of lock acquisition
is not needed because a client's requests are finite. `DatasetStore` assumes
weak fairness of a call between what strikes it: downloads have a timeout and a
bounded number of retries. Waiting for `flock` needs no more, because calls are
finite. `ResolverSpec` states the same of a resolver; no run needs it. The other
modules state no fairness and only safety is checked of them.

## 4. Findings

1. `reporting.py:235`: a torn `.partial` trace defeats the finalization of the
   failed run (`MCNoFinalManifest`).
2. `data_management.py:167`: a finalized training is sealed by `manifest.json`,
   which the data commands do not know, so it can be neither archived nor deleted
   although DATA_MANAGEMENT.md:131 and :140 list it (`MCArchivedTraining`).
3. `derived.py:1093`: a report model is read before the checksums that identify
   it; when the run is finalized in between, the unfinished model is published and
   reused under the identity of the finished run (`MCStaleReport`).
4. `task/success.py:68`: a policy that fails before the benchmark has shown a
   success signal is missing from the denominator of the success rate
   (`MCSuccessRate`).

Seen while modelling, each with the place it concerns, and not run:

- `execution.py:162`: with `recording.observations` off, a chunk can survive a
  change of instruction (runner README:32-33). No benchmark of the repository
  changes instructions. With recorded observations the property is a theorem
  (assumption `RecordObservations` of `ChunksFollowInstructions`).
- `execution.py:131`: a benchmark that overruns its maximum is charged as a
  `policy_error` (runner README:50-51). `execution.py:176`: a policy whose
  `end_episode` raises stays active and later episodes are refused (README:55-56).
- `recorder.py:132`: a refusal of `EpisodeTrace` leaves through an except clause.
- `runner.py:76`: a failure in `connect` leaves a started manifest nobody
  finalizes. `runner.py:142`: metadata that cannot be given in the except block leaves
  no final manifest, and a signal in `progress.close` (`runner.py:151`) leaves the
  closing to the command line. `filesystem.py:232`: a signal in a trace write or the publication
  leaves no aborted manifest (DATA_MANAGEMENT.md:200-201).
- `runner.py:179`: when a policy's `end_episode` raises after a success,
  `task.success` is an error and its aggregation raises, also under
  `continue_task` (runner README:52-54). `runner.py:182`: an episode too short to
  describe its actions makes the task result of an action metric disappear, or
  fails the run when the metric is required. A benchmark error at reset counts as
  unavailable, not as excluded; `aborted_policy_attributable` is never reached;
  `metrics recompute` does not evaluate `task.success` implicitly, the runner does.
- `datasets.py:849`: an interrupt between the rename and the manifest blocks every
  retry (DATASETS.md:155-157).
- `config_bundle.py:219`: the hashes of a bundle are taken when it is built, and
  `materialize` copies later without hashing again. A second moving checkpoint
  (a processor of its own) resolves on the host only. A profile given on the
  command line over an inconsistent one passes `plan` and is refused in the
  container.
- `training_deployment.py:208-243`: an error or an interrupt after the "planned" event
  and before `docker run` leaves a run directory without a result.
- `training_deployment.py:267`: an interrupt during the finalizer leaves
  `checkpointing`, not `interrupted` (TRAINING.md:299-301).
- `data_management.py`: a legacy run whose ID exists in a typed root too fails the
  whole of `data list`.
- `exports.py`, `_publish`: replacing an export is two renames (REPORTING.md:439
  says "atomically"); `exports.py:234-250`: the selection refuses where
  REPORTING.md:457 says every compatible run is taken. `derived.py:341`: a task
  without episodes is not shown (`derived.py:662`: "never silently excluded").
- `libero/environment.py:72`: a simulator whose seeding raises stays open, and nobody
  holds it.
- OFT: a warm-up that fails after the model was assigned leaves it loaded and every
  retry refused. A projector that fails leaves the head counted, and the retry counts
  it again (`openvla-oft` `runtime.py:152`). Vanilla: `expected_checksum` without a runtime artifact is
  reported and never verified. QuIC: the descriptor hashes `adapter.json` twice and
  the load reads the files again.
- `protocol.py:482`: every image is relabelled RGB (`compatibility.py:135` compares
  colours); `protocol.py:453`: several pictures of a lone camera collapse to the
  last; limits of actions are not negotiated; image and proprioception timestamps
  are replaced by the instruction's.

## 5. Proofs

The theorems hold for every value of the constants their assumptions admit.
The assumptions say: bounds are natural numbers, sets of names are subsets of
the code's enumerations, and a name that stands for nothing ("nobody", "direct",
`NoOne`, `NoContent`, `NonFinite`) is not a member. Sets that are summed over or
searched for a least element are finite (`Episodes` of a dataset, `Endings`,
`ReportTasks`, `ExportRuns`). Where the code validates a configuration the
assumption states what passes: `TrainingLoopAssumption` the settings of a
training, `ConfigAssumption` that a tree is finitely many documents none of which is
called "none", `PartitionAssumption` a fraction between 0 and 1 and a ranking without
ties, `PolicyExchangeAssumption` the declarations the constructors accept,
`MetricsAssumption` the settings of the metrics. Two theorems
(`ChunksFollowInstructions`, `ReplansAreDueAlways`) have the hypothesis
`RecordObservations`, without which finding `execution.py:162` applies.

Each safety theorem has one form: `Init` implies an invariant, every action
keeps it (one step or lemma per action), it implies the property, PTL. A property
is seldom inductive; what each invariant adds is the reason why it holds.

| Theorem | Inductive invariant | What it adds |
|---|---|---|
| **`EpisodeExecution_proofs`** | | |
| `ChunksAreExecutedAsPrefixes`, `NoStepPredictedTwice`, `RecorderAccepts`, `ExecutionRecorded` | `RecorderInv` | where the loop stands: nothing recorded before the first observation (`NothingYet`), afterwards the newest context is the current step (`AtCurrentStep`), a pending prediction is the newest and executed up to the chunk index (`PendingIsNewest`), a discarded one was used (`DiscardedWasUsed`) |
| `ChunksFollowInstructions` | `InstructionInv` | the pending prediction was made for the current instruction |
| `ReplansAreDueAlways` | `ReplanInv` | in the loop, a prediction that is no longer pending was left when it was due (`LastWasDue`); recorded actions are judged as before while the lists grow (`JudgedAsBefore`) |
| `FailuresAreAttributed`, `ExecutionImplementsContract` | `CallInv` | the adapter states inside a call follow those it began with (`AdaptersFollowCall`, `StaysActive`); every step maps to `ContractBegin`, `ContractEnd` or a stutter |
| **`ExperimentRun_proofs`** | | |
| `FinalManifestSeals`, `FinalizedRunsAreImmutable` | `SealInv` | what the run directory holds at each step of the publication (`NothingGenerated`, `StagingIsBlocked`, `PublicationInOrder`, `SealIsCurrent`) |
| `ErrorPolicyIsRespected`, `CompletedIsComplete` | `LoopInv` | the episodes attempted are those before the current one in the loops' order (`EpisodesInOrder`), each judged by the error policy of its predecessors (`PolicyObeyed`), the directory follows the loops (`DirectoryFollows`), and past the loops all is done and stays so (`AllDone`) |
| `ManifestsAgree` | `OutcomeInv`, `ReleaseInv` | an exception is known from where it is raised to where it leaves (`RaisedExplained`), the manifest follows it unless the way out is disturbed (`PublishedAsDecided`), and an undisturbed finalization starts without generated files (`FinalizationStartsClean`), so that only a torn trace can stop it; the benchmark is closed or every attempt failed |
| **`PolicyService_proofs`** | | |
| `EpisodesBelongToOwners`, `EpisodesEndedByTheirClient`, `ServiceImplementsSession` | `ServiceInv` | a handler serves its own client's request (`OwnRequests`); a dispatching thread holds the lock and owns the session (`LockHeld`) |
| `PredictionsMatch` | `FrameInv` | ids only grow, and a frame on its way with the awaited id carries the awaited step (`Carries`); a late answer carries an id of the past |
| `ClientAndServiceAgreeAlways` | `AgreementInv` | for every client without a timeout: one request at most is on its way (`OneRequest`, `Waiting`), what it asks fits the service when it is read (`Meant`), and its state is the service's once the answer is read (`Believed`, `Becomes`) |
| **`DatasetStore_proofs`** | | |
| `ReadyDatasetsAreComplete`, `StagingIsExclusive`, `PublicationsStay`, `StagedFilesStay`, `StoreImplementsSlot` | `StoreInv` | what a call knows of its build at each label (`CallsKnow`), what holds of every build (`BuildsSound`), locked calls have different resolutions (`LocksExclude`), one build at most is at the path (`OneAtPath`); `StepOfStore` reduces every step to no write, a new staging directory or one build rewritten |
| `RetriesAreSound` | `RetryInv` | a call at work holds the only recoverable build of its resolution (`Lone`), and every failure has a lasting reason or is disturbed (`Reason`) |
| **`Storage_proofs`** | | |
| `ArchivingStaysSafe` | `DataInv` | what a command without a lock may rely on although others act between its steps (`Knows`); that it lasts is one lemma (`StepKeeps`), since another's step only makes absent what is absent for good and leaves whole what is archived (`WorldGrows`) |
| `ResolvedStaysVerified`; `SnapshotsStay` | `ResolverInv` | a command holds the lock of the way it goes (`HoldsItsLock`) and what it links was verified unless a source changed (`KnowsItsContent`); the second, which no run checks, needs none: it is a property of each step |
| `ReportsAlwaysHold`, `BuildsAreARegistry` | `ReportInv` | an engine that saw the final manifest reads a run that changes no more (`ReadsTheFinishedRun`) |
| `ExportsAlwaysHold` | `ExportInv` | a command between the two renames has the old export aside, killed or not (`HoldsItsExport`, `AsideFits`), so a name is there or between renames (`NameStays`) |
| `ReferencesStayFaithful` | `CatalogInv` | finitely many directories below the roots, hence one match or several; the rest is about one state |
| **`Policies_proofs`** | | |
| `PoliciesServeWhatTheyAnnounce` | `PolicyInv` | what a load may rely on at each stage while the snapshot changes (`LoadingFits`), how its counters follow the stages (`CountsFit`), what is assigned was checked (`ModelFits`), indices grow within used episodes (`IssuedFits`) |
| `ProvidersServeWhatWasNegotiated` | `QuicInv` | the same of reading, describing and loading by different statements (`ReadingFits`, `DescriptorFits`, `InitializingFits`, `AnswersFit`) |
| `TrainingRunsAlwaysHold`, `BundlesAreARegistry` | `TrainingInv` | who is at work follows from where the host is (`TakingTurns`), what the directory and the registry say then (`DirectoryFits`, `RegistryFits`), and what each cause explains (`CausesFit`) |
| **`Host_proofs`** | | |
| `RecordsAlwaysHold` | `DeployInv` | the one command between lock and unlock is the holder (`LockIsHeld`), and what it knows at each label (`Knows`) survives a kill |
| `DeploymentsStayExplained` | `ComposeInv` | runs are numbered as they appear, a command's own run came after its snapshot (`OwnRunIsNew`), and an unstruck command is accounted for at each label (`Accounted`) |
| `StoppedServicesAreGone` | `OwnerInv` | a process exists from the poll to its reaping, and the socket is what the service made of it unless the owner gave up |
| `AdapterStaysSound` | `LiberoInv` | where an open simulator can be (`SimulatorsKnown`), that each one left behind cost a failure (`LeftBehind`), and what is saved of the renderer; `ReleaseKeeps` is the lemma of every failing hook |
| `NegotiationStaysHonoured` | `ExchangeInv` | the announcement and the verdict stand, what is shown, seen, predicted and taken belongs to them; the work is in the lemmas about one state: a compatible pair's observation passes every check of both sides, locally and over the wire |
| `ContainersResolveTheSame` | `ConfigInv` | while nobody touched the documents, the profile of a plan is its policy's (`ProfileHolds`) and the checkpoint handed over is the one the policy names, at its pinned revision (`HandedHolds`); touched or not, a bundle is what the documents read when it was built give with the override (`BundleHolds`). Of one state: what passes the resolver's checks is read as it is by the selection, which makes none (`CheckedAsTrusted`), the override is unseen by documents of another kind (`OverrideIsUnseen`), a part that holds its parents composes as the whole (`PartComposes`), and what a container resolves it looks up nowhere (`ContainersLookNothingUp`) |
| **`Accounting_proofs`** | | |
| `TrainingAccounts` | `AccountInv` | what was drawn since the last line is what is pending (`Accumulated`), each line counts its group (`LinesFit`), what evidence exists at each stage (`EvidenceFits`) |
| `PartitionAlwaysHolds` | `PartitionInv` | the manifest is the split of the catalogue, and what a pass yielded plus what is left is the whole of its side, or less with a record gone (`PassFits`) |
| `TaskResultsAreSound` | `MetricsInv` | each recorded episode is the evaluation of a trace that fits its ending; the parts of the property are lemmas about all traces |
| `ReportsStayFaithful` | `ReportModelInv` | no task has more episodes than rollouts; outcomes and series are lemmas about all counts and all sequences of samples |

`TypeCorrect` of the first four modules are type invariants. The theorems that
implement an abstract specification (`ExecutionImplementsContract`,
`ServiceImplementsSession`, `StoreImplementsSlot`, `BundlesAreARegistry`,
`BuildsAreARegistry`) map every step to a step of it or a stutter.
`PublicationRegistry` is implemented twice: its entries are the run that published
a bundle, or the report model a build shows, and what relies on them is the manifest
of a sealed training run, or a dashboard. The trainings need the invariant to know
that nothing writes to a sealed run (`SealedStays`), the reports that a dashboard is
only published by an engine whose build is there (`HasItsBuild`).

Sums and recursion. The prover has no induction over data, since the library's
induction theorems take an operator, but well-foundedness is a fact about sets.
`Accounting_proofs` uses it: among the subsets of a finite set for which a sum
would be wrong there is a least one (`LeastSubset`), and removing an element from
it gives a contradiction. This yields the laws of `MapThenSumSet` that the
counting needs (`SumOfWithout`, `SumsAgreeOn`, `SumsAdd`, `SumOverParts`).
Recursive functions over positions (the no-op scan) are treated by the least
position at which they would differ from the definition. Least and greatest
elements of finite sets of integers (`MinIs`) come the same way. `Composed` recurses
towards larger sets of waiting documents, of which the set of all documents is the
last; `FromLargerSets` is the principle its lemmas use, and says that a fact about
every set of documents follows if it follows for a set from the sets with one more.
That such a function exists and is the only one is proved from it too
(`CompositionExists`, `CompositionIsUnique`).

What the proofs found in the models. An overlapping CASE in `FinishEpisode` and
in `MinimumSamples`: TLC takes the first arm, TLA+ any, and the code is an
`if`/`elif`. An action specification without a gripper has no convention to
describe. `FlickerIsARate` claimed that a flicker rate does not depend on the
direction of the scale; with a threshold or deadband of 0, which the code admits,
a value on the threshold satisfies both tests and the code takes the first, so
the mirrored half is claimed where the states are kept apart (`KeepsApart`, with
a plan of deadband 0 in `MCHost`). The settings of a training and of a partition
were assumed too little of.

Only model-checked is liveness: `EveryEpisodeEnds`, `RunEnds`, `SessionIsReleased`,
`HealthIsAnswered`, `CallsEnd`. The prover reasons neither about fairness nor about
ENABLED. All other properties of the passing runs are stated by a theorem.

## 6. Not modelled

Data: image, tensor and weight contents, metric means, variances and norms,
encodings, YAML, the text of plans, logs and error messages, sizes and times.

Of the command line: argument parsing, formatting, diagnostics and tracking. Of
reports: rendering and plots, the reports of trainings (`training_derived.py`),
`offline_metrics.py` and `inspection.py`, which compute from finished files. Of
the remote policy: the framing of bytes and the non-persistent mode; the Unix
socket appears with its owner only. Of trainings: the validation of profiles,
ablations and QuIC experiments, and the contents of evidence files. Of datasets:
archive extraction, the legacy four-level layout, and `list`, `inspect` and
`prepare`, which only read. Of the deployments: the rendering of Compose files
and docker commands. The deployment scripts build images, and the vendored PEFT
is third-party code.

No file system loses a write that returned; a rename is atomic. A model-side
`end_episode` that raises during the release of a broken connection leaves the
session owned for ever (`service.py:114`); `MCSessionLiveness` excludes it, as no
policy of the repository does so.

## 7. Plan

1. Steps rather than states: which of the stores' properties are also action
   properties (a published export changes only by a replacement), from the
   invariants that are there.
2. `ComposeDeployment` composed with `ExperimentRun`, so that the runs a
   deployment finds are the ones a runner leaves.
3. Training reports and the offline recomputation of metrics, next to
   `ReportModel` and `EpisodeMetrics`.
