----------------------------- MODULE TrainingRun -----------------------------
(***************************************************************************)
(* `ovlab train run`: the host command (training_deployment.py), the       *)
(* trainer container (training_worker.py train) and the finalizer          *)
(* container (training_worker.py finalize, CheckpointBundleStore), which   *)
(* take turns on one run directory and publish a checkpoint bundle.        *)
(* Several commands run at once, and their trainings may produce the same  *)
(* content, hence compete for one checkpoint identity.                     *)
(*                                                                         *)
(* Of a run directory only result.json, events.jsonl, the staged           *)
(* checkpoint and manifest.json are kept; a directory entry is written     *)
(* whole or not at all (atomic_json).  Errors strike before a write takes  *)
(* effect, an interrupt (Ctrl-C) reaches the host and may reach the        *)
(* container it waits for, a kill takes any of the three processes.        *)
(***************************************************************************)
EXTENDS Naturals

CONSTANTS
  TrainingRuns,         \* run directories, one for each command
  Contents,             \* what a training may produce: content digests
  NoContent,
  MaxTrainErrors,       \* bound: failing operations
  MaxTrainInterrupts,   \* bound: interrupts of a host command
  MaxTrainKills         \* bound: killed processes

ASSUME TrainingAssumption ==
  /\ NoContent \notin Contents
  /\ MaxTrainErrors \in Nat
  /\ MaxTrainInterrupts \in Nat
  /\ MaxTrainKills \in Nat

VARIABLES
  host,        \* where the command of each run is
  worker,      \* where its trainer container is
  finalizer,   \* where its finalizer container is
  runDir,      \* its directory below runs/train
  temporary,   \* its hidden .staging directory below checkpoints/
  registry,    \* the checkpoint bundles: the run that published each content
  causes,      \* history: what struck each run
  strikes      \* what is left of the bounds

trainingVars == <<host, worker, finalizer, runDir, temporary, registry, causes, strikes>>

Final == {"completed", "failed", "interrupted"}

RunDirectory ==
  [result: {"none", "checkpointing"} \union Final,
   checkpoint: Contents \union {NoContent},   \* checkpoint_id of result.json
   events: SUBSET {"planned", "preparing", "running", "checkpointing", "failed", "interrupted"},
   staged: Contents \union {NoContent},       \* staging-checkpoints/final
   manifest: BOOLEAN,                         \* manifest.json, status completed
   sealed: SUBSET {"result", "events"}]       \* inventoried files that are still as they were

EmptyDirectory ==
  [result |-> "none", checkpoint |-> NoContent, events |-> {}, staged |-> NoContent,
   manifest |-> FALSE, sealed |-> {}]

\* TrainingRunStore.event and atomic_json(result.json): a later write makes
\* what the manifest says of the file stale.
WithEvents(d, es) == [d EXCEPT !.events = @ \union es, !.sealed = @ \ {"events"}]
WithResult(d, status, c) ==
  [d EXCEPT !.result = status, !.checkpoint = c, !.sealed = @ \ {"result"}]

\* TrainingRunStore.fail
Failing(d, status) == WithResult(WithEvents(d, {status}), status, NoContent)

HostEnds == {"done", "failed", "interrupted", "dead"}
HostLabels ==
  {"create", "fill", "start", "train", "stop", "mark", "fail", "finalize", "report"} \union HostEnds
WorkerLive == {"prepare", "train", "result", "event", "return", "interrupting", "except"}
WorkerEnds == {"succeeded", "failed", "interrupted", "dead"}
FinalizerLive == {"check", "temporary", "fill", "rename", "result", "seal", "clean", "except"}
FinalizerEnds == {"succeeded", "failed", "dead"}

TrainingTypeOK ==
  /\ host \in [TrainingRuns -> HostLabels]
  /\ worker \in [TrainingRuns -> {"none"} \union WorkerLive \union WorkerEnds]
  /\ finalizer \in [TrainingRuns -> {"none"} \union FinalizerLive \union FinalizerEnds]
  /\ runDir \in [TrainingRuns -> RunDirectory]
  /\ temporary \in [TrainingRuns -> {"none", "partial", "whole"}]
  /\ registry \in [Contents -> [by: SUBSET TrainingRuns, whole: BOOLEAN]]
  /\ causes \in [TrainingRuns -> SUBSET {"error", "interrupt", "again", "kill", "race"}]
  /\ strikes \in [errors: 0..MaxTrainErrors, interrupts: 0..MaxTrainInterrupts,
                  kills: 0..MaxTrainKills]

TrainingInit ==
  /\ host = [r \in TrainingRuns |-> "create"]
  /\ worker = [r \in TrainingRuns |-> "none"]
  /\ finalizer = [r \in TrainingRuns |-> "none"]
  /\ runDir = [r \in TrainingRuns |-> EmptyDirectory]
  /\ temporary = [r \in TrainingRuns |-> "none"]
  /\ registry = [c \in Contents |-> [by |-> {}, whole |-> FALSE]]
  /\ causes = [r \in TrainingRuns |-> {}]
  /\ strikes = [errors |-> MaxTrainErrors, interrupts |-> MaxTrainInterrupts,
                kills |-> MaxTrainKills]

HostAt(r, from, to) == host[r] = from /\ host' = [host EXCEPT ![r] = to]
WorkerAt(r, from, to) == worker[r] = from /\ worker' = [worker EXCEPT ![r] = to]
FinalizerAt(r, from, to) == finalizer[r] = from /\ finalizer' = [finalizer EXCEPT ![r] = to]
Rewrite(r, d) == runDir' = [runDir EXCEPT ![r] = d]

-----------------------------------------------------------------------------
(* The host command.                                                       *)

\* Profile, images, plan and base checkpoint are resolved; mkdir of the run.
CreateRunDirectory(r) ==
  /\ HostAt(r, "create", "fill")
  /\ UNCHANGED <<worker, finalizer, runDir, temporary, registry, causes, strikes>>

\* Profiles, plan, provenance and the "planned" event.
RecordPlan(r) ==
  /\ HostAt(r, "fill", "start")
  /\ Rewrite(r, WithEvents(runDir[r], {"planned"}))
  /\ UNCHANGED <<worker, finalizer, temporary, registry, causes, strikes>>

\* The dataset is inspected, container-commands.json written, outside any
\* except clause; docker run of the trainer.
StartTrainer(r) ==
  /\ HostAt(r, "start", "train")
  /\ worker' = [worker EXCEPT ![r] = "prepare"]
  /\ UNCHANGED <<finalizer, runDir, temporary, registry, causes, strikes>>

StartFinalizer(r) ==
  /\ worker[r] = "succeeded"
  /\ HostAt(r, "train", "finalize")
  /\ finalizer' = [finalizer EXCEPT ![r] = "check"]
  /\ UNCHANGED <<worker, runDir, temporary, registry, causes, strikes>>

\* A non-zero exit code: fail is called only if the trainer left no result.
TrainerFailed(r) ==
  /\ worker[r] \in {"failed", "interrupted", "dead"}
  /\ HostAt(r, "train", IF runDir[r].result = "none" THEN "fail" ELSE "failed")
  /\ UNCHANGED <<worker, finalizer, runDir, temporary, registry, causes, strikes>>

RecordTrainerFailure(r) ==
  /\ HostAt(r, "fail", "failed")
  /\ Rewrite(r, Failing(runDir[r], "failed"))
  /\ UNCHANGED <<worker, finalizer, temporary, registry, causes, strikes>>

\* Mutant: the container is removed and the run left as it is.
StopTrainerUnmarked(r) ==
  /\ HostAt(r, "stop", "interrupted")
  /\ worker' = [worker EXCEPT ![r] = IF @ \in WorkerLive THEN "dead" ELSE @]
  /\ UNCHANGED <<finalizer, runDir, temporary, registry, causes, strikes>>

\* except KeyboardInterrupt: docker stop and docker rm --force.
StopTrainer(r) ==
  /\ HostAt(r, "stop", "mark")
  /\ worker' = [worker EXCEPT ![r] = IF @ \in WorkerLive THEN "dead" ELSE @]
  /\ UNCHANGED <<finalizer, runDir, temporary, registry, causes, strikes>>

MarkInterrupted(r) ==
  /\ HostAt(r, "mark", "interrupted")
  /\ Rewrite(r, Failing(runDir[r], "interrupted"))
  /\ UNCHANGED <<worker, finalizer, temporary, registry, causes, strikes>>

FinalizerEnded(r) ==
  /\ finalizer[r] \in FinalizerEnds
  /\ HostAt(r, "finalize", IF finalizer[r] = "succeeded" THEN "report" ELSE "failed")
  /\ UNCHANGED <<worker, finalizer, runDir, temporary, registry, causes, strikes>>

\* The reporting container reads the run and writes below exports/.
ReportRun(r) ==
  /\ HostAt(r, "report", "done")
  /\ UNCHANGED <<worker, finalizer, runDir, temporary, registry, causes, strikes>>

HostStep(r) ==
  \/ CreateRunDirectory(r) \/ RecordPlan(r) \/ StartTrainer(r) \/ StartFinalizer(r)
  \/ TrainerFailed(r) \/ RecordTrainerFailure(r) \/ StopTrainer(r) \/ MarkInterrupted(r)
  \/ FinalizerEnded(r) \/ ReportRun(r)

-----------------------------------------------------------------------------
(* The trainer container.                                                  *)

\* preflight, initialize and the two events.
Prepare(r) ==
  /\ WorkerAt(r, "prepare", "train")
  /\ Rewrite(r, WithEvents(runDir[r], {"preparing", "running"}))
  /\ UNCHANGED <<host, finalizer, temporary, registry, causes, strikes>>

\* The optimizer steps and the staged checkpoint (module TrainingLoop).
Train(r) ==
  /\ WorkerAt(r, "train", "result")
  /\ \E c \in Contents : Rewrite(r, [runDir[r] EXCEPT !.staged = c])
  /\ UNCHANGED <<host, finalizer, temporary, registry, causes, strikes>>

ReportCheckpointing(r) ==
  /\ WorkerAt(r, "result", "event")
  /\ Rewrite(r, WithResult(runDir[r], "checkpointing", NoContent))
  /\ UNCHANGED <<host, finalizer, temporary, registry, causes, strikes>>

AppendCheckpointing(r) ==
  /\ WorkerAt(r, "event", "return")
  /\ Rewrite(r, WithEvents(runDir[r], {"checkpointing"}))
  /\ UNCHANGED <<host, finalizer, temporary, registry, causes, strikes>>

\* adapter.finalize finds the staged directory, adapter.close, exit code 0.
ReturnFromTraining(r) ==
  /\ WorkerAt(r, "return", "succeeded")
  /\ runDir[r].staged # NoContent
  /\ UNCHANGED <<host, finalizer, runDir, temporary, registry, causes, strikes>>

\* adapter.interrupt writes the result, store.fail event and result.
HandleInterrupt(r) ==
  /\ WorkerAt(r, "interrupting", "interrupted")
  /\ Rewrite(r, Failing(runDir[r], "interrupted"))
  /\ UNCHANGED <<host, finalizer, temporary, registry, causes, strikes>>

HandleTrainingError(r) ==
  /\ WorkerAt(r, "except", "failed")
  /\ Rewrite(r, Failing(runDir[r], "failed"))
  /\ UNCHANGED <<host, finalizer, temporary, registry, causes, strikes>>

WorkerStep(r) ==
  \/ Prepare(r) \/ Train(r) \/ ReportCheckpointing(r) \/ AppendCheckpointing(r)
  \/ ReturnFromTraining(r) \/ HandleInterrupt(r) \/ HandleTrainingError(r)

-----------------------------------------------------------------------------
(* The finalizer container: CheckpointBundleStore.finalize.                *)

\* The staged files are validated and inventoried; a bundle of the same
\* identity is verified and used again.
Inventory(r) ==
  /\ finalizer[r] = "check"
  /\ FinalizerAt(r, "check", IF registry[runDir[r].staged].by # {} THEN "result" ELSE "temporary")
  /\ UNCHANGED <<host, worker, runDir, temporary, registry, causes, strikes>>

MakeTemporary(r) ==
  /\ FinalizerAt(r, "temporary", "fill")
  /\ temporary' = [temporary EXCEPT ![r] = "partial"]
  /\ UNCHANGED <<host, worker, runDir, registry, causes, strikes>>

\* Files are linked or copied, checkpoint.json and last manifest.json written.
FillTemporary(r) ==
  /\ FinalizerAt(r, "fill", "rename")
  /\ temporary' = [temporary EXCEPT ![r] = "whole"]
  /\ UNCHANGED <<host, worker, runDir, registry, causes, strikes>>

\* No bundle has this identity.
IdentityFree(r) == registry[runDir[r].staged].by = {}

\* os.replace of a directory succeeds only where no bundle is.
PublishBundle(r) ==
  /\ FinalizerAt(r, "rename", "result")
  /\ IdentityFree(r)
  /\ registry' = [registry EXCEPT
       ![runDir[r].staged] = [by |-> {r}, whole |-> temporary[r] = "whole"]]
  /\ temporary' = [temporary EXCEPT ![r] = "none"]
  /\ UNCHANGED <<host, worker, runDir, causes, strikes>>

LoseRace(r) ==
  /\ FinalizerAt(r, "rename", "clean")
  /\ ~IdentityFree(r)
  /\ causes' = [causes EXCEPT ![r] = @ \union {"race"}]
  /\ UNCHANGED <<host, worker, runDir, temporary, registry, strikes>>

CompleteRun(r) ==
  /\ FinalizerAt(r, "result", "seal")
  /\ Rewrite(r, WithResult(runDir[r], "completed", runDir[r].staged))
  /\ UNCHANGED <<host, worker, temporary, registry, causes, strikes>>

\* inventory of the run directory, manifest.json.
SealRun(r) ==
  /\ FinalizerAt(r, "seal", "succeeded")
  /\ Rewrite(r, [runDir[r] EXCEPT !.manifest = TRUE, !.sealed = {"result", "events"}])
  /\ UNCHANGED <<host, worker, temporary, registry, causes, strikes>>

RemoveTemporary(r) ==
  /\ FinalizerAt(r, "clean", "except")
  /\ temporary' = [temporary EXCEPT ![r] = "none"]
  /\ UNCHANGED <<host, worker, runDir, registry, causes, strikes>>

HandleFinalizerError(r) ==
  /\ FinalizerAt(r, "except", "failed")
  /\ Rewrite(r, Failing(runDir[r], "failed"))
  /\ UNCHANGED <<host, worker, temporary, registry, causes, strikes>>

FinalizerStep(r) ==
  \/ Inventory(r) \/ MakeTemporary(r) \/ FillTemporary(r) \/ PublishBundle(r) \/ LoseRace(r)
  \/ CompleteRun(r) \/ SealRun(r) \/ RemoveTemporary(r) \/ HandleFinalizerError(r)

-----------------------------------------------------------------------------
(* What strikes them.                                                      *)

Struck(r, cause, kind) ==
  /\ strikes[kind] > 0
  /\ strikes' = [strikes EXCEPT ![kind] = @ - 1]
  /\ causes' = [causes EXCEPT ![r] = @ \union {cause}]
  /\ UNCHANGED <<runDir, temporary, registry>>

\* An operation raises: each process has its own except clauses.
HostError(r) ==
  /\ host[r] \in {"create", "fill", "start", "stop", "mark", "fail", "report"}
  /\ host' = [host EXCEPT ![r] = "failed"]
  /\ Struck(r, "error", "errors")
  /\ UNCHANGED <<worker, finalizer>>

WorkerError(r) ==
  /\ worker[r] \in WorkerLive
  /\ worker' = [worker EXCEPT ![r] = IF @ \in {"interrupting", "except"} THEN "dead" ELSE "except"]
  /\ Struck(r, "error", "errors")
  /\ UNCHANGED <<host, finalizer>>

FinalizerError(r) ==
  /\ finalizer[r] \in FinalizerLive \ {"clean"}
  /\ finalizer' = [finalizer EXCEPT ![r] =
       IF @ = "except" THEN "dead" ELSE IF @ \in {"fill", "rename"} THEN "clean" ELSE "except"]
  /\ Struck(r, "error", "errors")
  /\ UNCHANGED <<host, worker>>

\* Mutant: the except clause also surrounds the finalizer.
HandlesInterruptAlways == {"train", "finalize"}

\* Where KeyboardInterrupt is caught: the wait for the trainer.
HandlesInterrupt == {"train"}

\* The container in the foreground gets the signal too, or not yet.
InterruptHost(r) ==
  /\ host[r] \notin HostEnds
  /\ host' = [host EXCEPT ![r] = IF @ \in HandlesInterrupt THEN "stop" ELSE "interrupted"]
  /\ \/ UNCHANGED <<worker, finalizer>>
     \/ /\ host[r] = "train"
        /\ worker[r] \in WorkerLive
        /\ worker' = [worker EXCEPT ![r] =
             IF @ \in {"interrupting", "except"} THEN "dead" ELSE "interrupting"]
        /\ UNCHANGED finalizer
     \/ /\ host[r] = "finalize"
        /\ finalizer[r] \in FinalizerLive
        /\ finalizer' = [finalizer EXCEPT ![r] = "dead"]
        /\ UNCHANGED worker
  /\ Struck(r, IF host[r] \in {"stop", "mark"} THEN "again" ELSE "interrupt", "interrupts")

KillOne(r) ==
  /\ \/ /\ host[r] \notin HostEnds
        /\ host' = [host EXCEPT ![r] = "dead"]
        /\ UNCHANGED <<worker, finalizer>>
     \/ /\ worker[r] \in WorkerLive
        /\ worker' = [worker EXCEPT ![r] = "dead"]
        /\ UNCHANGED <<host, finalizer>>
     \/ /\ finalizer[r] \in FinalizerLive
        /\ finalizer' = [finalizer EXCEPT ![r] = "dead"]
        /\ UNCHANGED <<host, worker>>
  /\ Struck(r, "kill", "kills")

TrainingProgress(r) == HostStep(r) \/ WorkerStep(r) \/ FinalizerStep(r)

TrainingNext ==
  \E r \in TrainingRuns :
     \/ TrainingProgress(r)
     \/ HostError(r) \/ WorkerError(r) \/ FinalizerError(r)
     \/ InterruptHost(r) \/ KillOne(r)

TrainingSpec == TrainingInit /\ [][TrainingNext]_trainingVars

-----------------------------------------------------------------------------
(* Properties.                                                             *)

\* A run that `train verify` accepts stays acceptable: what its manifest
\* inventoried is unchanged, it says completed and the checkpoint it names is
\* in the registry.  No late write of the host, a dying trainer or the
\* finalizer's own except clause reaches a sealed run.
SealedRunsIntact ==
  \A r \in TrainingRuns : runDir[r].manifest =>
    /\ runDir[r].sealed = {"result", "events"}
    /\ runDir[r].result = "completed"
    /\ runDir[r].checkpoint # NoContent
    /\ registry[runDir[r].checkpoint].by # {}

\* Nothing half-written is ever visible in the registry, and no interrupted
\* training publishes: TRAINING.md:299-301.
PublishedBundlesSound ==
  \A c \in Contents, r \in TrainingRuns : r \in registry[c].by =>
    /\ registry[c].whole
    /\ runDir[r].staged = c
    /\ runDir[r].result \in {"checkpointing", "completed", "failed"}

Quiet(r) ==
  host[r] \in HostEnds /\ worker[r] \notin WorkerLive /\ finalizer[r] \notin FinalizerLive

\* When nothing works on a run any more its result is final, or something
\* killed a process, interrupted the finalization or failed outside the
\* handlers; a command that nothing disturbed completes unless another run
\* published the same content between its check and its rename.  An interrupt
\* after the "planned" event and before docker run is caught nowhere: that run
\* has no result, hence the third part speaks of runs whose trainer started.
RunsSettled ==
  \A r \in TrainingRuns : Quiet(r) =>
    /\ causes[r] = {} => host[r] = "done" /\ runDir[r].manifest
    /\ causes[r] = {"race"} => host[r] = "failed" /\ runDir[r].result = "failed"
    /\ causes[r] = {"interrupt"} /\ finalizer[r] = "none" /\ worker[r] # "none" =>
         runDir[r].result = "interrupted"

\* What the commands `train verify` and `models` accept can be relied on, sealed
\* runs and published bundles, and every other run says how it ended
\* (training_runs.py, CheckpointBundleStore, training_deployment.py).
TrainingRunsHold == SealedRunsIntact /\ PublishedBundlesSound /\ RunsSettled

BundleRegistry == INSTANCE PublicationRegistry WITH
  Identities <- Contents,
  Entries <- TrainingRuns,
  Readers <- TrainingRuns,
  published <- {p \in Contents \X TrainingRuns : p[2] \in registry[p[1]].by},
  relied <- {<<r, runDir[r].checkpoint>> : r \in {q \in TrainingRuns : runDir[q].manifest}}

\* A bundle is published by one run for ever, and a run's manifest names a
\* bundle that is there, for ever that one, although trainings of one content
\* race for its identity and are failed, interrupted and killed anywhere.
BundlesImplementRegistry == BundleRegistry!RegistrySpec
=============================================================================
