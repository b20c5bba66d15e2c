---------------------------- MODULE TrainingLoop ----------------------------
(***************************************************************************)
(* One training inside the trainer container: the optimizer loops of       *)
(* training_runs.py (_execute_openvla_training) and of training_quic.py    *)
(* (execute), the evidence files they leave in the run directory, and what *)
(* the finalizer's validators (_validate_lora_staging,                     *)
(* validate_staged_adapter) demand of them.                                *)
(*                                                                         *)
(* Tensors are left out: a batch is its number of examples; a loss, a      *)
(* gradient, the memory peak and the comparisons after training turn out   *)
(* good or bad nondeterministically, and bad ends the training.            *)
(***************************************************************************)
EXTENDS Naturals, Sequences, FiniteSetsExt

CONSTANTS
  Jobs,          \* trainings to run: method, head, fit, partition, accumulation, maxSteps
  BatchStreams   \* what a loader may deliver: sequences of batch sizes

ASSUME TrainingLoopAssumption ==
  /\ Jobs # {} /\ BatchStreams \subseteq Seq(Nat)
  /\ \A j \in Jobs : j.accumulation \in Nat \ {0} /\ j.maxSteps \in Nat \ {0}

VARIABLES
  job,        \* the resolved plan
  stream,     \* the batches the loader delivers
  trainAt,    \* where the training is
  drawn,      \* microbatches taken from the loader
  pending,    \* examples and microbatches accumulated since the last optimizer step
  metrics,    \* the lines of metrics.jsonl
  evidence    \* the files in the run directory and below staging-checkpoints/final

loopVars == <<job, stream, trainAt, drawn, pending, metrics, evidence>>
loopSetup == <<job, stream>>

Nothing == [examples |-> 0, microbatches |-> 0]
IsQuic == job.method = "quic"
Examples(from, to) == MapThenSumSet(LAMBDA i : stream[i], from..to)

LoopInit ==
  /\ job = CHOOSE j \in Jobs : TRUE
  /\ stream = <<>>
  /\ trainAt = "idle"
  /\ drawn = 0
  /\ pending = Nothing
  /\ metrics = <<>>
  /\ evidence = {}

LoopAt(from, to) == trainAt = from /\ trainAt' = to
Leave(files) == evidence' = evidence \union files

\* Files a step of the code writes, given the plan.
HostEvidence ==
  CASE IsQuic -> {"target-selection", "data-partition", "quic-runtime", "normalization"}
                   \union (IF job.fit THEN {"fitted-normalization"} ELSE {})
    [] OTHER -> IF job.partition THEN {"data-partition"} ELSE {}
StagedFiles ==
  {"processor", "dataset-statistics"} \union
  (CASE IsQuic -> {"adapter.json", "adapter.safetensors"}
                    \union (IF job.head THEN {"action_head.safetensors"} ELSE {})
                    \union (IF job.fit THEN {"fitted-statistics"} ELSE {})
     [] job.method = "lora" -> {"adapter_config.json", "adapter_model.safetensors"}
     [] OTHER -> {"model.safetensors"})

BeginTraining ==
  /\ LoopAt("idle", "prepare")
  /\ job' \in Jobs
  /\ stream' \in BatchStreams
  /\ UNCHANGED <<drawn, pending, metrics, evidence>>

\* Model, data and optimizer are made.
PrepareTraining ==
  /\ ~IsQuic
  /\ LoopAt("prepare", "draw")
  /\ Leave(HostEvidence)
  /\ UNCHANGED <<loopSetup, drawn, pending, metrics>>

\* QuIC fits or takes over the normalization, checks that the fresh adapter
\* leaves the reference logits alone and scores the host first.
PrepareQuic ==
  /\ IsQuic
  /\ LoopAt("prepare", "draw")
  /\ Leave(HostEvidence \union {"target-manifest"})
  /\ UNCHANGED <<loopSetup, drawn, pending, metrics>>

\* A forward and backward pass.  The reference loop counts batches of the
\* loader, the QuIC loop the microbatches of the step.
Due(taken, accumulated) ==
  IF IsQuic THEN accumulated = job.accumulation ELSE taken % job.accumulation = 0

DrawBatch ==
  /\ trainAt = "draw"
  /\ drawn < Len(stream)
  /\ drawn' = drawn + 1
  /\ pending' = [examples |-> pending.examples + stream[drawn'],
                 microbatches |-> pending.microbatches + 1]
  /\ trainAt' = IF Due(drawn', pending'.microbatches) THEN "step" ELSE "draw"
  /\ Leave(IF drawn = 0 THEN {"data-flow"} ELSE {})
  /\ UNCHANGED <<loopSetup, metrics>>

\* Mutant: the accumulators are not reset between two optimizer steps.
AccumulatorsKept == pending

AccumulatorsReset == Nothing

MetricLine == [step |-> Len(metrics) + 1, examples |-> pending.examples]

\* optimizer.step, one line of metrics, accumulators back to zero.
OptimizerStep ==
  /\ trainAt = "step"
  /\ metrics' = Append(metrics, MetricLine)
  /\ pending' = AccumulatorsReset
  /\ trainAt' = IF Len(metrics') < job.maxSteps THEN "draw"
                ELSE IF IsQuic THEN "changed" ELSE "validate"
  /\ UNCHANGED <<loopSetup, drawn, evidence>>

\* The loader ends before the last optimizer step.
DatasetExhausted ==
  /\ drawn = Len(stream)
  /\ LoopAt("draw", "failed")
  /\ UNCHANGED <<loopSetup, drawn, pending, metrics, evidence>>

\* Held-out validation: before the save, for QuIC after the changed check.
Validate ==
  /\ LoopAt("validate", "save")
  /\ UNCHANGED <<loopSetup, drawn, pending, metrics, evidence>>

SaveCheckpoint ==
  /\ LoopAt("save", IF IsQuic THEN "reload"
                    ELSE IF job.method = "lora" THEN "changed" ELSE "report")
  /\ Leave(StagedFiles \union (IF IsQuic THEN {"reload-reference"} ELSE {}))
  /\ UNCHANGED <<loopSetup, drawn, pending, metrics>>

\* Some, for QuIC every, adapter tensor differs from its initial value.
CheckChanged ==
  /\ LoopAt("changed", IF IsQuic THEN "validate" ELSE "report")
  /\ UNCHANGED <<loopSetup, drawn, pending, metrics, evidence>>

\* The serialized adapter is loaded again and gives the same logits.
CheckReload ==
  /\ LoopAt("reload", "report")
  /\ UNCHANGED <<loopSetup, drawn, pending, metrics, evidence>>

\* result.json with status "checkpointing".
ReportTrained ==
  /\ LoopAt("report", "trained")
  /\ Leave({"result"})
  /\ UNCHANGED <<loopSetup, drawn, pending, metrics>>

\* A non-finite loss or gradient, the VRAM budget, a failed comparison, a
\* failed write: raised from wherever the training is, the files stay.
TrainingRaises ==
  /\ trainAt \in {"prepare", "draw", "step", "validate", "save", "changed", "reload", "report"}
  /\ trainAt' = "failed"
  /\ UNCHANGED <<loopSetup, drawn, pending, metrics, evidence>>

LoopProgress ==
  \/ BeginTraining \/ PrepareTraining \/ PrepareQuic \/ DrawBatch \/ OptimizerStep \/ DatasetExhausted
  \/ Validate \/ SaveCheckpoint \/ CheckChanged \/ CheckReload \/ ReportTrained

LoopNext == LoopProgress \/ TrainingRaises

LoopSpec == LoopInit /\ [][LoopNext]_loopVars

-----------------------------------------------------------------------------
(* What the finalizer asks for before it publishes.                        *)

FinalizerDemands ==
  CASE IsQuic -> {"adapter.json", "adapter.safetensors", "data-partition", "normalization",
                  "target-manifest"}
                   \union (IF job.head THEN {"action_head.safetensors"} ELSE {})
    [] job.method = "lora" -> {"adapter_config.json", "adapter_model.safetensors"}
    [] OTHER -> {}

\* Every line of metrics.jsonl accounts for exactly its own group of
\* microbatches, none is counted twice or dropped between two steps, whatever
\* the size of the last batch; both loops agree on where a group ends.
MetricsAccountForBatches ==
  trainAt # "idle" =>
    /\ \A k \in DOMAIN metrics :
         /\ metrics[k].step = k
         /\ metrics[k].examples = Examples((k - 1) * job.accumulation + 1, k * job.accumulation)
    /\ trainAt = "draw" =>
         pending.examples = Examples(Len(metrics) * job.accumulation + 1, drawn)

\* A training that reports "checkpointing" took every optimizer step of its
\* plan and left all that the finalizer will ask for: a finished training is
\* not lost for a missing file.
TrainedIsFinalizable ==
  trainAt = "trained" =>
    /\ Len(metrics) = job.maxSteps
    /\ pending = Nothing
    /\ FinalizerDemands \subseteq evidence

\* What metrics.jsonl and the status "checkpointing" say is so (training_runs.py
\* and training_quic.py, the two optimizer loops).
TrainingIsAccountedFor == MetricsAccountForBatches /\ TrainedIsFinalizable
=============================================================================
