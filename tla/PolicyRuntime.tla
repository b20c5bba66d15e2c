----------------------------- MODULE PolicyRuntime -----------------------------
(* The OpenVLA policies behind the PolicyAdapter: Vanilla, the merged LoRA   *)
(* and OFT, with the runtime that loads a snapshot, calls the model and      *)
(* decodes its actions.  The calls of one adapter come one after the other;  *)
(* the files of the snapshot may change between any two steps.  An operation *)
(* that is refused changes nothing and is no step.                           *)
EXTENDS Integers, Sequences

CONSTANTS
  Setups,              \* settings: a kind, a declared quantization, pinned or not
  PolicyEpisodes,      \* the IDs the client gives its episodes, each used once
  PoseValues,          \* decoded pose coordinates, in tenths
  GripperValues,       \* decoded gripper coordinates, in tenths
  ChunkLength,         \* rows of an OFT chunk (8 in the code)
  MaxLoads,            \* bound on the loads that are tried
  MaxIssued,           \* bound on the predictions of a behaviour
  MaxSnapshotChanges,  \* bound on the changes of the snapshot
  MaxRuntimeFaults     \* bound on the exceptions of libraries and device

Quantizations == {"none", "8bit", "4bit"}
(* pinned: the bytes of the manifest; other: different weights; lora: with    *)
(* active adapter parameters; nokey: no statistics for the action key         *)
SnapshotStates == {"pinned", "other", "lora", "nokey", "absent"}
(* parts: the snapshots an action head and a projector were read from.        *)
NoWeights == [weights |-> "none", bits |-> {}, parts |-> {}]

ASSUME PolicyRuntimeAssumption ==
  /\ \A s \in Setups : /\ s.kind \in {"vanilla", "lora", "oft"}
                       /\ s.bits \in Quantizations /\ s.pinned \in BOOLEAN
  /\ PoseValues \subseteq Int /\ GripperValues \subseteq Int
  /\ ChunkLength \in Nat \ {0, 1}

VARIABLES
  setup,          \* the settings of this process
  weightsOnDisk,       \* what the checkpoint directory holds
  policy,         \* the adapter: state, episode, index of the next prediction, identity
  runtime,        \* the runtime: stage of a call, model, the model a load holds so far,
                  \* load counts, wrapped methods
  issued,         \* the predictions that were handed out
  policyBudget    \* what may still change or fail
policyVars == <<setup, weightsOnDisk, policy, runtime, issued, policyBudget>>

Oft == setup.kind = "oft"
Pinned == setup.pinned \/ Oft
Horizon == IF Oft THEN ChunkLength ELSE 1

PolicyInit ==
  /\ setup \in Setups
  /\ weightsOnDisk \in SnapshotStates
  /\ policy = [state |-> "created", episode |-> "none", used |-> {}, index |-> 0, identity |-> NoWeights]
  /\ runtime = [stage |-> "idle", model |-> NoWeights, loading |-> NoWeights,
                torn |-> FALSE, wraps |-> 0,
                counts |-> [processor |-> 0, model |-> 0, heads |-> 0, projectors |-> 0]]
  /\ issued = <<>>
  /\ policyBudget = [changes |-> MaxSnapshotChanges, faults |-> MaxRuntimeFaults]

PolicyFault == /\ policyBudget.faults > 0
         /\ policyBudget' = [policyBudget EXCEPT !.faults = @ - 1]

-----------------------------------------------------------------------------
(* Loading. *)

(* Merged weights are served only with a manifest to check them against. *)
ValidMethod == setup.kind = "lora" => setup.pinned

(* verify: every file of the manifest is there with its size and hash. *)
ManifestHolds == weightsOnDisk = "pinned"

ResolveSnapshot ==
  /\ policy.state = "created" /\ runtime.stage = "idle"
  /\ ValidMethod
  /\ runtime.model = NoWeights /\ runtime.counts.processor < MaxLoads
  /\ weightsOnDisk # "absent"
  /\ Pinned => ManifestHolds
  /\ runtime' = [runtime EXCEPT !.stage = "resolved", !.torn = FALSE]
  /\ UNCHANGED <<setup, weightsOnDisk, policy, issued, policyBudget>>

LoadProcessor ==
  /\ runtime.stage = "resolved"
  /\ weightsOnDisk # "absent"
  /\ runtime' = [runtime EXCEPT !.stage = "processor", !.counts.processor = @ + 1]
  /\ UNCHANGED <<setup, weightsOnDisk, policy, issued, policyBudget>>

(* What the library quantized must be what the settings declare. *)
Quantized(bits) ==
  CASE setup.bits = "none" -> bits = {}
    [] setup.bits = "4bit" -> bits = {"4bit"}
    [] setup.bits = "8bit" -> bits = {"8bit"}

Servable(weights) == weights \notin {"nokey", "lora"}

(* The weights with their statistics, counted before any check on them. *)
LoadModel ==
  /\ runtime.stage = "processor"
  /\ weightsOnDisk # "absent"
  /\ \E bits \in SUBSET {"8bit", "4bit"} :
       runtime' = [runtime EXCEPT !.stage = "model", !.counts.model = @ + 1,
                     !.loading = [NoWeights EXCEPT !.weights = weightsOnDisk, !.bits = bits]]
  /\ UNCHANGED <<setup, weightsOnDisk, policy, issued, policyBudget>>

(* The load ends with what it holds as the model of the runtime. *)
Assigned(r, model) ==
  [r EXCEPT !.stage = "assigned", !.model = model, !.loading = NoWeights]

Abandoned(r) == [r EXCEPT !.stage = "idle", !.loading = NoWeights]

CheckModel ==
  /\ runtime.stage = "model"
  /\ runtime' =
       IF ~(Servable(runtime.loading.weights) /\ Quantized(runtime.loading.bits))
       THEN Abandoned(runtime)
       ELSE IF Oft THEN [runtime EXCEPT !.stage = "checked"]
       ELSE Assigned(runtime, runtime.loading)
  /\ UNCHANGED <<setup, weightsOnDisk, policy, issued, policyBudget>>

(* OFT loads an action head and then a projector beside its backbone and     *)
(* counts each by itself: a head stays counted when its projector fails.     *)
LoadHead ==
  /\ runtime.stage = "checked"
  /\ weightsOnDisk # "absent"
  /\ runtime' = [runtime EXCEPT !.stage = "head", !.counts.heads = @ + 1,
                   !.loading.parts = @ \union {weightsOnDisk}]
  /\ UNCHANGED <<setup, weightsOnDisk, policy, issued, policyBudget>>

LoadProjector ==
  /\ runtime.stage = "head"
  /\ weightsOnDisk # "absent"
  /\ runtime' = Assigned([runtime EXCEPT !.counts.projectors = @ + 1],
                         [runtime.loading EXCEPT !.parts = @ \union {weightsOnDisk}])
  /\ UNCHANGED <<setup, weightsOnDisk, policy, issued, policyBudget>>

LoadStages == {"resolved", "processor", "model", "checked", "head"}

(* An exception before the model is assigned leaves nothing loaded, but what  *)
(* it counted: another initialize loads and counts it again.                  *)
LoadFails ==
  /\ runtime.stage \in LoadStages
  /\ IF weightsOnDisk = "absent" THEN UNCHANGED policyBudget ELSE PolicyFault
  /\ runtime' = Abandoned(runtime)
  /\ UNCHANGED <<setup, weightsOnDisk, policy, issued>>

(* finally: the method is put back whether the call returns or raises. *)
ReturnedUnrestored(r) == [r EXCEPT !.stage = "idle"]
Returned(r) == [r EXCEPT !.stage = "idle", !.wraps = IF Oft THEN @ - 1 ELSE @]

(* OFT calls the model once before it reports; Vanilla describes what it loaded. *)
WarmUp ==
  /\ runtime.stage = "assigned" /\ Oft
  /\ runtime' = [runtime EXCEPT !.stage = "warming", !.wraps = @ + 1]
  /\ UNCHANGED <<setup, weightsOnDisk, policy, issued, policyBudget>>

Serve ==
  /\ runtime' = Returned(runtime)
  /\ policy' = [policy EXCEPT !.state = "ready", !.identity = runtime.model]
  /\ UNCHANGED <<setup, weightsOnDisk, issued, policyBudget>>

ReportVanilla == runtime.stage = "assigned" /\ ~Oft /\ Serve
ReportOft == runtime.stage = "warming" /\ Serve

(* A failure after the assignment leaves the runtime loaded below an adapter  *)
(* that is still created: every later initialize is refused.                  *)
ReportFails ==
  /\ runtime.stage \in {"assigned", "warming"} /\ PolicyFault
  /\ runtime' = IF runtime.stage = "warming" THEN Returned(runtime)
                 ELSE [runtime EXCEPT !.stage = "idle"]
  /\ UNCHANGED <<setup, weightsOnDisk, policy, issued>>

SnapshotChanges ==
  /\ policyBudget.changes > 0
  /\ \E s \in SnapshotStates \ {weightsOnDisk} : weightsOnDisk' = s
  /\ policyBudget' = [policyBudget EXCEPT !.changes = @ - 1]
  /\ runtime' = [runtime EXCEPT !.torn = @ \/ runtime.stage \in LoadStages]
  /\ UNCHANGED <<setup, policy, issued>>

-----------------------------------------------------------------------------
(* Episodes and predictions. *)

ResetPolicyEpisode(e) ==
  /\ policy.state = "ready" /\ e \notin policy.used
  /\ policy' = [policy EXCEPT !.state = "active", !.episode = e, !.index = 0, !.used = @ \union {e}]
  /\ UNCHANGED <<setup, weightsOnDisk, runtime, issued, policyBudget>>

Rows == [pose : PoseValues, gripper : GripperValues]
SignOf(n) == IF n > 0 THEN 1 ELSE IF n < 0 THEN -1 ELSE 0

TokenEncodable(rows) ==
  \A i \in DOMAIN rows : rows[i].pose \in -10..10 /\ rows[i].gripper \in 0..10

(* The regression head may overshoot the gripper's range. *)
ChunkEncodable(rows) == \A i \in DOMAIN rows : rows[i].pose \in -10..10

Encodable(rows) == IF Oft THEN ChunkEncodable(rows) ELSE TokenEncodable(rows)

(* The gripper is normalised to -1..1, binarised and inverted. *)
Encoded(rows) ==
  [i \in DOMAIN rows |-> [rows[i] EXCEPT !.gripper = -10 * SignOf(2 * rows[i].gripper - 10)]]

MayCall == policy.state = "active" /\ runtime.stage = "idle" /\ Len(issued) < MaxIssued

CallVanilla ==
  /\ MayCall /\ ~Oft
  /\ runtime' = [runtime EXCEPT !.stage = "calling"]
  /\ UNCHANGED <<setup, weightsOnDisk, policy, issued, policyBudget>>

(* OFT replaces a method of the model for the time of the call. *)
CallOft ==
  /\ MayCall /\ Oft
  /\ runtime' = [runtime EXCEPT !.stage = "calling", !.wraps = @ + 1]
  /\ UNCHANGED <<setup, weightsOnDisk, policy, issued, policyBudget>>

CallFails ==
  /\ runtime.stage = "calling" /\ PolicyFault
  /\ runtime' = Returned(runtime)
  /\ UNCHANGED <<setup, weightsOnDisk, policy, issued>>

IdOf(p) == <<p.episode, p.index>>

Issue ==
  /\ runtime' = Returned(runtime)
  /\ \E rows \in [1..Horizon -> Rows] :
       /\ Encodable(rows)
       /\ policy' = [policy EXCEPT !.index = @ + 1]
       /\ issued' = Append(issued, [id |-> IdOf(policy), decoded |-> rows, actions |-> Encoded(rows)])
  /\ UNCHANGED <<setup, weightsOnDisk, policyBudget>>

PredictVanilla == runtime.stage = "calling" /\ ~Oft /\ Issue
PredictOft == runtime.stage = "calling" /\ Oft /\ Issue

(* The codec refuses before the index advances. *)
DecodeFails ==
  /\ runtime.stage = "calling"
  /\ \E rows \in [1..Horizon -> Rows] : ~Encodable(rows)
  /\ PolicyFault
  /\ runtime' = Returned(runtime)
  /\ UNCHANGED <<setup, weightsOnDisk, policy, issued>>

(* A prediction that is not a valid record is refused after it: the ID is lost. *)
RecordRefused ==
  /\ runtime.stage = "calling" /\ PolicyFault
  /\ runtime' = Returned(runtime)
  /\ policy' = [policy EXCEPT !.index = @ + 1]
  /\ UNCHANGED <<setup, weightsOnDisk, issued>>

EndEpisode ==
  /\ policy.state = "active" /\ runtime.stage = "idle"
  /\ policy' = [policy EXCEPT !.state = "ready", !.episode = "none", !.index = 0]
  /\ UNCHANGED <<setup, weightsOnDisk, runtime, issued, policyBudget>>

ClosePolicy ==
  /\ policy.state # "closed" /\ runtime.stage = "idle"
  /\ policy' = [policy EXCEPT !.state = "closed", !.episode = "none", !.identity = NoWeights]
  /\ runtime' = [runtime EXCEPT !.model = NoWeights]
  /\ UNCHANGED <<setup, weightsOnDisk, issued, policyBudget>>

PolicyNext ==
  \/ ResolveSnapshot \/ LoadProcessor \/ LoadModel \/ CheckModel \/ LoadHead \/ LoadProjector
  \/ LoadFails
  \/ WarmUp \/ ReportVanilla \/ ReportOft \/ ReportFails
  \/ SnapshotChanges
  \/ \E e \in PolicyEpisodes : ResetPolicyEpisode(e)
  \/ CallVanilla \/ CallOft \/ CallFails \/ PredictVanilla \/ PredictOft \/ DecodeFails \/ RecordRefused
  \/ EndEpisode \/ ClosePolicy

PolicySpec == PolicyInit /\ [][PolicyNext]_policyVars

-----------------------------------------------------------------------------
(* What an adapter that takes episodes serves is what it announced: weights   *)
(* that passed every check (quantized as declared, with statistics, without   *)
(* adapters) and, when a manifest pins them, the pinned ones in every part,   *)
(* unless the files were changed between their hashing and their loading.     *)
(* Its load counts fit together however often a load was tried: no part is    *)
(* counted more often than the one before it, and the last one, which only a  *)
(* load that succeeds reaches, is counted once.                               *)
AnnouncedIsServed ==
  policy.state \in {"ready", "active"} =>
    /\ runtime.model = policy.identity
    /\ Servable(runtime.model.weights) /\ Quantized(runtime.model.bits)
    /\ Pinned /\ ~runtime.torn =>
         runtime.model.weights = "pinned" /\ runtime.model.parts \subseteq {"pinned"}
    /\ runtime.counts.processor >= runtime.counts.model /\ runtime.counts.model > 0
    /\ runtime.counts.model >= runtime.counts.heads
    /\ Oft => /\ runtime.counts.heads > 0 /\ runtime.counts.projectors = 1
              /\ runtime.model.parts # {}

(* No weights outlive the adapter, and no call leaves a method replaced. *)
RuntimeIsRestored ==
  /\ policy.state = "closed" => runtime.model = NoWeights
  /\ runtime.wraps = (IF Oft /\ runtime.stage \in {"calling", "warming"} THEN 1 ELSE 0)

(* The IDs of a run's predictions never repeat and grow within an episode,    *)
(* and an action is in LIBERO's range with the gripper closed where the model *)
(* said closed: converted exactly once.                                       *)
PredictionsAreSound ==
  /\ \A i, j \in DOMAIN issued :
       i < j => /\ issued[i].id # issued[j].id
                /\ issued[i].id[1] = issued[j].id[1] => issued[i].id[2] < issued[j].id[2]
  /\ \A i \in DOMAIN issued : \A k \in DOMAIN issued[i].actions :
       LET action == issued[i].actions[k]
           decoded == issued[i].decoded[k]
       IN /\ action.pose = decoded.pose /\ action.pose \in -10..10
          /\ action.gripper \in {-10, 0, 10}
          /\ decoded.gripper < 5 <=> action.gripper > 0
          /\ decoded.gripper > 5 <=> action.gripper < 0

(* An OpenVLA policy announces what it serves, leaves nothing behind, and its *)
(* predictions have distinct IDs and actions of the benchmark's convention.   *)
PolicyServesWhatItAnnounced == AnnouncedIsServed /\ RuntimeIsRestored /\ PredictionsAreSound
=============================================================================
