---------------------------- MODULE Policies_proofs ----------------------------
(***************************************************************************)
(* The policies and where their checkpoints come from: the runtime of the  *)
(* OpenVLA policies (PolicyRuntime), the QuIC provider (QuicProvider) and  *)
(* the training runs with the registry they publish to (TrainingRun).  The *)
(* components share no variable.                                           *)
(***************************************************************************)
EXTENDS PolicyRuntime, QuicProvider, TrainingRun, TLAPS

-----------------------------------------------------------------------------
(* The OpenVLA policies, for every set of settings, episodes and values.     *)

Weights == [weights : SnapshotStates \union {"none"}, bits : SUBSET {"8bit", "4bit"},
            parts : SUBSET SnapshotStates]
Counts == [processor : Nat, model : Nat, heads : Nat, projectors : Nat]
Stages == {"idle", "assigned", "warming", "calling"} \union LoadStages
ValueRows == [pose : Int, gripper : Int]

PolicyTypeOK ==
  /\ setup \in Setups /\ weightsOnDisk \in SnapshotStates
  /\ policy \in [state : {"created", "ready", "active", "closed"}, episode : PolicyEpisodes \union {"none"},
                 used : SUBSET PolicyEpisodes, index : Nat, identity : Weights]
  /\ runtime \in [stage : Stages, model : Weights, loading : Weights, torn : BOOLEAN, wraps : Int,
                  counts : Counts]

\* Every part comes from the pinned snapshot unless it changed since it was hashed.
Trusted(m) ==
  Pinned /\ ~runtime.torn => m.weights = "pinned" /\ m.parts \subseteq {"pinned"}

\* A model that passed every check.
Checked(m) ==
  /\ m # NoWeights /\ Servable(m.weights) /\ Quantized(m.bits) /\ Trusted(m)
  /\ runtime.counts.model > 0
  /\ Oft => runtime.counts.heads > 0 /\ runtime.counts.projectors = 1 /\ m.parts # {}

\* A load goes on below an adapter that is still created, over a snapshot that
\* is the pinned one unless it was changed since it was hashed, and holds what
\* it has read and checked so far.
LoadingFits ==
  /\ runtime.stage \in LoadStages =>
       /\ policy.state = "created" /\ runtime.model = NoWeights
       /\ (Pinned /\ ~runtime.torn) => weightsOnDisk = "pinned"
  /\ runtime.stage \in {"model", "checked", "head"} =>
       /\ runtime.loading.weights # "none" /\ Trusted(runtime.loading)
       /\ runtime.counts.model > 0
  /\ runtime.stage \in {"checked", "head"} =>
       Oft /\ Servable(runtime.loading.weights) /\ Quantized(runtime.loading.bits)
  /\ runtime.stage = "head" => runtime.counts.heads > 0 /\ runtime.loading.parts # {}
  /\ runtime.stage \in {"assigned", "warming"} => policy.state = "created" /\ runtime.model # NoWeights
  /\ runtime.stage = "calling" => policy.state = "active"
  /\ (policy.state = "created" /\ runtime.model = NoWeights) => runtime.counts.projectors = 0

\* A part is counted after the one before it, so it is never ahead, and a load
\* that is about to count one has it still to come.
CountsFit ==
  /\ runtime.counts.processor >= runtime.counts.model
  /\ runtime.counts.model >= runtime.counts.heads
  /\ runtime.stage = "processor" => runtime.counts.processor > runtime.counts.model
  /\ runtime.stage \in {"model", "checked"} => runtime.counts.model > runtime.counts.heads

\* What the runtime has loaded is checked, and what is served is announced.
ModelFits ==
  /\ runtime.model # NoWeights => Checked(runtime.model)
  /\ policy.state \in {"ready", "active"} =>
       runtime.model # NoWeights /\ runtime.model = policy.identity
  /\ policy.state = "closed" => runtime.model = NoWeights

WrapsFit ==
  /\ runtime.stage = "warming" => Oft
  /\ runtime.wraps = (IF Oft /\ runtime.stage \in {"calling", "warming"} THEN 1 ELSE 0)

\* The episodes of the predictions so far were used, and the next index of the
\* open episode is above those that were given.
IssuedFits ==
  /\ policy.state = "active" => policy.episode \in policy.used
  /\ \A i \in 1..Len(issued) :
       /\ issued[i].id[1] \in policy.used
       /\ (policy.state = "active" /\ issued[i].id[1] = policy.episode) =>
            issued[i].id[2] < policy.index

IssuedRecords == [id : PolicyEpisodes \X Nat, decoded : [1..Horizon -> ValueRows],
                  actions : [1..Horizon -> ValueRows]]

RuntimeInv == PolicyTypeOK /\ LoadingFits /\ CountsFit /\ ModelFits /\ WrapsFit
PolicyInv ==
  /\ RuntimeInv
  /\ issued \in Seq(IssuedRecords)
  /\ IssuedFits /\ PredictionsAreSound

LEMMA RuntimeInvInitially == PolicyInit => RuntimeInv
<1> SUFFICES ASSUME PolicyInit PROVE RuntimeInv
  OBVIOUS
<1>1. PolicyTypeOK
  BY DEF PolicyInit, PolicyTypeOK, NoWeights, Weights, Counts, Stages
<1>2. LoadingFits /\ CountsFit /\ ModelFits /\ WrapsFit
  BY DEF PolicyInit, LoadingFits, CountsFit, ModelFits, WrapsFit, LoadStages
<1> QED BY <1>1, <1>2 DEF RuntimeInv

(* One step of a load: the runtime changes, the adapter stays created, and   *)
(* unless the load ends with a model the runtime has none.                   *)
LEMMA LoadStepKeeps ==
  ASSUME RuntimeInv, UNCHANGED <<setup, weightsOnDisk, policy>>,
         policy.state = "created", runtime.stage \in LoadStages \union {"idle"},
         NEW r \in [stage : Stages, model : Weights, loading : Weights, torn : BOOLEAN, wraps : Int,
                    counts : Counts],
         runtime' = r, r.wraps = runtime.wraps,
         r.stage \in LoadStages \union {"idle", "assigned"},
         LoadingFits', CountsFit',
         r.model # NoWeights => Checked(r.model)'
  PROVE  RuntimeInv'
<1>1. PolicyTypeOK' /\ WrapsFit'
  BY DEF RuntimeInv, PolicyTypeOK, WrapsFit, LoadStages, Oft
<1>2. ModelFits'
  BY DEF ModelFits
<1> QED BY <1>1, <1>2 DEF RuntimeInv

LEMMA StartingKeeps ==
  ASSUME RuntimeInv, ResolveSnapshot \/ LoadProcessor \/ LoadFails
  PROVE  RuntimeInv'
<1>1. PolicyTypeOK /\ LoadingFits /\ CountsFit
  BY DEF RuntimeInv
<1>2. UNCHANGED <<setup, weightsOnDisk, policy>>
  BY DEF ResolveSnapshot, LoadProcessor, LoadFails
<1>3. /\ policy.state = "created" /\ runtime.model = NoWeights
      /\ runtime.stage \in LoadStages \union {"idle"} /\ runtime.counts.projectors = 0
  BY <1>1 DEF LoadingFits, LoadStages, ResolveSnapshot, LoadProcessor, LoadFails
<1>4. runtime.counts \in Counts
  BY <1>1 DEF PolicyTypeOK
<1>5. CASE ResolveSnapshot
  <2> PICK r : r = [runtime EXCEPT !.stage = "resolved", !.torn = FALSE]
    OBVIOUS
  <2>1. /\ r.stage = "resolved" /\ r.torn = FALSE /\ r.model = runtime.model
        /\ r.wraps = runtime.wraps /\ r.counts = runtime.counts /\ runtime' = r
        /\ r \in [stage : Stages, model : Weights, loading : Weights, torn : BOOLEAN, wraps : Int,
                  counts : Counts]
    BY <1>1, <1>5 DEF PolicyTypeOK, ResolveSnapshot, Stages, LoadStages
  <2>2. Pinned => weightsOnDisk = "pinned"
    BY <1>5 DEF ResolveSnapshot, ManifestHolds
  <2>3. LoadingFits' /\ CountsFit'
    BY <1>1, <1>2, <1>3, <2>1, <2>2 DEF LoadingFits, CountsFit, Pinned, Oft
  <2> QED BY <1>2, <1>3, <2>1, <2>3, LoadStepKeeps DEF LoadStages
<1>6. CASE LoadProcessor
  <2> PICK c : c = [runtime.counts EXCEPT !.processor = @ + 1]
    OBVIOUS
  <2>1. /\ c \in Counts /\ c.processor = runtime.counts.processor + 1 /\ c.model = runtime.counts.model
        /\ c.heads = runtime.counts.heads /\ c.projectors = runtime.counts.projectors
    BY <1>4 DEF Counts
  <2> PICK r : r = [runtime EXCEPT !.stage = "processor", !.counts = c]
    OBVIOUS
  <2>2. /\ r.stage = "processor" /\ r.torn = runtime.torn /\ r.model = runtime.model
        /\ r.wraps = runtime.wraps /\ r.counts = c /\ runtime' = r
        /\ r \in [stage : Stages, model : Weights, loading : Weights, torn : BOOLEAN, wraps : Int,
                  counts : Counts]
    BY <1>1, <1>6, <2>1 DEF PolicyTypeOK, LoadProcessor, Stages, LoadStages
  <2>3. (Pinned /\ ~runtime.torn) => weightsOnDisk = "pinned"
    BY <1>1, <1>6 DEF LoadProcessor, LoadingFits, LoadStages
  <2>4. LoadingFits'
    BY <1>1, <1>2, <1>3, <2>1, <2>2, <2>3 DEF LoadingFits, Pinned, Oft
  <2>5. CountsFit'
    BY <1>1, <1>4, <2>1, <2>2 DEF CountsFit, Counts
  <2> QED BY <1>2, <1>3, <2>2, <2>4, <2>5, LoadStepKeeps DEF LoadStages
<1>7. CASE LoadFails
  <2>1. /\ runtime' = Abandoned(runtime) /\ NoWeights \in Weights
    BY <1>7 DEF LoadFails, NoWeights, Weights
  <2> PICK r : r = [runtime EXCEPT !.stage = "idle", !.loading = NoWeights]
    OBVIOUS
  <2>2. /\ r.stage = "idle" /\ r.model = runtime.model
        /\ r.wraps = runtime.wraps /\ r.counts = runtime.counts /\ runtime' = r
        /\ r \in [stage : Stages, model : Weights, loading : Weights, torn : BOOLEAN, wraps : Int,
                  counts : Counts]
    BY <1>1, <2>1 DEF PolicyTypeOK, Abandoned, Stages
  <2>3. LoadingFits' /\ CountsFit'
    BY <1>1, <1>2, <1>3, <2>2 DEF LoadingFits, CountsFit, LoadStages
  <2> QED BY <1>2, <1>3, <2>2, <2>3, LoadStepKeeps
<1> QED BY <1>5, <1>6, <1>7

LEMMA LoadModelKeeps ==
  ASSUME RuntimeInv, LoadModel
  PROVE  RuntimeInv'
<1>1. PolicyTypeOK /\ LoadingFits /\ CountsFit
  BY DEF RuntimeInv
<1>2. UNCHANGED <<setup, weightsOnDisk, policy>> /\ runtime.stage = "processor"
  BY DEF LoadModel
<1>3. /\ policy.state = "created" /\ runtime.model = NoWeights /\ runtime.counts.projectors = 0
      /\ (Pinned /\ ~runtime.torn) => weightsOnDisk = "pinned"
  BY <1>1, <1>2 DEF LoadingFits, LoadStages
<1>4. PICK bits \in SUBSET {"8bit", "4bit"} :
        runtime' = [runtime EXCEPT !.stage = "model", !.counts.model = @ + 1,
                      !.loading = [NoWeights EXCEPT !.weights = weightsOnDisk, !.bits = bits]]
  BY DEF LoadModel
<1> PICK c : c = [runtime.counts EXCEPT !.model = @ + 1]
  OBVIOUS
<1>5. /\ c \in Counts /\ c.processor = runtime.counts.processor /\ c.model = runtime.counts.model + 1
      /\ c.heads = runtime.counts.heads /\ c.projectors = runtime.counts.projectors
      /\ runtime.counts \in Counts
  BY <1>1 DEF PolicyTypeOK, Counts
<1> PICK m : m = [NoWeights EXCEPT !.weights = weightsOnDisk, !.bits = bits]
  OBVIOUS
<1>6. /\ m.weights = weightsOnDisk /\ m.bits = bits /\ m.parts = {} /\ m \in Weights
      /\ m.weights # "none"
  BY <1>1 DEF PolicyTypeOK, NoWeights, Weights, SnapshotStates
<1> PICK r : r = [runtime EXCEPT !.stage = "model", !.counts = c, !.loading = m]
  OBVIOUS
<1>7. /\ r.stage = "model" /\ r.counts = c /\ r.loading = m /\ r.model = runtime.model
      /\ r.wraps = runtime.wraps /\ r.torn = runtime.torn
      /\ r \in [stage : Stages, model : Weights, loading : Weights, torn : BOOLEAN, wraps : Int,
                counts : Counts]
  BY <1>1, <1>5, <1>6 DEF PolicyTypeOK, Stages, LoadStages
<1>8. runtime' = r
  BY <1>1, <1>4 DEF PolicyTypeOK
<1>9. LoadingFits'
  <2>1. Trusted(m)'
    BY <1>2, <1>3, <1>6, <1>7, <1>8 DEF Trusted, Pinned, Oft
  <2>2. c.model > 0
    BY <1>5 DEF Counts
  <2> QED BY <1>2, <1>3, <1>5, <1>6, <1>7, <1>8, <2>1, <2>2 DEF LoadingFits, LoadStages, Pinned, Oft
<1>10. CountsFit'
  BY <1>1, <1>2, <1>5, <1>7, <1>8 DEF CountsFit, Counts
<1> QED BY <1>2, <1>3, <1>7, <1>8, <1>9, <1>10, LoadStepKeeps DEF LoadStages

LEMMA CheckModelKeeps ==
  ASSUME RuntimeInv, CheckModel
  PROVE  RuntimeInv'
<1>1. PolicyTypeOK /\ LoadingFits /\ CountsFit
  BY DEF RuntimeInv
<1>2. UNCHANGED <<setup, weightsOnDisk, policy>> /\ runtime.stage = "model"
  BY DEF CheckModel
<1>3. /\ policy.state = "created" /\ runtime.model = NoWeights /\ runtime.counts.projectors = 0
      /\ runtime.loading.weights # "none" /\ Trusted(runtime.loading) /\ runtime.counts.model > 0
      /\ (Pinned /\ ~runtime.torn) => weightsOnDisk = "pinned"
  BY <1>1, <1>2 DEF LoadingFits, LoadStages
<1>4. NoWeights \in Weights /\ runtime.loading # NoWeights
  BY <1>3 DEF NoWeights, Weights
<1> DEFINE fine == Servable(runtime.loading.weights) /\ Quantized(runtime.loading.bits)
<1>5. CASE ~fine
  <2> PICK r : r = [runtime EXCEPT !.stage = "idle", !.loading = NoWeights]
    OBVIOUS
  <2>1. /\ r.stage = "idle" /\ r.model = runtime.model
        /\ r.wraps = runtime.wraps /\ r.counts = runtime.counts
        /\ r \in [stage : Stages, model : Weights, loading : Weights, torn : BOOLEAN, wraps : Int,
                  counts : Counts]
    BY <1>1, <1>4 DEF PolicyTypeOK, Stages
  <2>2. runtime' = r
    BY <1>5 DEF CheckModel, Abandoned
  <2>3. LoadingFits' /\ CountsFit'
    BY <1>1, <1>2, <1>3, <2>1, <2>2 DEF LoadingFits, CountsFit, LoadStages
  <2> QED BY <1>2, <1>3, <2>1, <2>2, <2>3, LoadStepKeeps DEF LoadStages
<1>6. CASE fine /\ Oft
  <2> PICK r : r = [runtime EXCEPT !.stage = "checked"]
    OBVIOUS
  <2>1. /\ r.stage = "checked" /\ r.model = runtime.model /\ r.loading = runtime.loading
        /\ r.wraps = runtime.wraps /\ r.counts = runtime.counts /\ r.torn = runtime.torn
        /\ r \in [stage : Stages, model : Weights, loading : Weights, torn : BOOLEAN, wraps : Int,
                  counts : Counts]
    BY <1>1 DEF PolicyTypeOK, Stages, LoadStages
  <2>2. runtime' = r
    BY <1>6 DEF CheckModel
  <2>3. LoadingFits'
    BY <1>2, <1>3, <1>6, <2>1, <2>2 DEF LoadingFits, LoadStages, Trusted, Pinned, Oft, Quantized
  <2>4. CountsFit'
    BY <1>1, <1>2, <2>1, <2>2 DEF CountsFit
  <2> QED BY <1>2, <1>3, <2>1, <2>2, <2>3, <2>4, LoadStepKeeps DEF LoadStages
<1>7. CASE fine /\ ~Oft
  <2> PICK r : r = [runtime EXCEPT !.stage = "assigned", !.model = runtime.loading, !.loading = NoWeights]
    OBVIOUS
  <2>1. /\ r.stage = "assigned" /\ r.model = runtime.loading
        /\ r.wraps = runtime.wraps /\ r.counts = runtime.counts /\ r.torn = runtime.torn
        /\ r \in [stage : Stages, model : Weights, loading : Weights, torn : BOOLEAN, wraps : Int,
                  counts : Counts]
    BY <1>1, <1>4 DEF PolicyTypeOK, Stages
  <2>2. runtime' = r
    BY <1>7 DEF CheckModel, Assigned
  <2>3. LoadingFits' /\ CountsFit'
    BY <1>1, <1>2, <1>3, <1>4, <2>1, <2>2 DEF LoadingFits, CountsFit, LoadStages
  <2>4. Checked(r.model)'
    BY <1>2, <1>3, <1>4, <1>7, <2>1, <2>2 DEF Checked, Trusted, Pinned, Oft, Quantized
  <2> QED BY <1>2, <1>3, <2>1, <2>2, <2>3, <2>4, LoadStepKeeps DEF LoadStages
<1> QED BY <1>5, <1>6, <1>7

LEMMA LoadHeadKeeps ==
  ASSUME RuntimeInv, LoadHead
  PROVE  RuntimeInv'
<1>1. PolicyTypeOK /\ LoadingFits /\ CountsFit
  BY DEF RuntimeInv
<1>2. UNCHANGED <<setup, weightsOnDisk, policy>> /\ runtime.stage = "checked"
  BY DEF LoadHead
<1>3. /\ policy.state = "created" /\ runtime.model = NoWeights /\ runtime.counts.projectors = 0
      /\ runtime.loading.weights # "none" /\ Trusted(runtime.loading) /\ runtime.counts.model > 0
      /\ (Pinned /\ ~runtime.torn) => weightsOnDisk = "pinned"
      /\ Oft /\ Servable(runtime.loading.weights) /\ Quantized(runtime.loading.bits)
  BY <1>1, <1>2 DEF LoadingFits, LoadStages
<1> PICK c : c = [runtime.counts EXCEPT !.heads = @ + 1]
  OBVIOUS
<1>4. /\ c \in Counts /\ c.processor = runtime.counts.processor /\ c.model = runtime.counts.model
      /\ c.heads = runtime.counts.heads + 1 /\ c.projectors = runtime.counts.projectors
      /\ runtime.counts \in Counts
  BY <1>1 DEF PolicyTypeOK, Counts
<1> PICK m : m = [runtime.loading EXCEPT !.parts = @ \union {weightsOnDisk}]
  OBVIOUS
<1>5. /\ m.weights = runtime.loading.weights /\ m.bits = runtime.loading.bits
      /\ m.parts = runtime.loading.parts \union {weightsOnDisk} /\ m \in Weights
  BY <1>1 DEF PolicyTypeOK, Weights
<1> PICK r : r = [runtime EXCEPT !.stage = "head", !.counts = c, !.loading = m]
  OBVIOUS
<1>6. /\ r.stage = "head" /\ r.counts = c /\ r.loading = m /\ r.model = runtime.model
      /\ r.wraps = runtime.wraps /\ r.torn = runtime.torn
      /\ r \in [stage : Stages, model : Weights, loading : Weights, torn : BOOLEAN, wraps : Int,
                counts : Counts]
  BY <1>1, <1>4, <1>5 DEF PolicyTypeOK, Stages, LoadStages
<1>7. runtime' = r
  BY <1>1 DEF PolicyTypeOK, LoadHead
<1>8. Trusted(m)'
  BY <1>2, <1>3, <1>5, <1>6, <1>7 DEF Trusted, Pinned, Oft
<1>9. LoadingFits'
  <2>1. c.heads > 0 /\ m.parts # {}
    BY <1>4, <1>5 DEF Counts
  <2>2. Servable(m.weights)' /\ Quantized(m.bits)' /\ Oft'
    BY <1>2, <1>3, <1>5 DEF Quantized, Oft, Servable
  <2> QED BY <1>2, <1>3, <1>4, <1>5, <1>6, <1>7, <1>8, <2>1, <2>2
    DEF LoadingFits, LoadStages, Pinned, Oft
<1>10. CountsFit'
  BY <1>1, <1>2, <1>4, <1>6, <1>7 DEF CountsFit, Counts
<1> QED BY <1>2, <1>3, <1>6, <1>7, <1>9, <1>10, LoadStepKeeps DEF LoadStages

LEMMA LoadProjectorKeeps ==
  ASSUME RuntimeInv, LoadProjector
  PROVE  RuntimeInv'
<1>1. PolicyTypeOK /\ LoadingFits /\ CountsFit
  BY DEF RuntimeInv
<1>2. UNCHANGED <<setup, weightsOnDisk, policy>> /\ runtime.stage = "head"
  BY DEF LoadProjector
<1>3. /\ policy.state = "created" /\ runtime.model = NoWeights /\ runtime.counts.projectors = 0
      /\ runtime.loading.weights # "none" /\ Trusted(runtime.loading) /\ runtime.counts.model > 0
      /\ (Pinned /\ ~runtime.torn) => weightsOnDisk = "pinned"
      /\ Oft /\ Servable(runtime.loading.weights) /\ Quantized(runtime.loading.bits)
      /\ runtime.counts.heads > 0
  BY <1>1, <1>2 DEF LoadingFits, LoadStages
<1> PICK c : c = [runtime.counts EXCEPT !.projectors = @ + 1]
  OBVIOUS
<1>4. /\ c \in Counts /\ c.processor = runtime.counts.processor /\ c.model = runtime.counts.model
      /\ c.heads = runtime.counts.heads /\ c.projectors = 1
  BY <1>1, <1>3 DEF PolicyTypeOK, Counts
<1> PICK m : m = [runtime.loading EXCEPT !.parts = @ \union {weightsOnDisk}]
  OBVIOUS
<1>5. /\ m.weights = runtime.loading.weights /\ m.bits = runtime.loading.bits
      /\ m.parts = runtime.loading.parts \union {weightsOnDisk} /\ m \in Weights
      /\ NoWeights \in Weights /\ m # NoWeights
  BY <1>1, <1>3 DEF PolicyTypeOK, Weights, NoWeights
<1> PICK r : r = [runtime EXCEPT !.stage = "assigned", !.counts = c, !.model = m, !.loading = NoWeights]
  OBVIOUS
<1>6. /\ r.stage = "assigned" /\ r.counts = c /\ r.model = m
      /\ r.wraps = runtime.wraps /\ r.torn = runtime.torn
      /\ r \in [stage : Stages, model : Weights, loading : Weights, torn : BOOLEAN, wraps : Int,
                counts : Counts]
  BY <1>1, <1>4, <1>5 DEF PolicyTypeOK, Stages
<1>7. runtime' = r
  <2> PICK q : q = [runtime EXCEPT !.counts = c]
    OBVIOUS
  <2>1. runtime' = [q EXCEPT !.stage = "assigned", !.model = m, !.loading = NoWeights]
    BY DEF LoadProjector, Assigned
  <2> QED BY <1>1, <2>1 DEF PolicyTypeOK
<1>8. Checked(m)'
  BY <1>2, <1>3, <1>4, <1>5, <1>6, <1>7 DEF Checked, Trusted, Pinned, Oft, Quantized
<1>9. LoadingFits'
  BY <1>2, <1>3, <1>5, <1>6, <1>7 DEF LoadingFits, LoadStages
<1>10. CountsFit'
  BY <1>1, <1>4, <1>6, <1>7 DEF CountsFit
<1> QED BY <1>2, <1>3, <1>6, <1>7, <1>8, <1>9, <1>10, LoadStepKeeps DEF LoadStages

(* A step that begins or ends a call of the model.                           *)
CallIs(stage) ==
  runtime' = [runtime EXCEPT !.stage = stage,
                !.wraps = IF Oft /\ stage \in {"calling", "warming"} THEN 1 ELSE 0]

(* From the assigned model to a policy that is ready.                        *)
LEMMA ReportingKeeps ==
  ASSUME RuntimeInv, WarmUp \/ ReportVanilla \/ ReportOft \/ ReportFails
  PROVE  RuntimeInv'
<1>1. PolicyTypeOK /\ LoadingFits /\ CountsFit /\ ModelFits /\ WrapsFit
  BY DEF RuntimeInv
<1>2. /\ UNCHANGED <<setup, weightsOnDisk>>
      /\ runtime.stage \in {"assigned", "warming"}
      /\ policy.state = "created" /\ runtime.model # NoWeights /\ Checked(runtime.model)
  BY <1>1 DEF WarmUp, ReportVanilla, ReportOft, ReportFails, Serve, LoadingFits, ModelFits
<1>3. PICK stage \in {"warming", "idle"} : CallIs(stage) /\ (stage = "warming" => Oft /\ UNCHANGED policy)
  <2>1. CASE WarmUp
    <3>1. runtime.wraps = 0 /\ Oft
      BY <1>1, <2>1 DEF WarmUp, WrapsFit
    <3>2. CallIs("warming") /\ UNCHANGED policy
      BY <1>1, <2>1, <3>1 DEF WarmUp, CallIs, PolicyTypeOK
    <3> QED BY <3>1, <3>2
  <2>2. CASE runtime' = Returned(runtime) /\ (runtime.stage = "warming" \/ ~Oft)
    <3>1. runtime.wraps = IF Oft THEN 1 ELSE 0
      BY <1>1, <1>2, <2>2 DEF WrapsFit
    <3>2. CallIs("idle")
      BY <1>1, <2>2, <3>1 DEF Returned, CallIs, PolicyTypeOK
    <3> QED BY <3>2
  <2>3. CASE runtime' = [runtime EXCEPT !.stage = "idle"] /\ runtime.stage = "assigned"
    <3>1. runtime.wraps = 0
      BY <1>1, <2>3 DEF WrapsFit
    <3>2. CallIs("idle")
      BY <1>1, <2>3, <3>1 DEF CallIs, PolicyTypeOK
    <3> QED BY <3>2
  <2> QED BY <1>2, <2>1, <2>2, <2>3 DEF ReportVanilla, ReportOft, ReportFails, Serve
<1> PICK wraps : wraps = IF Oft /\ stage \in {"calling", "warming"} THEN 1 ELSE 0
  OBVIOUS
<1>4. /\ runtime' = [runtime EXCEPT !.stage = stage, !.wraps = wraps]
      /\ wraps \in Int /\ wraps = (IF Oft /\ stage = "warming" THEN 1 ELSE 0)
      /\ stage = "warming" => Oft /\ UNCHANGED policy
  BY <1>3 DEF CallIs
<1>5. PICK state \in {"created", "ready"} :
        /\ \/ UNCHANGED policy /\ state = "created"
           \/ /\ policy' = [policy EXCEPT !.state = state, !.identity = runtime.model]
              /\ state = "ready"
        /\ state = "ready" => stage = "idle"
  BY <1>1, <1>2, <1>4 DEF WarmUp, ReportVanilla, ReportOft, ReportFails, Serve, Returned, PolicyTypeOK
<1>6. /\ policy'.state = state /\ (state = "ready" => policy'.identity = runtime.model)
  BY <1>1, <1>2, <1>5 DEF PolicyTypeOK
<1>7. /\ runtime'.stage = stage /\ runtime'.wraps = wraps /\ runtime'.model = runtime.model
      /\ runtime'.torn = runtime.torn /\ runtime'.counts = runtime.counts /\ runtime'.loading = runtime.loading
  BY <1>1, <1>4 DEF PolicyTypeOK
<1>8. PolicyTypeOK'
  <2>1. runtime.model \in Weights /\ policy' \in
          [state : {"created", "ready", "active", "closed"}, episode : PolicyEpisodes \union {"none"},
           used : SUBSET PolicyEpisodes, index : Nat, identity : Weights]
    BY <1>1, <1>5 DEF PolicyTypeOK
  <2> QED BY <1>1, <1>2, <1>4, <2>1 DEF PolicyTypeOK, Stages, LoadStages
<1>9. Checked(runtime.model)'
  BY <1>2, <1>7 DEF Checked, Trusted, Pinned, Oft, Quantized
<1>10. LoadingFits' /\ ModelFits' /\ WrapsFit'
  BY <1>2, <1>4, <1>5, <1>6, <1>7, <1>9 DEF LoadingFits, LoadStages, ModelFits, WrapsFit, Oft
<1>11. CountsFit'
  BY <1>1, <1>4, <1>7 DEF CountsFit
<1> QED BY <1>8, <1>10, <1>11 DEF RuntimeInv

LEMMA SnapshotChangesKeeps ==
  ASSUME RuntimeInv, SnapshotChanges
  PROVE  RuntimeInv'
<1>1. PolicyTypeOK /\ LoadingFits /\ CountsFit /\ ModelFits /\ WrapsFit
  BY DEF RuntimeInv
<1>2. UNCHANGED <<setup, policy>> /\ weightsOnDisk' \in SnapshotStates
  BY DEF SnapshotChanges
<1> PICK torn : torn = (runtime.torn \/ runtime.stage \in LoadStages)
  OBVIOUS
<1>3. /\ torn \in BOOLEAN /\ (~torn => ~runtime.torn)
      /\ runtime.stage \in LoadStages => torn
  BY <1>1 DEF PolicyTypeOK
<1>4. runtime' = [runtime EXCEPT !.torn = torn]
  BY DEF SnapshotChanges
<1>5. /\ runtime'.stage = runtime.stage /\ runtime'.wraps = runtime.wraps
      /\ runtime'.model = runtime.model
      /\ (runtime'.torn <=> torn) /\ runtime'.counts = runtime.counts /\ runtime'.loading = runtime.loading
  BY <1>1, <1>4 DEF PolicyTypeOK
<1>6. PolicyTypeOK'
  BY <1>1, <1>2, <1>3, <1>4 DEF PolicyTypeOK
<1>7. Checked(runtime.model) => Checked(runtime.model)'
  BY <1>2, <1>3, <1>5 DEF Checked, Trusted, Pinned, Oft, Quantized
<1>8. ModelFits'
  BY <1>1, <1>2, <1>5, <1>7 DEF ModelFits
<1>9. CountsFit' /\ WrapsFit'
  BY <1>1, <1>2, <1>5 DEF CountsFit, WrapsFit, Oft
<1>10. Trusted(runtime.loading) => Trusted(runtime.loading)'
  BY <1>2, <1>3, <1>5 DEF Trusted, Pinned, Oft
<1>11. LoadingFits'
  BY <1>1, <1>2, <1>3, <1>5, <1>10 DEF LoadingFits, LoadStages, Pinned, Oft, Quantized
<1> QED BY <1>6, <1>8, <1>9, <1>11 DEF RuntimeInv

(* Episodes and calls: the model stays until the policy is closed.           *)
LEMMA EpisodesKeep ==
  ASSUME RuntimeInv, (\E e \in PolicyEpisodes : ResetPolicyEpisode(e)) \/ EndEpisode
  PROVE  RuntimeInv'
<1>1. PolicyTypeOK /\ LoadingFits /\ CountsFit /\ ModelFits /\ WrapsFit
  BY DEF RuntimeInv
<1>2. UNCHANGED <<setup, weightsOnDisk, runtime>>
  BY DEF ResetPolicyEpisode, EndEpisode
<1>3. /\ policy.state \in {"ready", "active"} /\ policy'.state \in {"ready", "active"}
      /\ policy.state = "active" => runtime.stage = "idle"
      /\ policy'.identity = policy.identity /\ PolicyTypeOK'
  <2>1. CASE EndEpisode
    BY <1>1, <1>2, <2>1 DEF EndEpisode, PolicyTypeOK
  <2>2. ASSUME NEW e \in PolicyEpisodes, ResetPolicyEpisode(e) PROVE <1>3!:
    <3> PICK used : used = policy.used \union {e}
      OBVIOUS
    <3>1. policy.state = "ready" /\ used \in SUBSET PolicyEpisodes
      BY <1>1, <2>2 DEF ResetPolicyEpisode, PolicyTypeOK
    <3>2. policy' = [policy EXCEPT !.state = "active", !.episode = e, !.index = 0, !.used = used]
      BY <2>2 DEF ResetPolicyEpisode
    <3> QED BY <1>1, <1>2, <3>1, <3>2 DEF PolicyTypeOK
  <2> QED BY <2>1, <2>2
<1>4. runtime.stage = "idle"
  BY <1>1, <1>3 DEF PolicyTypeOK, LoadingFits, Stages
<1>5. LoadingFits' /\ CountsFit' /\ ModelFits' /\ WrapsFit'
  BY <1>1, <1>2, <1>3, <1>4 DEF LoadingFits, CountsFit, LoadStages, ModelFits, WrapsFit, Checked, Trusted, Pinned, Oft, Quantized
<1> QED BY <1>3, <1>5 DEF RuntimeInv

LEMMA ClosePolicyKeeps ==
  ASSUME RuntimeInv, ClosePolicy
  PROVE  RuntimeInv'
<1>1. PolicyTypeOK /\ LoadingFits /\ CountsFit /\ ModelFits /\ WrapsFit
  BY DEF RuntimeInv
<1>2. /\ UNCHANGED <<setup, weightsOnDisk>> /\ runtime.stage = "idle"
      /\ policy' = [policy EXCEPT !.state = "closed", !.episode = "none", !.identity = NoWeights]
      /\ runtime' = [runtime EXCEPT !.model = NoWeights]
  BY DEF ClosePolicy
<1>3. NoWeights \in Weights
  BY DEF NoWeights, Weights
<1>4. PolicyTypeOK'
  BY <1>1, <1>2, <1>3 DEF PolicyTypeOK
<1>5. /\ policy'.state = "closed" /\ runtime'.model = NoWeights /\ runtime'.stage = "idle"
      /\ runtime'.wraps = runtime.wraps /\ runtime'.counts = runtime.counts
  BY <1>1, <1>2 DEF PolicyTypeOK
<1>6. LoadingFits' /\ CountsFit' /\ ModelFits' /\ WrapsFit'
  BY <1>1, <1>2, <1>5 DEF LoadingFits, CountsFit, LoadStages, ModelFits, WrapsFit, Oft
<1> QED BY <1>4, <1>6 DEF RuntimeInv

LEMMA CallingKeeps ==
  ASSUME RuntimeInv,
         \/ CallVanilla \/ CallOft \/ CallFails \/ PredictVanilla \/ PredictOft \/ DecodeFails
         \/ RecordRefused
  PROVE  RuntimeInv'
<1>1. PolicyTypeOK /\ LoadingFits /\ CountsFit /\ ModelFits /\ WrapsFit
  BY DEF RuntimeInv
<1>2. /\ UNCHANGED <<setup, weightsOnDisk>>
      /\ policy.state = "active" /\ runtime.stage \in {"idle", "calling"}
  BY <1>1
  DEF CallVanilla, CallOft, CallFails, PredictVanilla, PredictOft, DecodeFails, RecordRefused, Issue,
      MayCall, LoadingFits
<1>3. UNCHANGED policy \/ policy' = [policy EXCEPT !.index = @ + 1]
  BY DEF CallVanilla, CallOft, CallFails, PredictVanilla, PredictOft, DecodeFails, RecordRefused, Issue
<1>4. /\ policy'.state = "active" /\ policy'.identity = policy.identity
      /\ policy' \in [state : {"created", "ready", "active", "closed"},
                      episode : PolicyEpisodes \union {"none"},
                      used : SUBSET PolicyEpisodes, index : Nat, identity : Weights]
  BY <1>1, <1>2, <1>3 DEF PolicyTypeOK
<1>5. PICK stage \in {"idle", "calling"} : CallIs(stage)
  <2>1. CASE CallVanilla
    <3>1. runtime.wraps = 0 /\ ~Oft
      BY <1>1, <2>1 DEF CallVanilla, MayCall, WrapsFit
    <3>2. CallIs("calling")
      BY <1>1, <2>1, <3>1 DEF CallVanilla, CallIs, PolicyTypeOK
    <3> QED BY <3>2
  <2>2. CASE CallOft
    <3>1. runtime.wraps = 0 /\ Oft
      BY <1>1, <2>2 DEF CallOft, MayCall, WrapsFit
    <3>2. CallIs("calling")
      BY <1>1, <2>2, <3>1 DEF CallOft, CallIs, PolicyTypeOK
    <3> QED BY <3>2
  <2>3. CASE runtime.stage = "calling" /\ runtime' = Returned(runtime)
    <3>1. runtime.wraps = IF Oft THEN 1 ELSE 0
      BY <1>1, <2>3 DEF WrapsFit
    <3>2. CallIs("idle")
      BY <1>1, <2>3, <3>1 DEF Returned, CallIs, PolicyTypeOK
    <3> QED BY <3>2
  <2> QED BY <2>1, <2>2, <2>3
    DEF CallFails, PredictVanilla, PredictOft, DecodeFails, RecordRefused, Issue
<1> PICK wraps : wraps = IF Oft /\ stage \in {"calling", "warming"} THEN 1 ELSE 0
  OBVIOUS
<1>6. /\ runtime' = [runtime EXCEPT !.stage = stage, !.wraps = wraps]
      /\ wraps \in Int /\ wraps = (IF Oft /\ stage = "calling" THEN 1 ELSE 0)
  BY <1>5 DEF CallIs
<1>7. /\ runtime'.stage = stage /\ runtime'.wraps = wraps /\ runtime'.model = runtime.model
      /\ runtime'.torn = runtime.torn /\ runtime'.counts = runtime.counts /\ runtime'.loading = runtime.loading
  BY <1>1, <1>6 DEF PolicyTypeOK
<1>8. PolicyTypeOK'
  BY <1>1, <1>2, <1>4, <1>6 DEF PolicyTypeOK, Stages, LoadStages
<1>9. ModelFits'
  BY <1>1, <1>2, <1>4, <1>7 DEF ModelFits, Checked, Trusted, Pinned, Oft, Quantized
<1>10. LoadingFits' /\ WrapsFit'
  BY <1>2, <1>4, <1>6, <1>7 DEF LoadingFits, LoadStages, WrapsFit, Oft
<1>11. CountsFit'
  BY <1>1, <1>7 DEF CountsFit
<1> QED BY <1>8, <1>9, <1>10, <1>11 DEF RuntimeInv

LEMMA RuntimeInvKept == RuntimeInv /\ [PolicyNext]_policyVars => RuntimeInv'
<1> SUFFICES ASSUME RuntimeInv, [PolicyNext]_policyVars PROVE RuntimeInv'
  OBVIOUS
<1>1. CASE UNCHANGED policyVars
  BY <1>1
  DEF policyVars, RuntimeInv, PolicyTypeOK, LoadingFits, CountsFit, ModelFits, WrapsFit, Checked, Trusted, Pinned, Oft, Quantized
<1>2. CASE PolicyNext
  BY <1>2, StartingKeeps, LoadModelKeeps, CheckModelKeeps, LoadHeadKeeps, LoadProjectorKeeps,
     ReportingKeeps, SnapshotChangesKeeps, EpisodesKeep,
     ClosePolicyKeeps, CallingKeeps
  DEF PolicyNext
<1> QED BY <1>1, <1>2

(* The conversion of a decoded chunk: the pose stays, the gripper is         *)
(* binarised and inverted.                                                   *)
LEMMA EncodedIsSound ==
  ASSUME NEW rows \in [1..Horizon -> Rows], Encodable(rows)
  PROVE  /\ Encoded(rows) \in [1..Horizon -> ValueRows]
         /\ \A k \in 1..Horizon :
              /\ Encoded(rows)[k].pose = rows[k].pose /\ Encoded(rows)[k].pose \in -10..10
              /\ Encoded(rows)[k].gripper \in {-10, 0, 10}
              /\ rows[k].gripper < 5 <=> Encoded(rows)[k].gripper > 0
              /\ rows[k].gripper > 5 <=> Encoded(rows)[k].gripper < 0
<1> DEFINE encoded(k) == [rows[k] EXCEPT !.gripper = -10 * SignOf(2 * rows[k].gripper - 10)]
<1>1. ASSUME NEW k \in 1..Horizon
      PROVE  /\ encoded(k) \in ValueRows
             /\ encoded(k).pose = rows[k].pose /\ encoded(k).pose \in -10..10
             /\ encoded(k).gripper \in {-10, 0, 10}
             /\ rows[k].gripper < 5 <=> encoded(k).gripper > 0
             /\ rows[k].gripper > 5 <=> encoded(k).gripper < 0
  <2> PICK row : row = rows[k]
    OBVIOUS
  <2>1. row \in [pose : PoseValues, gripper : GripperValues] /\ row.pose \in Int /\ row.gripper \in Int
    BY PolicyRuntimeAssumption DEF Rows
  <2>2. row.pose \in -10..10
    BY DEF Encodable, ChunkEncodable, TokenEncodable
  <2> PICK sign : sign = SignOf(2 * row.gripper - 10)
    OBVIOUS
  <2>3. /\ sign \in {-1, 0, 1}
        /\ sign = 1 <=> row.gripper > 5
        /\ sign = -1 <=> row.gripper < 5
    BY <2>1 DEF SignOf
  <2> PICK g : g = -10 * sign
    OBVIOUS
  <2>4. /\ g \in {-10, 0, 10} /\ g \in Int
        /\ row.gripper < 5 <=> g > 0
        /\ row.gripper > 5 <=> g < 0
    BY <2>1, <2>3
  <2>5. encoded(k) = [row EXCEPT !.gripper = g]
    OBVIOUS
  <2> HIDE DEF encoded
  <2> QED BY <2>1, <2>2, <2>4, <2>5 DEF ValueRows
<1>2. Encoded(rows) = [k \in 1..Horizon |-> encoded(k)]
  BY DEF Encoded
<1> HIDE DEF encoded
<1> QED BY <1>1, <1>2

SoundAction(p, k) ==
  /\ p.actions[k].pose = p.decoded[k].pose /\ p.actions[k].pose \in -10..10
  /\ p.actions[k].gripper \in {-10, 0, 10}
  /\ p.decoded[k].gripper < 5 <=> p.actions[k].gripper > 0
  /\ p.decoded[k].gripper > 5 <=> p.actions[k].gripper < 0

LEMMA IssuedTypes ==
  ASSUME issued \in Seq(IssuedRecords)
  PROVE  \A i \in 1..Len(issued) : /\ issued[i] \in IssuedRecords /\ issued[i].id[2] \in Nat
                                   /\ DOMAIN issued[i].actions = 1..Horizon
<1>1. \A i \in 1..Len(issued) : issued[i] \in IssuedRecords
  OBVIOUS
<1>2. \A p \in IssuedRecords : p.id[2] \in Nat /\ DOMAIN p.actions = 1..Horizon
  BY DEF IssuedRecords
<1> QED BY <1>1, <1>2

LEMMA PredictionsInParts ==
  ASSUME issued \in Seq(IssuedRecords)
  PROVE  PredictionsAreSound <=>
           /\ \A i, j \in 1..Len(issued) : i < j =>
                /\ issued[i].id # issued[j].id
                /\ issued[i].id[1] = issued[j].id[1] => issued[i].id[2] < issued[j].id[2]
           /\ \A i \in 1..Len(issued) : \A k \in 1..Horizon : SoundAction(issued[i], k)
<1>1. DOMAIN issued = 1..Len(issued)
  OBVIOUS
<1>2. \A i \in 1..Len(issued) : \A k :
        k \in DOMAIN issued[i].actions <=> k \in 1..Horizon
  BY IssuedTypes
<1>3. (\A i \in 1..Len(issued) : \A k \in 1..Horizon : SoundAction(issued[i], k)) <=>
        \A i \in 1..Len(issued) : \A k \in DOMAIN issued[i].actions : SoundAction(issued[i], k)
  BY <1>2
<1> QED BY <1>1, <1>3 DEF PredictionsAreSound, SoundAction

LEMMA IssueKeeps ==
  ASSUME PolicyInv, runtime.stage = "calling", Issue
  PROVE  /\ issued' \in Seq(IssuedRecords)' /\ IssuedFits' /\ PredictionsAreSound'
<1>1. /\ PolicyTypeOK /\ LoadingFits /\ IssuedFits /\ issued \in Seq(IssuedRecords)
      /\ UNCHANGED setup
  BY DEF PolicyInv, RuntimeInv, IssuedRecords, Issue
<1>2. policy.state = "active" /\ policy.episode \in PolicyEpisodes /\ policy.episode \in policy.used
  BY <1>1 DEF LoadingFits, IssuedFits, PolicyTypeOK
<1>3. PICK rows \in [1..Horizon -> Rows] :
        /\ Encodable(rows)
        /\ policy' = [policy EXCEPT !.index = @ + 1]
        /\ issued' = Append(issued, [id |-> IdOf(policy), decoded |-> rows, actions |-> Encoded(rows)])
  BY DEF Issue
<1> PICK p : p = [id |-> IdOf(policy), decoded |-> rows, actions |-> Encoded(rows)]
  OBVIOUS
<1>4. rows \in [1..Horizon -> ValueRows]
  BY PolicyRuntimeAssumption DEF Rows, ValueRows
<1>5. /\ p.id = <<policy.episode, policy.index>> /\ p.decoded = rows /\ p.actions = Encoded(rows)
      /\ p.id[1] = policy.episode /\ p.id[2] = policy.index /\ policy.index \in Nat
  BY <1>1 DEF IdOf, PolicyTypeOK
<1>6. p \in IssuedRecords
  BY <1>2, <1>3, <1>4, <1>5, EncodedIsSound DEF IssuedRecords, IdOf
<1>7. \A k \in 1..Horizon : SoundAction(p, k)
  BY <1>3, <1>5, EncodedIsSound DEF SoundAction
<1>8. /\ issued' = Append(issued, p) /\ Len(issued') = Len(issued) + 1
      /\ \A i \in 1..Len(issued) : issued'[i] = issued[i]
      /\ issued'[Len(issued) + 1] = p /\ issued' \in Seq(IssuedRecords)
      /\ 1..Len(issued') = 1..Len(issued) \union {Len(issued) + 1} /\ Len(issued) \in Nat
  BY <1>1, <1>3, <1>6
<1>9. /\ policy'.state = "active" /\ policy'.episode = policy.episode /\ policy'.used = policy.used
      /\ policy'.index = policy.index + 1
  BY <1>1, <1>2, <1>3 DEF PolicyTypeOK
<1>10. Horizon' = Horizon
  BY <1>1 DEF Horizon, Oft
<1>11. issued' \in Seq(IssuedRecords)'
  BY <1>8, <1>10 DEF IssuedRecords
<1>12. \A i \in 1..Len(issued) : /\ issued[i].id[1] \in policy.used /\ issued[i].id[2] \in Nat
                                 /\ issued[i].id[1] = policy.episode => issued[i].id[2] < policy.index
  BY <1>1, <1>2, IssuedTypes DEF IssuedFits
<1>13. IssuedFits'
  <2>1. ASSUME NEW i \in 1..Len(issued')
        PROVE  /\ issued'[i].id[1] \in policy.used
               /\ issued'[i].id[1] = policy.episode => issued'[i].id[2] < policy.index + 1
    <3>1. CASE i \in 1..Len(issued)
      BY <1>5, <1>8, <1>12, <3>1
    <3>2. CASE i = Len(issued) + 1
      BY <1>2, <1>5, <1>8, <3>2
    <3> QED BY <1>8, <3>1, <3>2
  <2> QED BY <1>2, <1>9, <2>1 DEF IssuedFits
<1>14. \A i, j \in 1..Len(issued') : i < j =>
         /\ issued'[i].id # issued'[j].id
         /\ issued'[i].id[1] = issued'[j].id[1] => issued'[i].id[2] < issued'[j].id[2]
  <2> SUFFICES ASSUME NEW i \in 1..Len(issued'), NEW j \in 1..Len(issued'), i < j
               PROVE  /\ issued'[i].id # issued'[j].id
                      /\ issued'[i].id[1] = issued'[j].id[1] => issued'[i].id[2] < issued'[j].id[2]
    OBVIOUS
  <2>1. i \in 1..Len(issued) /\ issued'[i] = issued[i]
    BY <1>8
  <2>2. CASE j \in 1..Len(issued)
    <3>1. PredictionsAreSound
      BY DEF PolicyInv
    <3> QED BY <1>1, <1>8, <2>1, <2>2, <3>1, PredictionsInParts
  <2>3. CASE j = Len(issued) + 1
    <3>1. issued'[j] = p
      BY <1>8, <2>3
    <3> QED BY <1>5, <1>12, <2>1, <3>1
  <2> QED BY <1>8, <2>2, <2>3
<1>15. \A i \in 1..Len(issued') : \A k \in 1..Horizon : SoundAction(issued'[i], k)
  <2>1. \A i \in 1..Len(issued) : \A k \in 1..Horizon : SoundAction(issued[i], k)
    BY <1>1, PredictionsInParts DEF PolicyInv
  <2> QED BY <1>7, <1>8, <2>1
<1>16. PredictionsAreSound'
  <2>1. DOMAIN issued' = 1..Len(issued')
    BY <1>8
  <2>2. \A i \in 1..Len(issued') : issued'[i] \in IssuedRecords
    BY <1>8
  <2>3. \A q \in IssuedRecords : DOMAIN q.actions = 1..Horizon
    BY DEF IssuedRecords
  <2>4. \A i \in 1..Len(issued') : \A k \in DOMAIN issued'[i].actions : SoundAction(issued'[i], k)
    BY <1>15, <2>2, <2>3
  <2> QED BY <1>14, <2>1, <2>4 DEF PredictionsAreSound, SoundAction
<1> QED BY <1>11, <1>13, <1>16

LEMMA PolicyInvKept == PolicyInv /\ [PolicyNext]_policyVars => PolicyInv'
<1> SUFFICES ASSUME PolicyInv, [PolicyNext]_policyVars PROVE PolicyInv'
  OBVIOUS
<1>1. RuntimeInv' /\ UNCHANGED setup
  BY RuntimeInvKept
  DEF PolicyInv, policyVars, PolicyNext, ResolveSnapshot, LoadProcessor, LoadModel, CheckModel, LoadHead,
      LoadProjector, LoadFails,
      WarmUp, ReportVanilla, ReportOft, ReportFails, Serve, SnapshotChanges, ResetPolicyEpisode, EndEpisode,
      ClosePolicy, CallVanilla, CallOft, CallFails, PredictVanilla, PredictOft, Issue, DecodeFails,
      RecordRefused
<1>2. PolicyTypeOK /\ IssuedFits /\ LoadingFits
  BY DEF PolicyInv, RuntimeInv
<1>3. CASE PredictVanilla \/ PredictOft
  <2>1. issued' \in Seq(IssuedRecords)' /\ IssuedFits' /\ PredictionsAreSound'
    BY <1>3, IssueKeeps DEF PredictVanilla, PredictOft
  <2> QED BY <1>1, <2>1 DEF PolicyInv, IssuedRecords
<1>4. CASE UNCHANGED issued
  <2>1. issued' \in Seq(IssuedRecords)' /\ PredictionsAreSound'
    BY <1>1, <1>4 DEF PolicyInv, IssuedRecords, PredictionsAreSound, Horizon, Oft
  <2>2. ASSUME IssuedFits' PROVE PolicyInv'
    BY <1>1, <2>1, <2>2 DEF PolicyInv, IssuedRecords
  <2>3. CASE UNCHANGED policy
    BY <1>2, <1>4, <2>2, <2>3 DEF IssuedFits
  <2>4. CASE policy'.used = policy.used /\ policy'.state # "active"
    BY <1>2, <1>4, <2>2, <2>4 DEF IssuedFits
  <2>5. CASE RecordRefused
    <3>1. policy' = [policy EXCEPT !.index = @ + 1] /\ policy.index \in Nat
      BY <1>2, <2>5 DEF RecordRefused, PolicyTypeOK
    <3>2. /\ policy'.state = policy.state /\ policy'.used = policy.used
          /\ policy'.episode = policy.episode /\ policy'.index = policy.index + 1
      BY <1>2, <3>1 DEF PolicyTypeOK
    <3>3. \A i \in 1..Len(issued) : issued[i].id[2] \in Nat
      BY IssuedTypes DEF PolicyInv
    <3> QED BY <1>2, <1>4, <2>2, <3>1, <3>2, <3>3 DEF IssuedFits
  <2>6. CASE \E e \in PolicyEpisodes : ResetPolicyEpisode(e)
    <3>1. PICK e \in PolicyEpisodes : ResetPolicyEpisode(e)
      BY <2>6
    <3>2. /\ policy'.episode = e /\ policy'.used = policy.used \union {e} /\ e \notin policy.used
      BY <1>2, <3>1 DEF ResetPolicyEpisode, PolicyTypeOK
    <3> QED BY <1>2, <1>4, <2>2, <3>2 DEF IssuedFits
  <2>7. CASE WarmUp \/ ReportVanilla \/ ReportOft \/ EndEpisode \/ ClosePolicy
    BY <1>2, <2>3, <2>4, <2>7
    DEF WarmUp, ReportVanilla, ReportOft, Serve, EndEpisode, ClosePolicy, PolicyTypeOK
  <2>8. \/ UNCHANGED policy \/ RecordRefused \/ \E e \in PolicyEpisodes : ResetPolicyEpisode(e)
        \/ WarmUp \/ ReportVanilla \/ ReportOft \/ EndEpisode \/ ClosePolicy
        \/ PredictVanilla \/ PredictOft
    BY DEF policyVars, PolicyNext, ResolveSnapshot, LoadProcessor, LoadModel, CheckModel, LoadHead,
      LoadProjector, LoadFails,
           ReportFails, SnapshotChanges, CallVanilla, CallOft, CallFails, DecodeFails
  <2> QED BY <1>3, <2>3, <2>5, <2>6, <2>7, <2>8
<1>5. UNCHANGED issued \/ PredictVanilla \/ PredictOft
  BY DEF policyVars, PolicyNext, ResolveSnapshot, LoadProcessor, LoadModel, CheckModel, LoadHead,
      LoadProjector, LoadFails,
         WarmUp, ReportVanilla, ReportOft, ReportFails, Serve, SnapshotChanges, ResetPolicyEpisode,
         EndEpisode, ClosePolicy, CallVanilla, CallOft, CallFails, DecodeFails, RecordRefused
<1> QED BY <1>3, <1>4, <1>5

\* Loads that fail at any point, snapshots that change meanwhile, calls that
\* raise: an OpenVLA policy that takes episodes serves the checked weights it
\* announced, leaves nothing behind, and its predictions have distinct IDs and
\* actions converted once (openvla-vanilla and openvla-oft, adapter and runtime).
THEOREM PoliciesServeWhatTheyAnnounce == PolicySpec => []PolicyServesWhatItAnnounced
<1>1. PolicyInv => PolicyServesWhatItAnnounced
  BY DEF PolicyInv, RuntimeInv, ModelFits, Checked, Trusted, CountsFit, WrapsFit, PolicyServesWhatItAnnounced,
         AnnouncedIsServed, RuntimeIsRestored
<1>2. PolicyInit => PolicyInv
  BY RuntimeInvInitially DEF PolicyInit, PolicyInv, IssuedFits, PredictionsAreSound
<1> QED BY <1>1, <1>2, PolicyInvKept, PTL DEF PolicySpec

-----------------------------------------------------------------------------
(* The QuIC provider, for every set of payloads, files, hosts and episodes.  *)

Described == {"start", "hashed", "read", "tensors"}
Initializing == {"bound", "verified", "host", "loaded"}
QuicTaking == {"ready", "active"}

QuicTypeOK ==
  /\ directory \in [payload : Payloads, tensors : TensorFiles, head : TensorFiles \union {NoValue},
                    host : HostModels]
  /\ reading \in [stage : Described \union Initializing \union {"idle"}, payload : {reading.payload},
                  torn : BOOLEAN]
  /\ quic \in [state : {"created", "closed"} \union QuicTaking, descriptor : {quic.descriptor},
               episode : QuicEpisodes \union {NoValue}, used : SUBSET QuicEpisodes, index : Nat]
  /\ provider \in [there : BOOLEAN, loaded : {provider.loaded}, episode : QuicEpisodes \union {NoValue}]
  /\ quic.descriptor.ready \in BOOLEAN

\* Until it is described, an artifact is the one that was hashed unless a file
\* was replaced, and nothing is bound or answered.
ReadingFits ==
  /\ reading.stage \in Described =>
       quic.state \in {"created", "closed"} /\ provider = NoProvider /\ answered = <<>>
  /\ (reading.stage = "hashed" /\ ~reading.torn) => directory.payload = quicSettings.manifest
  /\ reading.stage \in {"read", "tensors"} =>
       /\ reading.payload.targets # {}
       /\ ~reading.torn => /\ reading.payload = directory.payload
                           /\ directory.payload = quicSettings.manifest

\* A described artifact is the one the settings name, and one without a head
\* stays without.
DescriptorFits ==
  /\ quic.state \in QuicTaking \/ reading.stage \in Initializing => quic.descriptor.ready
  /\ quic.descriptor.ready =>
       /\ quic.descriptor.targets # {} /\ quic.descriptor.tensors = quicSettings.tensors
       /\ ~reading.torn => quic.descriptor.manifest = quicSettings.manifest
       /\ (quic.descriptor.horizon > 1 /\ quic.descriptor.head = NoValue) => directory.head = NoValue

\* What is loaded is what is described.
DescribedIsLoaded ==
  /\ provider.loaded.targets = quic.descriptor.targets
  /\ ~reading.torn =>
       /\ provider.loaded.tensors = quic.descriptor.tensors
       /\ provider.loaded.host = quic.descriptor.host
       /\ quic.descriptor.horizon > 1 => provider.loaded.head = quic.descriptor.head

InitializingFits ==
  /\ reading.stage \in Initializing => quic.state = "created"
  /\ quic.state \in QuicTaking => reading.stage = "idle"
  /\ quic.state = "closed" \/ (quic.state = "created" /\ reading.stage = "idle") => provider = NoProvider
  /\ (reading.stage \in {"verified", "host"} /\ ~reading.torn) =>
       /\ directory.tensors = quic.descriptor.tensors
       /\ quic.descriptor.head # NoValue => directory.head = quic.descriptor.head
  /\ (reading.stage = "host" /\ ~reading.torn) => directory.host.identity = quic.descriptor.host
  /\ quic.state \in QuicTaking \/ reading.stage = "loaded" => DescribedIsLoaded
  /\ quic.state = "active" => provider.episode = quic.episode

AnswerRecords == [id : QuicEpisodes \X Nat, decoded : Int, action : Int, rows : Nat]

\* Every answer carries the ID of an episode that was served, and within the
\* active episode an index below the next one.
AnswersFit ==
  /\ answered \in Seq(AnswerRecords)
  /\ quic.state = "active" => quic.episode \in quic.used
  /\ \A i \in 1..Len(answered) :
       /\ answered[i].id[1] \in quic.used
       /\ (quic.state = "active" /\ answered[i].id[1] = quic.episode) => answered[i].id[2] < quic.index

ServingInv == QuicTypeOK /\ ReadingFits /\ DescriptorFits /\ InitializingFits

QuicInv == ServingInv /\ AnswersFit /\ AnswersAreSound

LEMMA ServingInvInitially == QuicInit => ServingInv
<1> SUFFICES ASSUME QuicInit PROVE ServingInv
  OBVIOUS
<1>1. QuicTypeOK
  BY DEF QuicInit, QuicTypeOK, Described, QuicTaking, NoProvider, Undescribed, Unloaded, NoValue
<1>2. ReadingFits /\ DescriptorFits /\ InitializingFits
  BY DEF QuicInit, ReadingFits, DescriptorFits, InitializingFits, Described, Initializing, QuicTaking,
         Undescribed
<1> QED BY <1>1, <1>2 DEF ServingInv

(* Reading and hashing the artifact: only the reading moves on.              *)
LEMMA HashingKeeps ==
  ASSUME ServingInv, HashPayload \/ ReadPayload \/ HashTensors
  PROVE  ServingInv'
<1>1. QuicTypeOK /\ ReadingFits /\ DescriptorFits /\ InitializingFits
  BY DEF ServingInv
<1>2. /\ UNCHANGED <<quicSettings, directory, quic, provider, answered>>
      /\ reading.stage \in {"start", "hashed", "read"}
  BY DEF HashPayload, ReadPayload, HashTensors
<1>3. quic.state \in {"created", "closed"} /\ provider = NoProvider /\ answered = <<>>
  BY <1>1, <1>2 DEF ReadingFits, Described
<1>4. PICK stage \in {"hashed", "read", "tensors"} : \E payload :
        /\ reading' = [reading EXCEPT !.stage = stage, !.payload = payload]
        /\ stage = "hashed" => directory.payload = quicSettings.manifest
        /\ stage # "hashed" =>
             /\ payload.targets # {}
             /\ ~reading.torn => payload = directory.payload /\ directory.payload = quicSettings.manifest
  <2>1. CASE HashPayload
    <3>1. /\ reading' = [reading EXCEPT !.stage = "hashed", !.payload = reading.payload]
          /\ directory.payload = quicSettings.manifest
      BY <1>1, <2>1 DEF HashPayload, QuicTypeOK
    <3> QED BY <3>1
  <2>2. CASE ReadPayload
    <3>1. /\ reading' = [reading EXCEPT !.stage = "read", !.payload = directory.payload]
          /\ directory.payload.targets # {}
          /\ ~reading.torn => directory.payload = quicSettings.manifest
      BY <1>1, <2>2 DEF ReadPayload, PayloadFits, ReadingFits
    <3> QED BY <3>1
  <2>3. CASE HashTensors
    <3>1. /\ reading' = [reading EXCEPT !.stage = "tensors", !.payload = reading.payload]
          /\ reading.payload.targets # {}
          /\ ~reading.torn => reading.payload = directory.payload /\ directory.payload = quicSettings.manifest
      BY <1>1, <2>3 DEF HashTensors, ReadingFits, QuicTypeOK
    <3> QED BY <3>1
  <2> QED BY <2>1, <2>2, <2>3
<1>5. PICK payload :
        /\ reading' = [reading EXCEPT !.stage = stage, !.payload = payload]
        /\ stage = "hashed" => directory.payload = quicSettings.manifest
        /\ stage # "hashed" =>
             /\ payload.targets # {}
             /\ ~reading.torn => payload = directory.payload /\ directory.payload = quicSettings.manifest
  BY <1>4
<1>6. /\ reading'.stage = stage /\ reading'.payload = payload /\ reading'.torn = reading.torn
      /\ reading' \in [stage : Described \union Initializing \union {"idle"}, payload : {reading'.payload},
                       torn : BOOLEAN]
  BY <1>1, <1>5 DEF QuicTypeOK, Described
<1>7. QuicTypeOK'
  BY <1>1, <1>2, <1>6 DEF QuicTypeOK
<1>8. ReadingFits'
  BY <1>2, <1>3, <1>5, <1>6 DEF ReadingFits
<1>9. DescriptorFits' /\ InitializingFits'
  BY <1>1, <1>2, <1>3, <1>6 DEF DescriptorFits, InitializingFits, Described, Initializing, QuicTaking
<1> QED BY <1>7, <1>8, <1>9 DEF ServingInv

LEMMA DescribingKeeps ==
  ASSUME ServingInv, Describe \/ DescribeSkeleton
  PROVE  ServingInv'
<1>1. QuicTypeOK /\ ReadingFits /\ DescriptorFits /\ InitializingFits
  BY DEF ServingInv
<1>2. /\ UNCHANGED <<quicSettings, directory, provider, answered>>
      /\ reading.stage \in {"start", "tensors"} /\ reading' = [reading EXCEPT !.stage = "idle"]
  BY DEF Describe, DescribeSkeleton
<1>3. quic.state \in {"created", "closed"} /\ provider = NoProvider /\ answered = <<>>
  BY <1>1, <1>2 DEF ReadingFits, Described
<1>4. reading'.stage = "idle" /\ reading'.torn = reading.torn /\ reading'.payload = reading.payload
  BY <1>1, <1>2 DEF QuicTypeOK
<1>5. PICK d : /\ quic' = [quic EXCEPT !.descriptor = d] /\ d.ready \in BOOLEAN
               /\ d.ready =>
                    /\ d.targets # {} /\ d.tensors = quicSettings.tensors
                    /\ ~reading.torn => d.manifest = quicSettings.manifest
                    /\ (d.horizon > 1 /\ d.head = NoValue) => directory.head = NoValue
  <2>1. CASE Describe
    <3> PICK p : p = reading.payload
      OBVIOUS
    <3> PICK fitted, horizon : /\ fitted = (p.mode = "train-q99")
                               /\ horizon = IF p.horizon > 0 THEN p.horizon ELSE 1
      OBVIOUS
    <3> PICK d : d = [manifest |-> directory.payload, tensors |-> quicSettings.tensors, head |-> p.headHash,
                      targets |-> p.targets, host |-> p.host, statistics |-> p.statistics,
                      fitted |-> fitted, horizon |-> horizon, ready |-> TRUE]
      OBVIOUS
    <3>1. /\ d.ready = TRUE /\ d.manifest = directory.payload /\ d.tensors = quicSettings.tensors
          /\ d.head = p.headHash /\ d.targets = p.targets /\ d.horizon = horizon
      OBVIOUS
    <3>2. quic' = [quic EXCEPT !.descriptor = d]
      BY <2>1 DEF Describe
    <3>3. d.targets # {} /\ (~reading.torn => d.manifest = quicSettings.manifest)
      BY <1>1, <2>1, <3>1 DEF Describe, ReadingFits
    <3>4. d.horizon > 1 => d.head = directory.head
      <4>1. HeadFits(p)
        BY <2>1 DEF Describe
      <4>2. horizon > 1 => p.horizon > 0
        OBVIOUS
      <4> QED BY <3>1, <4>1, <4>2 DEF HeadFits
    <3> QED BY <3>1, <3>2, <3>3, <3>4
  <2>2. CASE DescribeSkeleton
    <3>1. quic' = [quic EXCEPT !.descriptor = Undescribed] /\ Undescribed.ready = FALSE
      BY <2>2 DEF DescribeSkeleton, Undescribed
    <3> QED BY <3>1
  <2> QED BY <2>1, <2>2
<1>6. /\ quic'.descriptor = d /\ quic'.state = quic.state
      /\ quic' \in [state : {"created", "closed"} \union QuicTaking, descriptor : {quic'.descriptor},
                    episode : QuicEpisodes \union {NoValue}, used : SUBSET QuicEpisodes, index : Nat]
  BY <1>1, <1>5 DEF QuicTypeOK
<1>7. QuicTypeOK'
  BY <1>1, <1>2, <1>4, <1>5, <1>6 DEF QuicTypeOK
<1>8. ReadingFits'
  BY <1>4 DEF ReadingFits, Described
<1>9. DescriptorFits'
  BY <1>2, <1>3, <1>4, <1>5, <1>6 DEF DescriptorFits, Initializing, QuicTaking
<1>10. InitializingFits'
  BY <1>2, <1>3, <1>4, <1>6 DEF InitializingFits, Initializing, QuicTaking
<1> QED BY <1>7, <1>8, <1>9, <1>10 DEF ServingInv

(* Initialization: verified, loaded, available, or given up.                 *)
LEMMA BindingKeeps ==
  ASSUME ServingInv, BindProvider \/ InitializeFails
  PROVE  ServingInv'
<1>1. QuicTypeOK /\ ReadingFits /\ DescriptorFits /\ InitializingFits
  BY DEF ServingInv
<1>2. /\ UNCHANGED <<quicSettings, directory, quic, answered>>
      /\ quic.state = "created" /\ quic.descriptor.ready
  BY <1>1
  DEF BindProvider, RuntimeReady, InitializeFails, InitializingFits, DescriptorFits, Initializing
<1>3. PICK stage \in {"bound", "idle"}, there \in BOOLEAN :
        /\ reading' = [reading EXCEPT !.stage = stage]
        /\ provider' = [there |-> there, loaded |-> Unloaded, episode |-> NoValue]
        /\ stage = "idle" => ~there
  <2>1. CASE BindProvider
    <3>1. /\ reading' = [reading EXCEPT !.stage = "bound"]
          /\ provider' = [there |-> TRUE, loaded |-> Unloaded, episode |-> NoValue]
      BY <2>1 DEF BindProvider, NoProvider
    <3> QED BY <3>1
  <2>2. CASE InitializeFails
    <3>1. /\ reading' = [reading EXCEPT !.stage = "idle"]
          /\ provider' = [there |-> FALSE, loaded |-> Unloaded, episode |-> NoValue]
      BY <2>2 DEF InitializeFails, NoProvider
    <3> QED BY <3>1
  <2> QED BY <2>1, <2>2
<1>4. reading'.stage = stage /\ reading'.torn = reading.torn /\ reading'.payload = reading.payload
  BY <1>1, <1>3 DEF QuicTypeOK
<1>5. provider' \in [there : BOOLEAN, loaded : {provider'.loaded}, episode : QuicEpisodes \union {NoValue}]
  BY <1>3
<1>6. QuicTypeOK'
  BY <1>1, <1>2, <1>3, <1>4, <1>5 DEF QuicTypeOK, Initializing
<1>7. ReadingFits'
  BY <1>4 DEF ReadingFits, Described
<1>8. DescriptorFits'
  BY <1>1, <1>2, <1>4 DEF DescriptorFits
<1>9. stage = "idle" => provider' = NoProvider
  BY <1>3 DEF NoProvider
<1>10. InitializingFits'
  BY <1>2, <1>4, <1>9 DEF InitializingFits, Initializing, QuicTaking
<1> QED BY <1>6, <1>7, <1>8, <1>10 DEF ServingInv

LEMMA VerifyingKeeps ==
  ASSUME ServingInv, VerifyArtifact \/ VerifyHost
  PROVE  ServingInv'
<1>1. QuicTypeOK /\ ReadingFits /\ DescriptorFits /\ InitializingFits
  BY DEF ServingInv
<1>2. UNCHANGED <<quicSettings, directory, quic, provider, answered>>
  BY DEF VerifyArtifact, VerifyHost
<1>3. quic.state = "created" /\ quic.descriptor.ready
  BY <1>1 DEF VerifyArtifact, VerifyHost, InitializingFits, DescriptorFits, Initializing
<1>4. PICK stage \in {"verified", "host"}, payload \in {NoValue, reading.payload} :
        /\ reading' = [reading EXCEPT !.stage = stage, !.payload = payload]
        /\ ~reading.torn =>
             /\ directory.tensors = quic.descriptor.tensors
             /\ quic.descriptor.head # NoValue => directory.head = quic.descriptor.head
        /\ stage = "host" => directory.host.identity = quic.descriptor.host
  <2>1. CASE VerifyArtifact
    <3>1. /\ reading' = [reading EXCEPT !.stage = "verified", !.payload = NoValue]
          /\ directory.tensors = quic.descriptor.tensors
          /\ quic.descriptor.head # NoValue => directory.head = quic.descriptor.head
      BY <2>1 DEF VerifyArtifact, ArtifactUnchanged
    <3> QED BY <3>1
  <2>2. CASE VerifyHost
    <3>1. /\ reading' = [reading EXCEPT !.stage = "host", !.payload = reading.payload]
          /\ directory.host.identity = quic.descriptor.host
      BY <1>1, <2>2 DEF VerifyHost, QuicTypeOK
    <3>2. ~reading.torn =>
             /\ directory.tensors = quic.descriptor.tensors
             /\ quic.descriptor.head # NoValue => directory.head = quic.descriptor.head
      BY <1>1, <2>2 DEF VerifyHost, InitializingFits
    <3> QED BY <3>1, <3>2
  <2> QED BY <2>1, <2>2
<1>5. /\ reading'.stage = stage /\ reading'.payload = payload /\ reading'.torn = reading.torn
      /\ reading' \in [stage : Described \union Initializing \union {"idle"}, payload : {reading'.payload},
                       torn : BOOLEAN]
  BY <1>1, <1>4 DEF QuicTypeOK, Initializing
<1>6. QuicTypeOK'
  BY <1>1, <1>2, <1>5 DEF QuicTypeOK
<1>7. ReadingFits'
  BY <1>5 DEF ReadingFits, Described
<1>8. DescriptorFits'
  BY <1>1, <1>2, <1>3, <1>5 DEF DescriptorFits
<1>9. InitializingFits'
  BY <1>2, <1>3, <1>4, <1>5 DEF InitializingFits, Initializing, QuicTaking
<1> QED BY <1>6, <1>7, <1>8, <1>9 DEF ServingInv

LEMMA LoadingArtifactKeeps ==
  ASSUME ServingInv, LoadArtifact
  PROVE  ServingInv'
<1>1. QuicTypeOK /\ ReadingFits /\ DescriptorFits /\ InitializingFits
  BY DEF ServingInv
<1>2. /\ UNCHANGED <<quicSettings, directory, quic, answered>>
      /\ reading.stage = "host" /\ reading' = [reading EXCEPT !.stage = "loaded"]
      /\ directory.payload.targets = quic.descriptor.targets
  BY DEF LoadArtifact
<1>3. quic.state = "created" /\ quic.descriptor.ready
  BY <1>1, <1>2 DEF InitializingFits, DescriptorFits, Initializing
<1>4. /\ reading'.stage = "loaded" /\ reading'.payload = reading.payload /\ reading'.torn = reading.torn
      /\ reading' \in [stage : Described \union Initializing \union {"idle"}, payload : {reading'.payload},
                       torn : BOOLEAN]
  BY <1>1, <1>2 DEF QuicTypeOK, Initializing
<1>5. PICK loaded : loaded = [tensors |-> directory.tensors, head |-> directory.head,
                              host |-> directory.host.identity, targets |-> directory.payload.targets]
  OBVIOUS
<1>6. /\ loaded.tensors = directory.tensors /\ loaded.head = directory.head
      /\ loaded.host = directory.host.identity /\ loaded.targets = quic.descriptor.targets
  BY <1>2, <1>5
<1>7. provider' = [provider EXCEPT !.loaded = loaded]
  BY <1>5 DEF LoadArtifact
<1>8. /\ provider'.loaded = loaded
      /\ provider' \in [there : BOOLEAN, loaded : {provider'.loaded}, episode : QuicEpisodes \union {NoValue}]
  BY <1>1, <1>7 DEF QuicTypeOK
<1>9. QuicTypeOK'
  BY <1>1, <1>2, <1>4, <1>8 DEF QuicTypeOK
<1>10. ReadingFits'
  BY <1>4 DEF ReadingFits, Described
<1>11. DescriptorFits'
  BY <1>1, <1>2, <1>3, <1>4 DEF DescriptorFits
<1>12. ~reading.torn =>
         /\ loaded.tensors = quic.descriptor.tensors /\ loaded.host = quic.descriptor.host
         /\ quic.descriptor.horizon > 1 => loaded.head = quic.descriptor.head
  BY <1>1, <1>2, <1>3, <1>6 DEF InitializingFits, DescriptorFits
<1>13. DescribedIsLoaded'
  BY <1>2, <1>4, <1>6, <1>8, <1>12 DEF DescribedIsLoaded
<1>14. InitializingFits'
  BY <1>2, <1>3, <1>4, <1>13 DEF InitializingFits, Initializing, QuicTaking
<1> QED BY <1>9, <1>10, <1>11, <1>14 DEF ServingInv

LEMMA AvailableKeeps ==
  ASSUME ServingInv, BecomeAvailable
  PROVE  ServingInv'
<1>1. QuicTypeOK /\ ReadingFits /\ DescriptorFits /\ InitializingFits
  BY DEF ServingInv
<1>2. /\ UNCHANGED <<quicSettings, directory, provider, answered>>
      /\ reading.stage = "loaded" /\ reading' = [reading EXCEPT !.stage = "idle"]
      /\ quic' = [quic EXCEPT !.state = "ready"]
  BY DEF BecomeAvailable
<1>3. quic.state = "created" /\ quic.descriptor.ready /\ DescribedIsLoaded
  BY <1>1, <1>2 DEF InitializingFits, DescriptorFits, Initializing
<1>4. reading'.stage = "idle" /\ reading'.payload = reading.payload /\ reading'.torn = reading.torn
  BY <1>1, <1>2 DEF QuicTypeOK
<1>5. /\ quic'.state = "ready" /\ quic'.descriptor = quic.descriptor
      /\ quic' \in [state : {"created", "closed"} \union QuicTaking, descriptor : {quic'.descriptor},
                    episode : QuicEpisodes \union {NoValue}, used : SUBSET QuicEpisodes, index : Nat]
  BY <1>1, <1>2 DEF QuicTypeOK, QuicTaking
<1>6. QuicTypeOK'
  BY <1>1, <1>2, <1>4, <1>5 DEF QuicTypeOK
<1>7. ReadingFits'
  BY <1>4 DEF ReadingFits, Described
<1>8. DescriptorFits'
  BY <1>1, <1>2, <1>3, <1>4, <1>5 DEF DescriptorFits
<1>9. DescribedIsLoaded'
  BY <1>2, <1>3, <1>4, <1>5 DEF DescribedIsLoaded
<1>10. InitializingFits'
  BY <1>4, <1>5, <1>9 DEF InitializingFits, Initializing
<1> QED BY <1>6, <1>7, <1>8, <1>10 DEF ServingInv

(* Whoever is reading the files when one is replaced has a torn reading.     *)
LEMMA ReplacingFileKeeps ==
  ASSUME ServingInv, ReplaceFile
  PROVE  ServingInv'
<1>1. QuicTypeOK /\ ReadingFits /\ DescriptorFits /\ InitializingFits
  BY DEF ServingInv
<1>2. UNCHANGED <<quicSettings, quic, provider, answered>>
  BY DEF ReplaceFile
<1>3. PICK p \in Payloads, t \in TensorFiles, h \in TensorFiles \union {NoValue}, m \in HostModels :
        /\ directory' = [payload |-> p, tensors |-> t, head |-> h, host |-> m]
        /\ directory.head = NoValue => h = NoValue
  <2>1. /\ directory = [payload |-> directory.payload, tensors |-> directory.tensors,
                        head |-> directory.head, host |-> directory.host]
        /\ directory.payload \in Payloads /\ directory.tensors \in TensorFiles
        /\ directory.head \in TensorFiles \union {NoValue} /\ directory.host \in HostModels
    BY <1>1 DEF QuicTypeOK
  <2>2. CASE \E p \in Payloads : directory' = [directory EXCEPT !.payload = p]
    BY <2>1, <2>2
  <2>3. CASE \E t \in TensorFiles : directory' = [directory EXCEPT !.tensors = t]
    BY <2>1, <2>3
  <2>4. CASE \E t \in TensorFiles : directory.head # NoValue /\ directory' = [directory EXCEPT !.head = t]
    BY <2>1, <2>4
  <2>5. CASE \E h \in HostModels : directory' = [directory EXCEPT !.host = h]
    BY <2>1, <2>5
  <2> QED BY <2>2, <2>3, <2>4, <2>5 DEF ReplaceFile
<1>4. directory' \in [payload : Payloads, tensors : TensorFiles, head : TensorFiles \union {NoValue},
                      host : HostModels]
      /\ directory'.head = h
  BY <1>3
<1>5. PICK torn \in BOOLEAN :
        torn <=> reading.torn \/ reading.stage \in {"hashed", "read", "tensors", "verified", "host"}
  OBVIOUS
<1>6. reading' = [reading EXCEPT !.torn = torn]
  <2>1. (reading.torn \/ reading.stage \in {"hashed", "read", "tensors", "verified", "host"}) \in BOOLEAN
    OBVIOUS
  <2>2. (reading.torn \/ reading.stage \in {"hashed", "read", "tensors", "verified", "host"}) = torn
    BY <1>5
  <2>3. reading' = [reading EXCEPT !.torn = reading.torn \/ reading.stage \in {"hashed", "read", "tensors",
                                                                              "verified", "host"}]
    BY DEF ReplaceFile
  <2> QED BY <2>2, <2>3
<1>7. /\ reading'.stage = reading.stage /\ reading'.payload = reading.payload /\ reading'.torn = torn
      /\ reading' \in [stage : Described \union Initializing \union {"idle"}, payload : {reading'.payload},
                       torn : BOOLEAN]
  BY <1>1, <1>6 DEF QuicTypeOK
<1>8. QuicTypeOK'
  BY <1>1, <1>2, <1>4, <1>7 DEF QuicTypeOK
<1>9. ReadingFits'
  BY <1>1, <1>2, <1>5, <1>7 DEF ReadingFits, Described
<1>10. DescriptorFits'
  BY <1>1, <1>2, <1>3, <1>4, <1>5, <1>7 DEF DescriptorFits
<1>11. DescribedIsLoaded => DescribedIsLoaded'
  BY <1>2, <1>5, <1>7 DEF DescribedIsLoaded
<1>12. InitializingFits'
  BY <1>1, <1>2, <1>5, <1>7, <1>11 DEF InitializingFits, Initializing, QuicTaking
<1> QED BY <1>8, <1>9, <1>10, <1>12 DEF ServingInv

(* Episodes begin, are answered and end; the adapter closes.                 *)
EpisodeStep == (\E e \in QuicEpisodes : ResetQuicEpisode(e)) \/ AnswerPrediction \/ EndQuicEpisode

LEMMA AnsweringKeeps ==
  ASSUME ServingInv, EpisodeStep
  PROVE  ServingInv'
<1>1. QuicTypeOK /\ ReadingFits /\ DescriptorFits /\ InitializingFits
  BY DEF ServingInv
<1>2. UNCHANGED <<quicSettings, directory, reading>> /\ quic.state \in QuicTaking
  BY DEF EpisodeStep, ResetQuicEpisode, AnswerPrediction, EndQuicEpisode, QuicTaking
<1>3. reading.stage = "idle" /\ quic.descriptor.ready /\ DescribedIsLoaded
  BY <1>1, <1>2 DEF InitializingFits, DescriptorFits
<1>4. /\ quic' \in [state : {"created", "closed"} \union QuicTaking, descriptor : {quic'.descriptor},
                    episode : QuicEpisodes \union {NoValue}, used : SUBSET QuicEpisodes, index : Nat]
      /\ provider' \in [there : BOOLEAN, loaded : {provider'.loaded}, episode : QuicEpisodes \union {NoValue}]
      /\ quic'.descriptor = quic.descriptor /\ provider'.loaded = provider.loaded
      /\ quic'.state \in QuicTaking
      /\ quic'.state = "active" => provider'.episode = quic'.episode
  <2>1. CASE \E e \in QuicEpisodes : ResetQuicEpisode(e)
    <3>1. PICK e \in QuicEpisodes : ResetQuicEpisode(e)
      BY <2>1
    <3>2. PICK used \in SUBSET QuicEpisodes : used = quic.used \union {e}
      BY <1>1 DEF QuicTypeOK
    <3>3. /\ quic' = [quic EXCEPT !.state = "active", !.episode = e, !.index = 0, !.used = used]
          /\ provider' = [provider EXCEPT !.episode = e]
      BY <3>1, <3>2 DEF ResetQuicEpisode
    <3>4. /\ quic' \in [state : {"created", "closed"} \union QuicTaking, descriptor : {quic'.descriptor},
                        episode : QuicEpisodes \union {NoValue}, used : SUBSET QuicEpisodes, index : Nat]
          /\ quic'.descriptor = quic.descriptor /\ quic'.state = "active" /\ quic'.episode = e
      BY <1>1, <3>3 DEF QuicTypeOK, QuicTaking
    <3>5. /\ provider' \in [there : BOOLEAN, loaded : {provider'.loaded},
                            episode : QuicEpisodes \union {NoValue}]
          /\ provider'.loaded = provider.loaded /\ provider'.episode = e
      BY <1>1, <3>3 DEF QuicTypeOK
    <3> QED BY <3>4, <3>5 DEF QuicTaking
  <2>2. CASE AnswerPrediction
    <3>1. UNCHANGED provider /\ quic.state = "active" /\ quic' = [quic EXCEPT !.index = @ + 1]
      BY <2>2 DEF AnswerPrediction
    <3>2. PICK index \in Nat : quic' = [quic EXCEPT !.index = index]
      BY <1>1, <3>1 DEF QuicTypeOK
    <3> QED BY <1>1, <3>1, <3>2 DEF QuicTypeOK, InitializingFits, QuicTaking
  <2>3. CASE EndQuicEpisode
    <3>1. UNCHANGED provider /\ quic' = [quic EXCEPT !.state = "ready", !.episode = NoValue, !.index = 0]
      BY <2>3 DEF EndQuicEpisode
    <3> QED BY <1>1, <3>1 DEF QuicTypeOK, QuicTaking
  <2> QED BY <2>1, <2>2, <2>3 DEF EpisodeStep
<1>5. QuicTypeOK'
  BY <1>1, <1>2, <1>4 DEF QuicTypeOK
<1>6. ReadingFits'
  BY <1>2, <1>3 DEF ReadingFits, Described
<1>7. DescriptorFits'
  BY <1>1, <1>2, <1>3, <1>4 DEF DescriptorFits
<1>8. DescribedIsLoaded'
  BY <1>2, <1>3, <1>4 DEF DescribedIsLoaded
<1>9. InitializingFits'
  BY <1>2, <1>3, <1>4, <1>8 DEF InitializingFits, Initializing, QuicTaking
<1> QED BY <1>5, <1>6, <1>7, <1>9 DEF ServingInv

LEMMA ClosingQuicKeeps ==
  ASSUME ServingInv, CloseQuic
  PROVE  ServingInv'
<1>1. QuicTypeOK /\ ReadingFits /\ DescriptorFits /\ InitializingFits
  BY DEF ServingInv
<1>2. /\ UNCHANGED <<quicSettings, directory, reading, answered>> /\ reading.stage \in {"start", "idle"}
      /\ quic' = [quic EXCEPT !.state = "closed", !.episode = NoValue] /\ provider' = NoProvider
  BY DEF CloseQuic
<1>3. /\ quic' \in [state : {"created", "closed"} \union QuicTaking, descriptor : {quic'.descriptor},
                    episode : QuicEpisodes \union {NoValue}, used : SUBSET QuicEpisodes, index : Nat]
      /\ quic'.descriptor = quic.descriptor /\ quic'.state = "closed"
  BY <1>1, <1>2 DEF QuicTypeOK, QuicTaking
<1>4. provider' \in [there : BOOLEAN, loaded : {provider'.loaded}, episode : QuicEpisodes \union {NoValue}]
  BY <1>2 DEF NoProvider
<1>5. QuicTypeOK'
  BY <1>1, <1>2, <1>3, <1>4 DEF QuicTypeOK
<1>6. ReadingFits'
  BY <1>1, <1>2, <1>3 DEF ReadingFits
<1>7. DescriptorFits'
  BY <1>1, <1>2, <1>3 DEF DescriptorFits, QuicTaking
<1>8. InitializingFits'
  BY <1>1, <1>2, <1>3 DEF InitializingFits, Initializing, QuicTaking
<1> QED BY <1>5, <1>6, <1>7, <1>8 DEF ServingInv

LEMMA ServingInvKept ==
  ASSUME ServingInv, [QuicNext]_quicVars
  PROVE  ServingInv'
<1>1. CASE UNCHANGED quicVars
  BY <1>1
  DEF ServingInv, QuicTypeOK, ReadingFits, DescriptorFits, InitializingFits, DescribedIsLoaded, quicVars
<1>2. CASE QuicNext
  BY <1>2, HashingKeeps, DescribingKeeps, BindingKeeps, VerifyingKeeps, LoadingArtifactKeeps,
     AvailableKeeps, ReplacingFileKeeps, AnsweringKeeps, ClosingQuicKeeps
  DEF QuicNext, EpisodeStep
<1> QED BY <1>1, <1>2

SoundAnswer(a) ==
  /\ a.rows = quic.descriptor.horizon /\ WithinBounds(a.action)
  /\ quicSettings.codec = "libero" =>
       /\ a.decoded < 5 <=> a.action > 0
       /\ a.decoded > 5 <=> a.action < 0

LEMMA AnswersInParts ==
  ASSUME answered \in Seq(AnswerRecords)
  PROVE  AnswersAreSound <=>
           /\ \A i, j \in 1..Len(answered) : i < j => answered[i].id # answered[j].id
           /\ \A i \in 1..Len(answered) : SoundAnswer(answered[i])
<1>1. DOMAIN answered = 1..Len(answered)
  OBVIOUS
<1> QED BY <1>1 DEF AnswersAreSound, SoundAnswer

LEMMA AnswersInPartsAfter ==
  ASSUME answered' \in Seq(AnswerRecords)
  PROVE  AnswersAreSound' <=>
           /\ \A i, j \in 1..Len(answered') : i < j => answered'[i].id # answered'[j].id
           /\ (\A i \in 1..Len(answered) : SoundAnswer(answered[i]))'
<1>1. DOMAIN answered' = 1..Len(answered')
  OBVIOUS
<1> QED BY <1>1 DEF AnswersAreSound, SoundAnswer

(* A prediction takes the next index of the active episode.                  *)
LEMMA AnswerKeeps ==
  ASSUME QuicInv, AnswerPrediction
  PROVE  AnswersFit' /\ AnswersAreSound'
<1>1. QuicTypeOK /\ AnswersFit /\ AnswersAreSound /\ UNCHANGED quicSettings
  BY DEF QuicInv, ServingInv, AnswerPrediction
<1>2. /\ quic.state = "active" /\ quic.episode \in quic.used /\ quic.episode \in QuicEpisodes
      /\ quic.index \in Nat /\ answered \in Seq(AnswerRecords)
  BY <1>1 DEF AnswerPrediction, AnswersFit, QuicTypeOK
<1>3. PICK code \in GripperCodes, rows \in 1..2 :
        /\ AnswerAccepted(code, rows)
        /\ quic' = [quic EXCEPT !.index = @ + 1]
        /\ answered' = Append(answered, [id |-> <<quic.episode, quic.index>>, decoded |-> code,
                                         action |-> Transformed(code), rows |-> rows])
  BY DEF AnswerPrediction
<1>4. code \in Int /\ Transformed(code) \in Int
  BY QuicAssumption DEF Transformed
<1> PICK action \in Int : action = Transformed(code)
  BY <1>4
<1> PICK id \in QuicEpisodes \X Nat : id = <<quic.episode, quic.index>>
  BY <1>2
<1> PICK a : a = [id |-> id, decoded |-> code, action |-> action, rows |-> rows]
  OBVIOUS
<1>5. /\ a.id = id /\ a.decoded = code /\ a.action = action /\ a.rows = rows
      /\ id[1] = quic.episode /\ id[2] = quic.index /\ a \in AnswerRecords
  BY <1>2, <1>4 DEF AnswerRecords
<1>6. /\ quic'.state = quic.state /\ quic'.descriptor = quic.descriptor /\ quic'.used = quic.used
      /\ quic'.episode = quic.episode /\ quic'.index = quic.index + 1
  BY <1>1, <1>2, <1>3 DEF QuicTypeOK
<1>7. SoundAnswer(a)'
  <2>1. WithinBounds(action) /\ rows = quic.descriptor.horizon /\ action = Transformed(code)
    BY <1>3 DEF AnswerAccepted
  <2>2. quicSettings.codec = "libero" => (code < 5 <=> action > 0) /\ (code > 5 <=> action < 0)
    BY <1>4, <2>1 DEF Transformed
  <2> QED BY <1>1, <1>5, <1>6, <2>1, <2>2 DEF SoundAnswer, WithinBounds
<1>8. answered' = Append(answered, a)
  BY <1>3
<1>9. /\ Len(answered') = Len(answered) + 1 /\ answered' \in Seq(AnswerRecords)
      /\ \A i \in 1..Len(answered) : answered'[i] = answered[i]
      /\ answered'[Len(answered) + 1] = a
      /\ 1..Len(answered') = 1..Len(answered) \union {Len(answered) + 1} /\ Len(answered) \in Nat
  BY <1>2, <1>5, <1>8
<1>10. \A i \in 1..Len(answered) : /\ answered[i].id[1] \in quic.used /\ answered[i].id[2] \in Nat
                                   /\ answered[i].id[1] = quic.episode => answered[i].id[2] < quic.index
  <2>1. \A i \in 1..Len(answered) : answered[i] \in AnswerRecords
    BY <1>2
  <2>2. \A i \in 1..Len(answered) : answered[i].id[2] \in Nat
    BY <2>1 DEF AnswerRecords
  <2> QED BY <1>1, <1>2, <2>2 DEF AnswersFit
<1>11. AnswersFit'
  <2>1. ASSUME NEW i \in 1..Len(answered')
        PROVE  /\ answered'[i].id[1] \in quic.used
               /\ answered'[i].id[1] = quic.episode => answered'[i].id[2] < quic.index + 1
    <3>1. CASE i \in 1..Len(answered)
      BY SMTT(30), <1>2, <1>9, <1>10, <3>1
    <3>2. CASE i = Len(answered) + 1
      BY <1>2, <1>5, <1>9, <3>2
    <3> QED BY <1>9, <3>1, <3>2
  <2> QED BY <1>2, <1>6, <1>9, <2>1 DEF AnswersFit, AnswerRecords
<1>12. \A i, j \in 1..Len(answered') : i < j => answered'[i].id # answered'[j].id
  <2> SUFFICES ASSUME NEW i \in 1..Len(answered'), NEW j \in 1..Len(answered'), i < j
               PROVE  answered'[i].id # answered'[j].id
    OBVIOUS
  <2>1. i \in 1..Len(answered) /\ answered'[i] = answered[i]
    BY <1>9
  <2>2. CASE j \in 1..Len(answered)
    BY <1>1, <1>2, <1>9, <2>1, <2>2, AnswersInParts
  <2>3. CASE j = Len(answered) + 1
    <3>1. answered'[j] = a
      BY <1>9, <2>3
    <3>2. answered[i].id[1] = quic.episode => answered[i].id[2] < quic.index
      BY <1>10, <2>1
    <3> QED BY <1>2, <1>5, <2>1, <3>1, <3>2
  <2> QED BY <1>9, <2>2, <2>3
<1>13. (\A i \in 1..Len(answered) : SoundAnswer(answered[i]))'
  <2>1. \A i \in 1..Len(answered) : SoundAnswer(answered[i])
    BY <1>1, <1>2, AnswersInParts
  <2>2. ASSUME NEW b, SoundAnswer(b) PROVE SoundAnswer(b)'
    BY <1>1, <1>6, <2>2 DEF SoundAnswer, WithinBounds
  <2>3. ASSUME NEW i \in 1..Len(answered') PROVE SoundAnswer(answered[i])'
    <3> PICK b : b = answered'[i]
      OBVIOUS
    <3>1. SoundAnswer(b)'
      <4>1. CASE i \in 1..Len(answered)
        BY <1>9, <2>1, <2>2, <4>1
      <4>2. CASE i = Len(answered) + 1
        BY <1>7, <1>9, <4>2
      <4> QED BY <1>9, <4>1, <4>2
    <3> QED BY <3>1 DEF SoundAnswer
  <2> QED BY <2>3
<1> QED BY <1>9, <1>11, <1>12, <1>13, AnswersInPartsAfter

LEMMA QuicInvKept ==
  ASSUME QuicInv, [QuicNext]_quicVars
  PROVE  QuicInv'
<1>1. ServingInv /\ QuicTypeOK /\ ReadingFits /\ AnswersFit /\ AnswersAreSound
  BY DEF QuicInv, ServingInv
<1>2. ServingInv'
  BY <1>1, ServingInvKept
<1>3. CASE AnswerPrediction
  BY <1>2, <1>3, AnswerKeeps DEF QuicInv
<1>4. CASE Describe \/ DescribeSkeleton
  <2>1. quic.state # "active" /\ answered = <<>> /\ UNCHANGED answered
    BY <1>1, <1>4 DEF Describe, DescribeSkeleton, ReadingFits, Described
  <2>2. PICK d : quic' = [quic EXCEPT !.descriptor = d]
    BY <1>4 DEF Describe, DescribeSkeleton
  <2>3. quic'.state = quic.state
    BY <1>1, <2>2 DEF QuicTypeOK
  <2> QED BY <1>2, <2>1, <2>3 DEF QuicInv, AnswersFit, AnswersAreSound
<1>5. CASE /\ UNCHANGED <<quicSettings, answered>> /\ quic'.descriptor = quic.descriptor
           /\ \/ quic'.state # "active" /\ quic'.used = quic.used
              \/ quic'.state = quic.state /\ quic'.used = quic.used
                 /\ quic'.episode = quic.episode /\ quic'.index = quic.index
              \/ quic'.used = quic.used \union {quic'.episode} /\ quic'.episode \notin quic.used
  <2>1. AnswersAreSound'
    BY <1>1, <1>5 DEF AnswersAreSound, WithinBounds
  <2>2. AnswersFit'
    BY <1>1, <1>5 DEF AnswersFit, AnswerRecords
  <2> QED BY <1>2, <2>1, <2>2 DEF QuicInv
<1>6. CASE \E e \in QuicEpisodes : ResetQuicEpisode(e)
  <2>1. PICK e \in QuicEpisodes : ResetQuicEpisode(e)
    BY <1>6
  <2>2. /\ UNCHANGED <<quicSettings, answered>> /\ quic'.descriptor = quic.descriptor
        /\ quic'.episode = e /\ quic'.used = quic.used \union {e} /\ e \notin quic.used
    BY <1>1, <2>1 DEF ResetQuicEpisode, QuicTypeOK
  <2> QED BY <1>5, <2>2
<1>7. CASE BecomeAvailable \/ EndQuicEpisode \/ CloseQuic
  <2>1. /\ UNCHANGED <<quicSettings, answered>> /\ quic'.descriptor = quic.descriptor
        /\ quic'.state # "active" /\ quic'.used = quic.used
    BY <1>1, <1>7 DEF BecomeAvailable, EndQuicEpisode, CloseQuic, QuicTypeOK
  <2> QED BY <1>5, <2>1
<1>8. CASE UNCHANGED <<quicSettings, quic, answered>>
  BY <1>5, <1>8
<1>9. \/ UNCHANGED <<quicSettings, quic, answered>> \/ AnswerPrediction \/ Describe \/ DescribeSkeleton
      \/ \E e \in QuicEpisodes : ResetQuicEpisode(e)
      \/ BecomeAvailable \/ EndQuicEpisode \/ CloseQuic
  BY DEF quicVars, QuicNext, HashPayload, ReadPayload, HashTensors, BindProvider, VerifyArtifact, VerifyHost,
         LoadArtifact, InitializeFails, ReplaceFile
<1> QED BY <1>3, <1>4, <1>6, <1>7, <1>8, <1>9

\* Files replaced between their check and their use, providers that fail while
\* they load, episodes that leave the provider at their ID: a QuIC policy that
\* takes episodes serves the artifact, host, head and targets it negotiated
\* unless a file was replaced while it was read, no provider outlives the
\* adapter's use of it, and its answers have distinct IDs, the announced
\* horizon and the transformed gripper (QuicPolicyAdapter and its providers).
THEOREM ProvidersServeWhatWasNegotiated == QuicSpec => []ProviderServesTheDescriptor
<1>1. QuicInv => ProviderServesTheDescriptor
  <2> SUFFICES ASSUME QuicInv PROVE ProviderServesTheDescriptor
    OBVIOUS
  <2>1. QuicTypeOK /\ DescriptorFits /\ InitializingFits /\ ReadingFits /\ AnswersAreSound
    BY DEF QuicInv, ServingInv
  <2>2. quic.state \in QuicTaking => quic.descriptor.ready /\ DescribedIsLoaded
    BY <2>1 DEF InitializingFits, DescriptorFits
  <2>3. DescriptorIsServed
    BY <2>1, <2>2 DEF DescriptorIsServed, DescriptorFits, DescribedIsLoaded, Unloaded, QuicTaking
  <2>4. ProviderFollowsAdapter
    <3>1. provider.there => provider # NoProvider
      BY DEF NoProvider
    <3>2. quic.state \in {"created", "ready", "active", "closed"}
          /\ reading.stage \in Described \union Initializing \union {"idle"}
      BY <2>1 DEF QuicTypeOK, QuicTaking
    <3> QED BY <2>1, <3>1, <3>2
        DEF ProviderFollowsAdapter, InitializingFits, ReadingFits, Initializing, QuicTaking
  <2> QED BY <2>1, <2>3, <2>4 DEF ProviderServesTheDescriptor
<1>2. QuicInit => QuicInv
  BY ServingInvInitially DEF QuicInit, QuicInv, AnswersFit, AnswersAreSound
<1> QED BY <1>1, <1>2, QuicInvKept, PTL DEF QuicSpec

-----------------------------------------------------------------------------
(* Training runs, for every number of commands, contents, errors, interrupts *)
(* and kills.                                                                *)

\* Who is at work follows from where the host is: the finalizer is started
\* after the trainer succeeded, and the host writes beside neither.
TakingTurns(r) ==
  /\ host[r] \in {"create", "fill", "start"} => worker[r] = "none"
  /\ host[r] \in {"train", "stop", "mark", "fail", "finalize"} => worker[r] # "none"
  /\ worker[r] = "none" => finalizer[r] = "none"
  /\ finalizer[r] # "none" => worker[r] = "succeeded"
  /\ host[r] \in {"train", "stop", "mark", "fail"} => finalizer[r] = "none"
  /\ host[r] = "finalize" => finalizer[r] # "none"
  /\ host[r] \in {"report", "done"} => finalizer[r] = "succeeded"
  /\ host[r] \in {"mark", "fail"} => worker[r] \notin WorkerLive

\* What the run directory says at each stage.
DirectoryFits(r) ==
  /\ worker[r] \in {"event", "return"} => runDir[r].result = "checkpointing"
  /\ worker[r] = "succeeded" =>
       /\ runDir[r].staged # NoContent
       /\ host[r] = "train" => runDir[r].result = "checkpointing"
  /\ finalizer[r] \in {"check", "temporary", "fill", "rename", "clean", "result"} =>
       runDir[r].result = "checkpointing"
  /\ finalizer[r] # "none" => runDir[r].result \in {"checkpointing", "completed", "failed"}
  /\ finalizer[r] \in {"seal", "succeeded"} =>
       runDir[r].result = "completed" /\ runDir[r].checkpoint = runDir[r].staged
  /\ finalizer[r] = "failed" => runDir[r].result = "failed"
  /\ finalizer[r] = "succeeded" => runDir[r].sealed = {"result", "events"}
  /\ runDir[r].manifest <=> finalizer[r] = "succeeded"

\* What the registry holds of a run is whole and was renamed into place before
\* the run went on.
RegistryFits(r) ==
  /\ finalizer[r] = "rename" => temporary[r] = "whole"
  /\ finalizer[r] \in {"result", "seal", "succeeded"} => registry[runDir[r].staged].by # {}
  /\ \A c \in Contents : r \in registry[c].by =>
       /\ registry[c].whole
       /\ runDir[r].staged = c
       /\ finalizer[r] \in {"result", "seal", "succeeded", "except", "failed", "dead"}

\* Nothing goes wrong without a cause, and each cause shows where it must.
CausesFit(r) ==
  /\ host[r] \in {"create", "fill", "start"} => causes[r] = {}
  /\ host[r] \in {"stop", "mark", "fail", "failed", "interrupted", "dead"} => causes[r] # {}
  /\ worker[r] \in {"interrupting", "except", "failed", "interrupted", "dead"} => causes[r] # {}
  /\ finalizer[r] \in {"clean", "except", "failed", "dead"} => causes[r] # {}
  /\ "race" \in causes[r] => finalizer[r] \in {"clean", "except", "failed", "dead"}
  /\ causes[r] = {"race"} => finalizer[r] # "dead" /\ host[r] \in {"finalize", "failed"}
  /\ host[r] = "train" =>
       /\ "interrupt" \notin causes[r]
       /\ worker[r] \notin {"interrupting", "interrupted"}
       /\ worker[r] \in {"except", "failed", "dead"} => causes[r] \intersect {"error", "kill"} # {}
  /\ host[r] = "fail" => causes[r] \intersect {"error", "kill"} # {}
  /\ causes[r] = {"interrupt"} =>
       /\ host[r] \in {"stop", "mark", "interrupted"}
       /\ host[r] = "interrupted" /\ finalizer[r] = "none" /\ worker[r] # "none" =>
            runDir[r].result = "interrupted" /\ worker[r] \notin WorkerLive

RunInv(r) == TakingTurns(r) /\ DirectoryFits(r) /\ RegistryFits(r) /\ CausesFit(r)

TrainingInv == TrainingTypeOK /\ \A r \in TrainingRuns : RunInv(r)

LEMMA TrainingInvInitially == TrainingInit => TrainingInv
<1> SUFFICES ASSUME TrainingInit PROVE TrainingInv
  OBVIOUS
<1>1. TrainingTypeOK
  BY TrainingAssumption DEF TrainingInit, TrainingTypeOK, RunDirectory, EmptyDirectory, HostLabels, Final
<1>2. \A r \in TrainingRuns : RunInv(r)
  BY DEF TrainingInit, RunInv, TakingTurns, DirectoryFits, RegistryFits, CausesFit, EmptyDirectory,
         WorkerLive
<1> QED BY <1>1, <1>2 DEF TrainingInv

(* Nothing that is published is ever taken back or replaced.                 *)
RegistryGrows(r) ==
  \A c \in Contents :
    \/ registry'[c] = registry[c]
    \/ registry[c].by = {} /\ registry'[c].by = {r}

(* A step of one run leaves the others alone.                                *)
LEMMA OtherRunsKept ==
  ASSUME TrainingInv, NEW r \in TrainingRuns, NEW q \in TrainingRuns \ {r}, RegistryGrows(r),
         host'[q] = host[q], worker'[q] = worker[q], finalizer'[q] = finalizer[q],
         runDir'[q] = runDir[q], temporary'[q] = temporary[q], causes'[q] = causes[q]
  PROVE  RunInv(q)'
<1>1. RunInv(q) /\ runDir[q] \in RunDirectory
  BY DEF TrainingInv, TrainingTypeOK
<1>2. TakingTurns(q)' /\ DirectoryFits(q)' /\ CausesFit(q)'
  BY <1>1 DEF RunInv, TakingTurns, DirectoryFits, CausesFit
<1>3. finalizer[q] \in {"result", "seal", "succeeded"} => registry'[runDir'[q].staged].by # {}
  <2> SUFFICES ASSUME finalizer[q] \in {"result", "seal", "succeeded"}
               PROVE  registry'[runDir[q].staged].by # {}
    OBVIOUS
  <2>1. registry[runDir[q].staged].by # {}
    BY <1>1 DEF RunInv, RegistryFits
  <2>2. runDir[q].staged \in Contents
    <3>1. worker[q] = "succeeded"
      BY <1>1 DEF RunInv, TakingTurns
    <3>2. runDir[q].staged # NoContent /\ runDir[q].staged \in Contents \union {NoContent}
      BY <1>1, <3>1 DEF RunInv, DirectoryFits, RunDirectory
    <3> QED BY <3>2
  <2> QED BY <2>1, <2>2 DEF RegistryGrows
<1>4. \A c \in Contents : q \in registry'[c].by => registry'[c] = registry[c]
  BY DEF RegistryGrows
<1>5. RegistryFits(q)'
  BY <1>1, <1>3, <1>4 DEF RunInv, RegistryFits
<1> QED BY <1>2, <1>5 DEF RunInv

(* What the writes to a run directory change.                                *)
Events == {"planned", "preparing", "running", "checkpointing", "failed", "interrupted"}

Rewritten(d, e) ==
  e \in RunDirectory /\ e.staged = d.staged /\ (e.manifest <=> d.manifest)

LEMMA EventsWritten ==
  ASSUME NEW d \in RunDirectory, NEW es, es \subseteq Events
  PROVE  /\ Rewritten(d, WithEvents(d, es))
         /\ WithEvents(d, es).result = d.result
         /\ WithEvents(d, es).checkpoint = d.checkpoint
BY DEF RunDirectory, WithEvents, Rewritten, Events

LEMMA ResultWritten ==
  ASSUME NEW d \in RunDirectory, NEW s \in {"checkpointing"} \union Final,
         NEW c \in Contents \union {NoContent}
  PROVE  /\ Rewritten(d, WithResult(d, s, c))
         /\ WithResult(d, s, c).result = s
         /\ WithResult(d, s, c).checkpoint = c
BY DEF RunDirectory, WithResult, Rewritten

LEMMA FailureWritten ==
  ASSUME NEW d \in RunDirectory, NEW s \in {"failed", "interrupted"}
  PROVE  Rewritten(d, Failing(d, s)) /\ Failing(d, s).result = s
<1> PICK e : e = WithEvents(d, {s})
  OBVIOUS
<1>1. {s} \subseteq Events /\ s \in {"checkpointing"} \union Final
  BY DEF Events, Final
<1>2. Rewritten(d, e)
  BY <1>1, EventsWritten
<1>3. Rewritten(e, WithResult(e, s, NoContent)) /\ WithResult(e, s, NoContent).result = s
  BY <1>1, <1>2, ResultWritten DEF Rewritten
<1>4. Failing(d, s) = WithResult(e, s, NoContent)
  BY DEF Failing
<1> QED BY <1>2, <1>3, <1>4 DEF Rewritten

LEMMA HostStepIsTyped ==
  ASSUME TrainingInv, NEW r \in TrainingRuns, HostStep(r)
  PROVE  /\ TrainingTypeOK'
         /\ UNCHANGED <<finalizer, temporary, registry, causes>> \/ StartFinalizer(r)
         /\ \A q \in TrainingRuns \ {r} :
              host'[q] = host[q] /\ worker'[q] = worker[q] /\ finalizer'[q] = finalizer[q]
                /\ runDir'[q] = runDir[q]
<1> USE DEF HostAt, Rewrite
<1>1. TrainingTypeOK /\ runDir[r] \in RunDirectory
  BY DEF TrainingInv, TrainingTypeOK
<1>2. CASE CreateRunDirectory(r) \/ TrainerFailed(r) \/ FinalizerEnded(r) \/ ReportRun(r)
  BY <1>1, <1>2
  DEF TrainingTypeOK, CreateRunDirectory, TrainerFailed, FinalizerEnded, ReportRun, HostLabels,
      HostEnds
<1>3. CASE RecordPlan(r)
  <2> PICK d : d = WithEvents(runDir[r], {"planned"})
    OBVIOUS
  <2>1. d \in RunDirectory
    <3>1. {"planned"} \subseteq Events
      BY DEF Events
    <3> QED BY <1>1, <3>1, EventsWritten DEF Rewritten
  <2>2. runDir' = [runDir EXCEPT ![r] = d]
    BY <1>3 DEF RecordPlan
  <2> QED BY <1>1, <1>3, <2>1, <2>2 DEF TrainingTypeOK, RecordPlan, HostLabels
<1>7. CASE StartTrainer(r)
  BY <1>1, <1>7 DEF TrainingTypeOK, StartTrainer, HostLabels, WorkerLive
<1>4. CASE StartFinalizer(r)
  BY <1>1, <1>4 DEF TrainingTypeOK, StartFinalizer, HostLabels, FinalizerLive
<1>5. CASE StopTrainer(r)
  BY <1>1, <1>5 DEF TrainingTypeOK, StopTrainer, HostLabels, WorkerEnds
<1>6. CASE RecordTrainerFailure(r) \/ MarkInterrupted(r)
  <2>1. \E s \in {"failed", "interrupted"} : runDir' = [runDir EXCEPT ![r] = Failing(runDir[r], s)]
    BY <1>6 DEF RecordTrainerFailure, MarkInterrupted
  <2>2. PICK d \in RunDirectory : runDir' = [runDir EXCEPT ![r] = d]
    BY <1>1, <2>1, FailureWritten DEF Rewritten
  <2> QED BY <1>1, <1>6, <2>2
    DEF TrainingTypeOK, RecordTrainerFailure, MarkInterrupted, HostLabels, HostEnds
<1> QED BY <1>2, <1>3, <1>4, <1>5, <1>6, <1>7 DEF HostStep

LEMMA HostStepKeeps ==
  ASSUME TrainingInv, NEW r \in TrainingRuns, HostStep(r)
  PROVE  RunInv(r)'
<1> USE DEF HostAt, Rewrite
<1>1. TrainingTypeOK /\ runDir[r] \in RunDirectory /\ RunInv(r)
  BY DEF TrainingInv, TrainingTypeOK
<1>2. CASE CreateRunDirectory(r) \/ TrainerFailed(r) \/ FinalizerEnded(r) \/ ReportRun(r)
  <2>1. UNCHANGED <<worker, finalizer, runDir, temporary, registry, causes>>
    BY <1>2 DEF CreateRunDirectory, TrainerFailed, FinalizerEnded, ReportRun
  <2>2. \/ host[r] = "create" /\ host'[r] = "fill"
        \/ /\ host[r] = "train" /\ host'[r] \in {"fail", "failed"}
           /\ worker[r] \in {"failed", "interrupted", "dead"}
        \/ host[r] = "finalize" /\ finalizer[r] = "succeeded" /\ host'[r] = "report"
        \/ host[r] = "finalize" /\ finalizer[r] \in {"failed", "dead"} /\ host'[r] = "failed"
        \/ host[r] = "report" /\ host'[r] = "done"
    BY <1>1, <1>2
    DEF TrainingTypeOK, CreateRunDirectory, TrainerFailed, FinalizerEnded, ReportRun, FinalizerEnds
  <2>3. TakingTurns(r)'
    BY <1>1, <2>1, <2>2 DEF RunInv, TakingTurns, WorkerLive
  <2>4. DirectoryFits(r)'
    BY <1>1, <2>1, <2>2 DEF RunInv, DirectoryFits
  <2>5. RegistryFits(r)'
    BY <1>1, <2>1 DEF RunInv, RegistryFits
  <2>6. CausesFit(r)'
    BY <1>1, <2>1, <2>2 DEF RunInv, CausesFit, TakingTurns
  <2> QED BY <2>3, <2>4, <2>5, <2>6 DEF RunInv
<1>3. CASE RecordPlan(r)
  <2>1. /\ host[r] = "fill" /\ host'[r] = "start" /\ worker[r] = "none" /\ finalizer[r] = "none"
        /\ runDir'[r] = WithEvents(runDir[r], {"planned"})
        /\ UNCHANGED <<worker, finalizer, temporary, registry, causes>>
    BY <1>1, <1>3 DEF TrainingTypeOK, RecordPlan, RunInv, TakingTurns
  <2>2. runDir'[r].result = runDir[r].result /\ Rewritten(runDir[r], runDir'[r])
    <3>1. {"planned"} \subseteq Events
      BY DEF Events
    <3> QED BY <1>1, <2>1, <3>1, EventsWritten
  <2>3. TakingTurns(r)' /\ DirectoryFits(r)'
    BY <1>1, <2>1, <2>2 DEF RunInv, TakingTurns, DirectoryFits, Rewritten
  <2>4. RegistryFits(r)'
    BY <1>1, <2>1, <2>2 DEF RunInv, RegistryFits, Rewritten
  <2>5. CausesFit(r)'
    BY <1>1, <2>1, <2>2 DEF RunInv, CausesFit
  <2> QED BY <2>3, <2>4, <2>5 DEF RunInv
<1>7. CASE StartTrainer(r)
  <2>1. /\ host[r] = "start" /\ host'[r] = "train" /\ worker'[r] = "prepare"
        /\ worker[r] = "none" /\ finalizer[r] = "none"
        /\ UNCHANGED <<finalizer, runDir, temporary, registry, causes>>
    BY <1>1, <1>7 DEF TrainingTypeOK, StartTrainer, RunInv, TakingTurns
  <2>2. TakingTurns(r)' /\ DirectoryFits(r)'
    BY <1>1, <2>1 DEF RunInv, TakingTurns, DirectoryFits
  <2>3. RegistryFits(r)'
    BY <1>1, <2>1 DEF RunInv, RegistryFits
  <2>4. CausesFit(r)'
    BY <1>1, <2>1 DEF RunInv, CausesFit
  <2> QED BY <2>2, <2>3, <2>4 DEF RunInv
<1>4. CASE StartFinalizer(r)
  <2>1. /\ host[r] = "train" /\ host'[r] = "finalize" /\ worker[r] = "succeeded"
        /\ finalizer[r] = "none" /\ finalizer'[r] = "check"
        /\ UNCHANGED <<worker, runDir, temporary, registry, causes>>
    BY <1>1, <1>4 DEF TrainingTypeOK, StartFinalizer, RunInv, TakingTurns
  <2>2. TakingTurns(r)' /\ DirectoryFits(r)'
    BY <1>1, <2>1 DEF RunInv, TakingTurns, DirectoryFits
  <2>3. RegistryFits(r)'
    BY <1>1, <2>1 DEF RunInv, RegistryFits
  <2>4. CausesFit(r)'
    BY <1>1, <2>1 DEF RunInv, CausesFit
  <2> QED BY <2>2, <2>3, <2>4 DEF RunInv
<1>5. CASE StopTrainer(r)
  <2>1. /\ host[r] = "stop" /\ host'[r] = "mark" /\ finalizer[r] = "none" /\ worker[r] # "none"
        /\ worker'[r] = IF worker[r] \in WorkerLive THEN "dead" ELSE worker[r]
        /\ UNCHANGED <<finalizer, runDir, temporary, registry, causes>>
    BY <1>1, <1>5 DEF TrainingTypeOK, StopTrainer, RunInv, TakingTurns
  <2>2. TakingTurns(r)' /\ DirectoryFits(r)'
    BY <1>1, <2>1 DEF RunInv, TakingTurns, DirectoryFits, WorkerLive
  <2>3. RegistryFits(r)'
    BY <1>1, <2>1 DEF RunInv, RegistryFits
  <2>4. CausesFit(r)'
    BY <1>1, <2>1 DEF RunInv, CausesFit
  <2> QED BY <2>2, <2>3, <2>4 DEF RunInv
<1>6. CASE RecordTrainerFailure(r) \/ MarkInterrupted(r)
  <2>1. /\ \/ host[r] = "fail" /\ host'[r] = "failed" /\ runDir'[r] = Failing(runDir[r], "failed")
           \/ host[r] = "mark" /\ host'[r] = "interrupted"
                /\ runDir'[r] = Failing(runDir[r], "interrupted")
        /\ finalizer[r] = "none" /\ worker[r] \notin WorkerLive
        /\ UNCHANGED <<worker, finalizer, temporary, registry, causes>>
    BY <1>1, <1>6 DEF TrainingTypeOK, RecordTrainerFailure, MarkInterrupted, RunInv, TakingTurns
  <2>2. /\ host'[r] = "interrupted" => runDir'[r].result = "interrupted"
        /\ Rewritten(runDir[r], runDir'[r])
    BY <1>1, <2>1, FailureWritten
  <2>3. worker[r] # "none"
    BY <1>1, <2>1 DEF RunInv, TakingTurns
  <2>4. TakingTurns(r)' /\ DirectoryFits(r)'
    BY <1>1, <2>1, <2>2, <2>3 DEF RunInv, TakingTurns, DirectoryFits, WorkerLive, Rewritten
  <2>5. RegistryFits(r)'
    BY <1>1, <2>1, <2>2 DEF RunInv, RegistryFits, Rewritten
  <2>6. CausesFit(r)'
    BY <1>1, <2>1, <2>2 DEF RunInv, CausesFit
  <2> QED BY <2>4, <2>5, <2>6 DEF RunInv
<1> QED BY <1>2, <1>3, <1>4, <1>5, <1>6, <1>7 DEF HostStep

(* The trainer writes while its host waits, stops it or is gone.             *)
LEMMA WorkerStepIsTyped ==
  ASSUME TrainingInv, NEW r \in TrainingRuns, WorkerStep(r)
  PROVE  /\ TrainingTypeOK'
         /\ UNCHANGED <<host, finalizer, temporary, registry, causes>>
         /\ \A q \in TrainingRuns \ {r} : worker'[q] = worker[q] /\ runDir'[q] = runDir[q]
<1> USE DEF WorkerAt, Rewrite
<1>1. TrainingTypeOK /\ runDir[r] \in RunDirectory
  BY DEF TrainingInv, TrainingTypeOK
<1>2. UNCHANGED <<host, finalizer, temporary, registry, causes, strikes>>
  BY DEF WorkerStep, Prepare, Train, ReportCheckpointing, AppendCheckpointing, ReturnFromTraining,
         HandleInterrupt, HandleTrainingError
<1>3. \E at \in {"train", "result", "event", "return", "succeeded", "interrupted", "failed"} :
         worker' = [worker EXCEPT ![r] = at]
  BY DEF WorkerStep, Prepare, Train, ReportCheckpointing, AppendCheckpointing, ReturnFromTraining,
         HandleInterrupt, HandleTrainingError
<1>4. \E d \in RunDirectory : runDir' = [runDir EXCEPT ![r] = d]
  <2>1. CASE Prepare(r) \/ AppendCheckpointing(r)
    <3>1. \E es \in SUBSET Events : runDir' = [runDir EXCEPT ![r] = WithEvents(runDir[r], es)]
      <4>1. {"preparing", "running"} \subseteq Events /\ {"checkpointing"} \subseteq Events
        BY DEF Events
      <4> QED BY <2>1, <4>1 DEF Prepare, AppendCheckpointing
    <3> QED BY <1>1, <3>1, EventsWritten DEF Rewritten
  <2>2. CASE Train(r)
    <3>1. PICK c \in Contents : runDir' = [runDir EXCEPT ![r] = [runDir[r] EXCEPT !.staged = c]]
      BY <2>2 DEF Train
    <3>2. [runDir[r] EXCEPT !.staged = c] \in RunDirectory
      BY <1>1 DEF RunDirectory
    <3> QED BY <3>1, <3>2
  <2>3. CASE ReportCheckpointing(r)
    BY <1>1, <2>3, ResultWritten DEF ReportCheckpointing, Rewritten
  <2>4. CASE HandleInterrupt(r) \/ HandleTrainingError(r)
    BY <1>1, <2>4, FailureWritten DEF HandleInterrupt, HandleTrainingError, Rewritten
  <2>5. CASE ReturnFromTraining(r)
    <3>1. runDir' = [runDir EXCEPT ![r] = runDir[r]]
      BY <1>1, <2>5 DEF ReturnFromTraining, TrainingTypeOK
    <3> QED BY <1>1, <3>1
  <2> QED BY <2>1, <2>2, <2>3, <2>4, <2>5 DEF WorkerStep
<1> QED BY <1>1, <1>2, <1>3, <1>4 DEF TrainingTypeOK, WorkerLive, WorkerEnds

LEMMA WorkerStepKeeps ==
  ASSUME TrainingInv, NEW r \in TrainingRuns, WorkerStep(r)
  PROVE  RunInv(r)'
<1> USE DEF WorkerAt, Rewrite
<1>1. TrainingTypeOK /\ runDir[r] \in RunDirectory /\ RunInv(r)
  BY DEF TrainingInv, TrainingTypeOK
<1>2. UNCHANGED <<host, finalizer, temporary, registry, causes>>
  BY WorkerStepIsTyped
<1>3. worker[r] \in WorkerLive /\ finalizer[r] = "none" /\ host[r] \notin {"create", "fill", "mark", "fail"}
  <2>1. worker[r] \in WorkerLive
    BY DEF WorkerStep, Prepare, Train, ReportCheckpointing, AppendCheckpointing, ReturnFromTraining,
           HandleInterrupt, HandleTrainingError, WorkerLive
  <2> QED BY <1>1, <2>1 DEF RunInv, TakingTurns, WorkerLive
<1>4. \/ worker[r] = "prepare" /\ worker'[r] = "train"
      \/ worker[r] = "train" /\ worker'[r] = "result"
      \/ worker[r] = "result" /\ worker'[r] = "event"
      \/ worker[r] = "event" /\ worker'[r] = "return"
      \/ worker[r] = "return" /\ worker'[r] = "succeeded"
      \/ worker[r] = "interrupting" /\ worker'[r] = "interrupted"
      \/ worker[r] = "except" /\ worker'[r] = "failed"
  BY <1>1
  DEF WorkerStep, Prepare, Train, ReportCheckpointing, AppendCheckpointing, ReturnFromTraining,
      HandleInterrupt, HandleTrainingError, TrainingTypeOK
<1>5. /\ runDir'[r].manifest <=> runDir[r].manifest
      /\ worker'[r] \in {"event", "return", "succeeded"} => runDir'[r].result = "checkpointing"
      /\ worker'[r] = "interrupted" => runDir'[r].result = "interrupted"
      /\ worker'[r] = "succeeded" => runDir'[r].staged # NoContent
  <2>1. CASE Prepare(r)
    <3>1. {"preparing", "running"} \subseteq Events
      BY DEF Events
    <3>2. runDir'[r] = WithEvents(runDir[r], {"preparing", "running"}) /\ worker'[r] = "train"
      BY <1>1, <2>1 DEF TrainingTypeOK, Prepare
    <3> QED BY <1>1, <3>1, <3>2, EventsWritten DEF Rewritten
  <2>2. CASE AppendCheckpointing(r)
    <3>1. {"checkpointing"} \subseteq Events
      BY DEF Events
    <3>2. /\ runDir'[r] = WithEvents(runDir[r], {"checkpointing"})
          /\ worker[r] = "event" /\ worker'[r] = "return"
      BY <1>1, <2>2 DEF TrainingTypeOK, AppendCheckpointing
    <3> QED BY <1>1, <3>1, <3>2, EventsWritten DEF Rewritten, RunInv, DirectoryFits
  <2>3. CASE Train(r)
    <3>1. PICK c \in Contents : runDir'[r] = [runDir[r] EXCEPT !.staged = c]
      BY <1>1, <2>3 DEF TrainingTypeOK, Train
    <3>2. worker'[r] = "result" /\ (runDir'[r].manifest <=> runDir[r].manifest)
      BY <1>1, <2>3, <3>1 DEF TrainingTypeOK, Train, RunDirectory
    <3> QED BY <3>2
  <2>4. CASE ReportCheckpointing(r)
    <3>1. /\ runDir'[r] = WithResult(runDir[r], "checkpointing", NoContent)
          /\ worker'[r] = "event"
      BY <1>1, <2>4 DEF TrainingTypeOK, ReportCheckpointing
    <3> QED BY <1>1, <3>1, ResultWritten DEF Rewritten
  <2>5. CASE HandleInterrupt(r)
    <3>1. runDir'[r] = Failing(runDir[r], "interrupted") /\ worker'[r] = "interrupted"
      BY <1>1, <2>5 DEF TrainingTypeOK, HandleInterrupt
    <3> QED BY <1>1, <3>1, FailureWritten DEF Rewritten
  <2>6. CASE HandleTrainingError(r)
    <3>1. runDir'[r] = Failing(runDir[r], "failed") /\ worker'[r] = "failed"
      BY <1>1, <2>6 DEF TrainingTypeOK, HandleTrainingError
    <3> QED BY <1>1, <3>1, FailureWritten DEF Rewritten
  <2>7. CASE ReturnFromTraining(r)
    <3>1. /\ UNCHANGED runDir /\ runDir[r].staged # NoContent
          /\ worker[r] = "return" /\ worker'[r] = "succeeded"
      BY <1>1, <2>7 DEF ReturnFromTraining, TrainingTypeOK
    <3> QED BY <1>1, <3>1 DEF RunInv, DirectoryFits
  <2> QED BY <2>1, <2>2, <2>3, <2>4, <2>5, <2>6, <2>7 DEF WorkerStep
<1>6. TakingTurns(r)'
  BY <1>1, <1>2, <1>3, <1>4 DEF RunInv, TakingTurns, WorkerLive
<1>7. DirectoryFits(r)'
  BY <1>1, <1>2, <1>3, <1>4, <1>5 DEF RunInv, DirectoryFits
<1>8. RegistryFits(r)'
  BY <1>1, <1>2, <1>3 DEF RunInv, RegistryFits
<1>9. CausesFit(r)'
  BY <1>1, <1>2, <1>3, <1>4, <1>5 DEF RunInv, CausesFit, TakingTurns
<1> QED BY <1>6, <1>7, <1>8, <1>9 DEF RunInv

(* The finalizer works alone on a run whose trainer succeeded; only its      *)
(* rename touches the registry.                                              *)
LEMMA FinalizerStepIsTyped ==
  ASSUME TrainingInv, NEW r \in TrainingRuns, FinalizerStep(r)
  PROVE  /\ TrainingTypeOK'
         /\ UNCHANGED <<host, worker>>
         /\ RegistryGrows(r)
         /\ \A q \in TrainingRuns \ {r} :
              /\ finalizer'[q] = finalizer[q] /\ runDir'[q] = runDir[q]
              /\ temporary'[q] = temporary[q] /\ causes'[q] = causes[q]
<1> USE DEF FinalizerAt, Rewrite
<1>1. TrainingTypeOK /\ runDir[r] \in RunDirectory
  BY DEF TrainingInv, TrainingTypeOK
<1>2. UNCHANGED <<host, worker, strikes>>
  BY DEF FinalizerStep, Inventory, MakeTemporary, FillTemporary, PublishBundle, LoseRace, CompleteRun,
         SealRun, RemoveTemporary, HandleFinalizerError
<1>3. \E at \in {"result", "temporary", "fill", "rename", "clean", "seal", "succeeded", "except",
                 "failed"} : finalizer' = [finalizer EXCEPT ![r] = at]
  BY DEF FinalizerStep, Inventory, MakeTemporary, FillTemporary, PublishBundle, LoseRace, CompleteRun,
         SealRun, RemoveTemporary, HandleFinalizerError
<1>4. CASE Inventory(r)
  BY <1>1, <1>2, <1>3, <1>4
  DEF Inventory, TrainingTypeOK, RegistryGrows, FinalizerLive, FinalizerEnds
<1>5. CASE MakeTemporary(r) \/ FillTemporary(r) \/ RemoveTemporary(r)
  BY <1>1, <1>2, <1>3, <1>5
  DEF MakeTemporary, FillTemporary, RemoveTemporary, TrainingTypeOK, RegistryGrows, FinalizerLive,
      FinalizerEnds
<1>6. CASE PublishBundle(r)
  <2>1. PICK whole \in BOOLEAN :
          registry' = [registry EXCEPT ![runDir[r].staged] = [by |-> {r}, whole |-> whole]]
    BY <1>6 DEF PublishBundle
  <2>2. registry[runDir[r].staged].by = {}
    BY <1>6 DEF PublishBundle, IdentityFree
  <2>3. registry' \in [Contents -> [by : SUBSET TrainingRuns, whole : BOOLEAN]]
    BY <1>1, <2>1 DEF TrainingTypeOK
  <2>4. RegistryGrows(r)
    BY <1>1, <2>1, <2>2 DEF TrainingTypeOK, RegistryGrows
  <2>5. temporary' = [temporary EXCEPT ![r] = "none"] /\ UNCHANGED <<runDir, causes>>
    BY <1>6 DEF PublishBundle
  <2> QED BY <1>1, <1>2, <1>3, <2>3, <2>4, <2>5 DEF TrainingTypeOK, FinalizerLive, FinalizerEnds
<1>7. CASE LoseRace(r)
  BY <1>1, <1>2, <1>3, <1>7 DEF LoseRace, TrainingTypeOK, RegistryGrows, FinalizerLive, FinalizerEnds
<1>8. CASE CompleteRun(r) \/ SealRun(r) \/ HandleFinalizerError(r)
  <2>1. PICK d \in RunDirectory : runDir' = [runDir EXCEPT ![r] = d]
    <3>1. CASE CompleteRun(r)
      <4>1. runDir[r].staged \in Contents \union {NoContent}
        BY <1>1 DEF RunDirectory
      <4> QED BY <1>1, <3>1, <4>1, ResultWritten DEF CompleteRun, Rewritten, Final
    <3>2. CASE SealRun(r)
      <4>1. [runDir[r] EXCEPT !.manifest = TRUE, !.sealed = {"result", "events"}] \in RunDirectory
        BY <1>1 DEF RunDirectory
      <4> QED BY <3>2, <4>1 DEF SealRun
    <3>3. CASE HandleFinalizerError(r)
      BY <1>1, <3>3, FailureWritten DEF HandleFinalizerError, Rewritten
    <3> QED BY <1>8, <3>1, <3>2, <3>3
  <2>2. UNCHANGED <<temporary, registry, causes>>
    BY <1>8 DEF CompleteRun, SealRun, HandleFinalizerError
  <2> QED BY <1>1, <1>2, <1>3, <2>1, <2>2 DEF TrainingTypeOK, RegistryGrows, FinalizerLive, FinalizerEnds
<1> QED BY <1>4, <1>5, <1>6, <1>7, <1>8 DEF FinalizerStep

LEMMA FinalizerStepKeeps ==
  ASSUME TrainingInv, NEW r \in TrainingRuns, FinalizerStep(r)
  PROVE  RunInv(r)'
<1> USE DEF FinalizerAt, Rewrite
<1>1. TrainingTypeOK /\ runDir[r] \in RunDirectory /\ RunInv(r)
  BY DEF TrainingInv, TrainingTypeOK
<1>2. UNCHANGED <<host, worker>>
  BY FinalizerStepIsTyped
<1>3. /\ finalizer[r] \in FinalizerLive
      /\ worker[r] = "succeeded" /\ runDir[r].staged \in Contents
  <2>1. finalizer[r] \in FinalizerLive
    BY DEF FinalizerStep, Inventory, MakeTemporary, FillTemporary, PublishBundle, LoseRace,
           CompleteRun, SealRun, RemoveTemporary, HandleFinalizerError, FinalizerLive
  <2>2. worker[r] = "succeeded"
    BY <1>1, <2>1 DEF RunInv, TakingTurns, FinalizerLive
  <2>3. runDir[r].staged # NoContent /\ runDir[r].staged \in Contents \union {NoContent}
    BY <1>1, <2>2 DEF RunInv, DirectoryFits, RunDirectory
  <2> QED BY <2>1, <2>2, <2>3
<1>4. host[r] \in {"finalize", "failed", "interrupted", "dead"}
  BY <1>1, <1>3 DEF RunInv, TakingTurns, TrainingTypeOK, HostLabels, HostEnds, FinalizerLive
<1>5. finalizer'[r] # "none"
  BY <1>1
  DEF FinalizerStep, Inventory, MakeTemporary, FillTemporary, PublishBundle, LoseRace, CompleteRun,
      SealRun, RemoveTemporary, HandleFinalizerError, TrainingTypeOK
<1>6. TakingTurns(r)'
  BY <1>1, <1>2, <1>3, <1>4, <1>5 DEF RunInv, TakingTurns
<1>7. CASE Inventory(r) \/ MakeTemporary(r) \/ FillTemporary(r) \/ RemoveTemporary(r)
  <2>1. UNCHANGED <<runDir, registry, causes>>
    BY <1>7 DEF Inventory, MakeTemporary, FillTemporary, RemoveTemporary
  <2>2. \/ finalizer[r] = "check" /\ finalizer'[r] = "result" /\ registry[runDir[r].staged].by # {}
        \/ finalizer[r] = "check" /\ finalizer'[r] = "temporary"
        \/ finalizer[r] = "temporary" /\ finalizer'[r] = "fill"
        \/ finalizer[r] = "fill" /\ finalizer'[r] = "rename" /\ temporary'[r] = "whole"
        \/ finalizer[r] = "clean" /\ finalizer'[r] = "except"
    BY <1>1, <1>7 DEF Inventory, MakeTemporary, FillTemporary, RemoveTemporary, TrainingTypeOK
  <2>3. DirectoryFits(r)'
    BY <1>1, <1>2, <1>3, <2>1, <2>2 DEF RunInv, DirectoryFits
  <2>4. RegistryFits(r)'
    BY <1>1, <2>1, <2>2 DEF RunInv, RegistryFits
  <2>5. CausesFit(r)'
    BY <1>1, <1>2, <1>4, <2>1, <2>2 DEF RunInv, CausesFit
  <2> QED BY <1>6, <2>3, <2>4, <2>5 DEF RunInv
<1>8. CASE PublishBundle(r)
  <2>1. /\ finalizer[r] = "rename" /\ finalizer'[r] = "result"
        /\ registry[runDir[r].staged].by = {}
        /\ UNCHANGED <<runDir, causes>>
    BY <1>1, <1>8 DEF PublishBundle, IdentityFree, TrainingTypeOK
  <2>2. temporary[r] = "whole"
    BY <1>1, <2>1 DEF RunInv, RegistryFits
  <2>3. registry'[runDir[r].staged].by = {r} /\ registry'[runDir[r].staged].whole
    <3> PICK bundle : bundle = [by |-> {r}, whole |-> temporary[r] = "whole"]
      OBVIOUS
    <3>1. bundle.by = {r} /\ bundle.whole
      BY <2>2
    <3>2. registry' = [registry EXCEPT ![runDir[r].staged] = bundle]
      BY <1>8 DEF PublishBundle
    <3> QED BY <1>1, <1>3, <3>1, <3>2 DEF TrainingTypeOK
  <2>4. \A c \in Contents : c # runDir[r].staged => r \notin registry'[c].by
    <3>1. \A c \in Contents : c # runDir[r].staged => registry'[c] = registry[c]
      BY <1>1, <1>8 DEF PublishBundle, TrainingTypeOK
    <3> QED BY <1>1, <2>1, <3>1 DEF RunInv, RegistryFits
  <2>5. DirectoryFits(r)'
    BY <1>1, <1>2, <1>3, <2>1 DEF RunInv, DirectoryFits
  <2>6. RegistryFits(r)'
    BY <2>1, <2>3, <2>4 DEF RegistryFits
  <2>7. CausesFit(r)'
    BY <1>1, <1>2, <1>4, <2>1 DEF RunInv, CausesFit
  <2> QED BY <1>6, <2>5, <2>6, <2>7 DEF RunInv
<1>9. CASE LoseRace(r)
  <2>1. /\ finalizer[r] = "rename" /\ finalizer'[r] = "clean"
        /\ causes'[r] = causes[r] \union {"race"}
        /\ UNCHANGED <<runDir, temporary, registry>>
    BY <1>1, <1>9 DEF LoseRace, TrainingTypeOK
  <2>2. DirectoryFits(r)'
    BY <1>1, <1>2, <1>3, <2>1 DEF RunInv, DirectoryFits
  <2>3. RegistryFits(r)'
    BY <1>1, <2>1 DEF RunInv, RegistryFits
  <2>4. causes[r] = {} => host[r] = "finalize"
    BY <1>1, <1>4 DEF RunInv, CausesFit
  <2>5. "race" \notin causes[r]
    BY <1>1, <2>1 DEF RunInv, CausesFit
  <2>6. CausesFit(r)'
    BY <1>1, <1>2, <1>3, <1>4, <2>1, <2>4, <2>5 DEF RunInv, CausesFit
  <2> QED BY <1>6, <2>2, <2>3, <2>6 DEF RunInv
<1>10. CASE CompleteRun(r)
  <2>1. /\ finalizer[r] = "result" /\ finalizer'[r] = "seal"
        /\ runDir'[r] = WithResult(runDir[r], "completed", runDir[r].staged)
        /\ UNCHANGED <<temporary, registry, causes>>
    BY <1>1, <1>10 DEF CompleteRun, TrainingTypeOK
  <2>2. /\ Rewritten(runDir[r], runDir'[r])
        /\ runDir'[r].result = "completed" /\ runDir'[r].checkpoint = runDir[r].staged
    BY <1>1, <1>3, <2>1, ResultWritten DEF Final
  <2>3. DirectoryFits(r)'
    BY <1>1, <1>2, <1>3, <1>4, <2>1, <2>2 DEF RunInv, DirectoryFits, Rewritten
  <2>4. RegistryFits(r)'
    BY <1>1, <2>1, <2>2 DEF RunInv, RegistryFits, Rewritten
  <2>5. CausesFit(r)'
    BY <1>1, <1>2, <1>4, <2>1 DEF RunInv, CausesFit
  <2> QED BY <1>6, <2>3, <2>4, <2>5 DEF RunInv
<1>11. CASE SealRun(r)
  <2>1. /\ finalizer[r] = "seal" /\ finalizer'[r] = "succeeded"
        /\ runDir'[r] = [runDir[r] EXCEPT !.manifest = TRUE, !.sealed = {"result", "events"}]
        /\ UNCHANGED <<temporary, registry, causes>>
    BY <1>1, <1>11 DEF SealRun, TrainingTypeOK
  <2>2. /\ runDir'[r].manifest /\ runDir'[r].sealed = {"result", "events"}
        /\ runDir'[r].result = runDir[r].result /\ runDir'[r].checkpoint = runDir[r].checkpoint
        /\ runDir'[r].staged = runDir[r].staged
    BY <1>1, <2>1 DEF RunDirectory
  <2>3. DirectoryFits(r)'
    BY <1>1, <1>2, <1>3, <1>4, <2>1, <2>2 DEF RunInv, DirectoryFits
  <2>4. RegistryFits(r)'
    BY <1>1, <2>1, <2>2 DEF RunInv, RegistryFits
  <2>5. CausesFit(r)'
    BY <1>1, <1>2, <1>4, <2>1 DEF RunInv, CausesFit
  <2> QED BY <1>6, <2>3, <2>4, <2>5 DEF RunInv
<1>12. CASE HandleFinalizerError(r)
  <2>1. /\ finalizer[r] = "except" /\ finalizer'[r] = "failed"
        /\ runDir'[r] = Failing(runDir[r], "failed")
        /\ UNCHANGED <<temporary, registry, causes>>
    BY <1>1, <1>12 DEF HandleFinalizerError, TrainingTypeOK
  <2>2. Rewritten(runDir[r], runDir'[r]) /\ runDir'[r].result = "failed"
    BY <1>1, <2>1, FailureWritten
  <2>3. DirectoryFits(r)'
    BY <1>1, <1>2, <1>3, <1>4, <2>1, <2>2 DEF RunInv, DirectoryFits, Rewritten
  <2>4. RegistryFits(r)'
    BY <1>1, <2>1, <2>2 DEF RunInv, RegistryFits, Rewritten
  <2>5. CausesFit(r)'
    BY <1>1, <1>2, <1>4, <2>1 DEF RunInv, CausesFit
  <2> QED BY <1>6, <2>3, <2>4, <2>5 DEF RunInv
<1> QED BY <1>7, <1>8, <1>9, <1>10, <1>11, <1>12 DEF FinalizerStep

(* Whatever strikes a run changes no file of it.                             *)
Strikes(r) == HostError(r) \/ WorkerError(r) \/ FinalizerError(r) \/ InterruptHost(r) \/ KillOne(r)

LEMMA StrikesAreTyped ==
  ASSUME TrainingInv, NEW r \in TrainingRuns, Strikes(r)
  PROVE  /\ TrainingTypeOK'
         /\ UNCHANGED <<runDir, temporary, registry>>
         /\ \A q \in TrainingRuns \ {r} :
              /\ host'[q] = host[q] /\ worker'[q] = worker[q] /\ finalizer'[q] = finalizer[q]
              /\ causes'[q] = causes[q]
<1>1. TrainingTypeOK
  BY DEF TrainingInv
<1>2. PICK cause \in {"error", "interrupt", "again", "kill"}, kind \in {"errors", "interrupts", "kills"} :
        Struck(r, cause, kind)
  BY DEF Strikes, HostError, WorkerError, FinalizerError, InterruptHost, KillOne
<1>3. /\ UNCHANGED <<runDir, temporary, registry>>
      /\ causes' = [causes EXCEPT ![r] = @ \union {cause}]
  BY <1>2 DEF Struck
<1>4. strikes' \in [errors : 0..MaxTrainErrors, interrupts : 0..MaxTrainInterrupts,
                    kills : 0..MaxTrainKills]
  BY <1>1, <1>2, TrainingAssumption DEF Struck, TrainingTypeOK
<1>5. \E h \in HostLabels : host' = [host EXCEPT ![r] = h]
  <2>1. host' = host \/ \E h \in {"failed", "stop", "interrupted", "dead"} : host' = [host EXCEPT ![r] = h]
    BY DEF Strikes, HostError, WorkerError, FinalizerError, InterruptHost, KillOne
  <2> QED BY <1>1, <2>1 DEF TrainingTypeOK, HostLabels, HostEnds
<1>6. \E w \in {"none"} \union WorkerLive \union WorkerEnds : worker' = [worker EXCEPT ![r] = w]
  <2>1. worker' = worker \/ \E w \in {"dead", "except", "interrupting"} : worker' = [worker EXCEPT ![r] = w]
    BY DEF Strikes, HostError, WorkerError, FinalizerError, InterruptHost, KillOne
  <2> QED BY <1>1, <2>1 DEF TrainingTypeOK, WorkerLive, WorkerEnds
<1>7. \E f \in {"none"} \union FinalizerLive \union FinalizerEnds :
         finalizer' = [finalizer EXCEPT ![r] = f]
  <2>1. finalizer' = finalizer \/ \E f \in {"dead", "clean", "except"} : finalizer' = [finalizer EXCEPT ![r] = f]
    BY DEF Strikes, HostError, WorkerError, FinalizerError, InterruptHost, KillOne
  <2> QED BY <1>1, <2>1 DEF TrainingTypeOK, FinalizerLive, FinalizerEnds
<1> QED BY <1>1, <1>3, <1>4, <1>5, <1>6, <1>7 DEF TrainingTypeOK

(* An error or a kill is a cause that explains everything but an interrupt.   *)
LEMMA Blamed ==
  ASSUME NEW before, NEW after, NEW cause \in {"error", "kill"}, after = before \union {cause}
  PROVE  /\ after # {} /\ after # {"race"} /\ after # {"interrupt"}
         /\ after \intersect {"error", "kill"} # {}
         /\ "race" \in after <=> "race" \in before
         /\ "interrupt" \in after <=> "interrupt" \in before
OBVIOUS

LEMMA StrikesKeep ==
  ASSUME TrainingInv, NEW r \in TrainingRuns, Strikes(r)
  PROVE  RunInv(r)'
<1>1. TrainingTypeOK /\ RunInv(r)
  BY DEF TrainingInv
<1>2. UNCHANGED <<runDir, temporary, registry>>
  BY StrikesAreTyped
<1>3. CASE HostError(r)
  <2>1. /\ host[r] \in {"create", "fill", "start", "stop", "mark", "fail", "report"} /\ host'[r] = "failed"
        /\ causes'[r] = causes[r] \union {"error"}
        /\ UNCHANGED <<worker, finalizer>>
    BY <1>1, <1>3 DEF HostError, Struck, TrainingTypeOK
  <2>2. TakingTurns(r)' /\ DirectoryFits(r)'
    BY <1>1, <1>2, <2>1 DEF RunInv, TakingTurns, DirectoryFits
  <2>3. RegistryFits(r)'
    BY <1>1, <1>2, <2>1 DEF RunInv, RegistryFits
  <2>4. /\ causes'[r] # {} /\ causes'[r] # {"race"} /\ causes'[r] # {"interrupt"}
        /\ causes'[r] \intersect {"error", "kill"} # {}
        /\ "race" \in causes'[r] <=> "race" \in causes[r]
        /\ "interrupt" \in causes'[r] <=> "interrupt" \in causes[r]
    BY <2>1, Blamed
  <2>5. CausesFit(r)'
    BY <1>1, <1>2, <2>1, <2>4 DEF RunInv, CausesFit
  <2> QED BY <2>2, <2>3, <2>5 DEF RunInv
<1>4. CASE WorkerError(r)
  <2>1. /\ worker[r] \in WorkerLive
        /\ worker'[r] = IF worker[r] \in {"interrupting", "except"} THEN "dead" ELSE "except"
        /\ causes'[r] = causes[r] \union {"error"}
        /\ UNCHANGED <<host, finalizer>>
    BY <1>1, <1>4 DEF WorkerError, Struck, TrainingTypeOK
  <2>2. TakingTurns(r)' /\ DirectoryFits(r)'
    BY <1>1, <1>2, <2>1 DEF RunInv, TakingTurns, DirectoryFits, WorkerLive
  <2>3. RegistryFits(r)'
    BY <1>1, <1>2, <2>1 DEF RunInv, RegistryFits
  <2>4. /\ causes'[r] # {} /\ causes'[r] # {"race"} /\ causes'[r] # {"interrupt"}
        /\ causes'[r] \intersect {"error", "kill"} # {}
        /\ "race" \in causes'[r] <=> "race" \in causes[r]
        /\ "interrupt" \in causes'[r] <=> "interrupt" \in causes[r]
    BY <2>1, Blamed
  <2>5. CausesFit(r)'
    BY <1>1, <1>2, <2>1, <2>4 DEF RunInv, CausesFit, TakingTurns, WorkerLive
  <2> QED BY <2>2, <2>3, <2>5 DEF RunInv
<1>5. CASE FinalizerError(r)
  <2>1. /\ finalizer[r] \in FinalizerLive \ {"clean"}
        /\ finalizer'[r] = IF finalizer[r] = "except" THEN "dead"
                           ELSE IF finalizer[r] \in {"fill", "rename"} THEN "clean" ELSE "except"
        /\ causes'[r] = causes[r] \union {"error"}
        /\ UNCHANGED <<host, worker>>
    BY <1>1, <1>5 DEF FinalizerError, Struck, TrainingTypeOK
  <2>2. TakingTurns(r)' /\ DirectoryFits(r)'
    BY <1>1, <1>2, <2>1 DEF RunInv, TakingTurns, DirectoryFits, FinalizerLive
  <2>3. RegistryFits(r)'
    BY <1>1, <1>2, <2>1 DEF RunInv, RegistryFits, FinalizerLive
  <2>4. /\ causes'[r] # {} /\ causes'[r] # {"race"} /\ causes'[r] # {"interrupt"}
        /\ causes'[r] \intersect {"error", "kill"} # {}
        /\ "race" \in causes'[r] <=> "race" \in causes[r]
        /\ "interrupt" \in causes'[r] <=> "interrupt" \in causes[r]
    BY <2>1, Blamed
  <2>5. CausesFit(r)'
    BY <1>1, <1>2, <2>1, <2>4 DEF RunInv, CausesFit, TakingTurns, FinalizerLive
  <2> QED BY <2>2, <2>3, <2>5 DEF RunInv
<1>6. CASE InterruptHost(r)
  <2>1. /\ host[r] \notin HostEnds
        /\ host'[r] = IF host[r] = "train" THEN "stop" ELSE "interrupted"
        /\ \/ UNCHANGED <<worker, finalizer>>
           \/ /\ host[r] = "train" /\ worker[r] \in WorkerLive
              /\ worker'[r] \in {"dead", "interrupting"} /\ UNCHANGED finalizer
           \/ /\ host[r] = "finalize" /\ finalizer[r] \in FinalizerLive
              /\ finalizer'[r] = "dead" /\ UNCHANGED worker
        /\ causes'[r] = causes[r] \union {IF host[r] \in {"stop", "mark"} THEN "again" ELSE "interrupt"}
    BY <1>1, <1>6 DEF InterruptHost, HandlesInterrupt, Struck, TrainingTypeOK
  <2>2. TakingTurns(r)' /\ DirectoryFits(r)'
    BY <1>1, <1>2, <2>1 DEF RunInv, TakingTurns, DirectoryFits, FinalizerLive, WorkerLive
  <2>3. RegistryFits(r)'
    BY <1>1, <1>2, <2>1 DEF RunInv, RegistryFits, FinalizerLive
  <2>4. causes'[r] = {"interrupt"} =>
          /\ host[r] \in {"create", "fill", "start", "train", "finalize", "report"}
          /\ host'[r] = "interrupted" => worker'[r] = "none" \/ finalizer'[r] # "none"
    <3> SUFFICES ASSUME causes'[r] = {"interrupt"}
                 PROVE  /\ host[r] \in {"create", "fill", "start", "train", "finalize", "report"}
                        /\ host'[r] = "interrupted" => worker'[r] = "none" \/ finalizer'[r] # "none"
      OBVIOUS
    <3>1. host[r] \notin {"stop", "mark"} /\ causes[r] \in {{}, {"interrupt"}}
      BY <2>1
    <3>2. host[r] # "fail"
      BY <1>1, <3>1 DEF RunInv, CausesFit
    <3>3. host[r] \in {"create", "fill", "start", "train", "finalize", "report"}
      BY <1>1, <2>1, <3>1, <3>2 DEF TrainingTypeOK, HostLabels
    <3> QED BY <1>1, <2>1, <3>3 DEF RunInv, TakingTurns
  <2>5. CausesFit(r)'
    BY <1>1, <1>2, <2>1, <2>4 DEF RunInv, CausesFit, TakingTurns, FinalizerLive
  <2> QED BY <2>2, <2>3, <2>5 DEF RunInv
<1>7. CASE KillOne(r)
  <2>1. /\ \/ host[r] \notin HostEnds /\ host'[r] = "dead" /\ UNCHANGED <<worker, finalizer>>
           \/ worker[r] \in WorkerLive /\ worker'[r] = "dead" /\ UNCHANGED <<host, finalizer>>
           \/ finalizer[r] \in FinalizerLive /\ finalizer'[r] = "dead" /\ UNCHANGED <<host, worker>>
        /\ causes'[r] = causes[r] \union {"kill"}
    BY <1>1, <1>7 DEF KillOne, Struck, TrainingTypeOK
  <2>2. TakingTurns(r)' /\ DirectoryFits(r)'
    BY <1>1, <1>2, <2>1 DEF RunInv, TakingTurns, DirectoryFits, FinalizerLive, WorkerLive
  <2>3. RegistryFits(r)'
    BY <1>1, <1>2, <2>1 DEF RunInv, RegistryFits, FinalizerLive
  <2>4. /\ causes'[r] # {} /\ causes'[r] # {"race"} /\ causes'[r] # {"interrupt"}
        /\ causes'[r] \intersect {"error", "kill"} # {}
        /\ "race" \in causes'[r] <=> "race" \in causes[r]
        /\ "interrupt" \in causes'[r] <=> "interrupt" \in causes[r]
    BY <2>1, Blamed
  <2>5. CausesFit(r)'
    BY <1>1, <1>2, <2>1, <2>4 DEF RunInv, CausesFit, TakingTurns, FinalizerLive, WorkerLive
  <2> QED BY <2>2, <2>3, <2>5 DEF RunInv
<1> QED BY <1>3, <1>4, <1>5, <1>6, <1>7 DEF Strikes

LEMMA TrainingInvKept == TrainingInv /\ [TrainingNext]_trainingVars => TrainingInv'
<1> SUFFICES ASSUME TrainingInv, [TrainingNext]_trainingVars PROVE TrainingInv'
  OBVIOUS
<1>1. ASSUME NEW r \in TrainingRuns, TrainingProgress(r) \/ Strikes(r)
      PROVE  TrainingInv'
  <2>1. TrainingTypeOK' /\ RunInv(r)'
    BY <1>1, HostStepIsTyped, HostStepKeeps, WorkerStepIsTyped, WorkerStepKeeps,
       FinalizerStepIsTyped, FinalizerStepKeeps, StrikesAreTyped, StrikesKeep
    DEF TrainingProgress
  <2>2. RegistryGrows(r)
    BY <1>1, HostStepIsTyped, WorkerStepIsTyped, FinalizerStepIsTyped, StrikesAreTyped
    DEF TrainingProgress, RegistryGrows, StartFinalizer
  <2>3. \A q \in TrainingRuns \ {r} :
          /\ host'[q] = host[q] /\ worker'[q] = worker[q] /\ finalizer'[q] = finalizer[q]
          /\ runDir'[q] = runDir[q] /\ temporary'[q] = temporary[q] /\ causes'[q] = causes[q]
    BY <1>1, HostStepIsTyped, WorkerStepIsTyped, FinalizerStepIsTyped, StrikesAreTyped
    DEF TrainingProgress, StartFinalizer
  <2>4. \A q \in TrainingRuns \ {r} : RunInv(q)'
    BY <2>2, <2>3, OtherRunsKept
  <2> QED BY <2>1, <2>4 DEF TrainingInv
<1>2. CASE UNCHANGED trainingVars
  <2>1. TrainingTypeOK'
    BY <1>2 DEF TrainingInv, TrainingTypeOK, trainingVars
  <2>2. ASSUME NEW r \in TrainingRuns PROVE RunInv(r)'
    BY <1>2 DEF TrainingInv, RunInv, TakingTurns, DirectoryFits, RegistryFits, CausesFit, trainingVars
  <2> QED BY <2>1, <2>2 DEF TrainingInv
<1> QED BY <1>1, <1>2 DEF TrainingNext, Strikes

LEMMA TrainingInvAlways == TrainingSpec => []TrainingInv
BY TrainingInvInitially, TrainingInvKept, PTL DEF TrainingSpec

\* Wherever the three processes of a run fail, are interrupted or killed: an
\* undisturbed command completes, one that only lost the race for its identity
\* says failed, and one interrupted in training says interrupted
\* (training_deployment.py, training_worker.py).
LEMMA RunsAreSettled == TrainingInv => RunsSettled
<1>1. TrainingInv => RunsSettled
  <2> SUFFICES ASSUME TrainingInv, NEW r \in TrainingRuns, Quiet(r)
               PROVE  /\ causes[r] = {} => host[r] = "done" /\ runDir[r].manifest
                      /\ causes[r] = {"race"} => host[r] = "failed" /\ runDir[r].result = "failed"
                      /\ causes[r] = {"interrupt"} /\ finalizer[r] = "none" /\ worker[r] # "none" =>
                           runDir[r].result = "interrupted"
    BY DEF RunsSettled
  <2>1. RunInv(r)
    BY DEF TrainingInv
  <2>2. causes[r] = {} => host[r] = "done" /\ runDir[r].manifest
    BY <2>1 DEF Quiet, HostEnds, RunInv, CausesFit, TakingTurns, DirectoryFits
  <2>3. causes[r] = {"race"} => host[r] = "failed" /\ runDir[r].result = "failed"
    BY <2>1 DEF Quiet, HostEnds, FinalizerLive, RunInv, CausesFit, DirectoryFits
  <2>4. causes[r] = {"interrupt"} /\ finalizer[r] = "none" /\ worker[r] # "none" =>
          runDir[r].result = "interrupted"
    BY <2>1 DEF Quiet, HostEnds, RunInv, CausesFit, TakingTurns
  <2> QED BY <2>2, <2>3, <2>4
<1> QED BY <1>1

\* No write of the host, a dying trainer or the finalizer's own handlers reaches
\* a sealed run, every bundle in the registry is whole and made of what the run
\* of its publisher staged, and every run that nothing works on any more says
\* how it ended (training_runs.py, CheckpointBundleStore, training_worker.py).
THEOREM TrainingRunsAlwaysHold == TrainingSpec => []TrainingRunsHold
<1>1. TrainingInv => TrainingRunsHold
  <2> SUFFICES ASSUME TrainingInv PROVE SealedRunsIntact /\ PublishedBundlesSound
    BY RunsAreSettled DEF TrainingRunsHold
  <2>1. SealedRunsIntact
    <3> SUFFICES ASSUME NEW r \in TrainingRuns, runDir[r].manifest
                 PROVE  /\ runDir[r].sealed = {"result", "events"}
                        /\ runDir[r].result = "completed"
                        /\ runDir[r].checkpoint # NoContent
                        /\ registry[runDir[r].checkpoint].by # {}
      BY DEF SealedRunsIntact
    <3>1. RunInv(r) /\ finalizer[r] = "succeeded"
      BY DEF TrainingInv, RunInv, DirectoryFits
    <3> QED BY <3>1 DEF RunInv, TakingTurns, DirectoryFits, RegistryFits
  <2>2. PublishedBundlesSound
    <3> SUFFICES ASSUME NEW c \in Contents, NEW r \in TrainingRuns, r \in registry[c].by
                 PROVE  /\ registry[c].whole
                        /\ runDir[r].staged = c
                        /\ runDir[r].result \in {"checkpointing", "completed", "failed"}
      BY DEF PublishedBundlesSound
    <3> QED BY DEF TrainingInv, RunInv, DirectoryFits, RegistryFits
  <2> QED BY <2>1, <2>2
<1> QED BY <1>1, TrainingInvAlways, PTL

(* The checkpoint bundles implement PublicationRegistry.                     *)

Bundles == {p \in Contents \X TrainingRuns : p[2] \in registry[p[1]].by}
Named == {<<r, runDir[r].checkpoint>> : r \in {q \in TrainingRuns : runDir[q].manifest}}

(* What a finalizer works with is content, not the absence of it.            *)
LEMMA FinalizedIsContent ==
  ASSUME TrainingInv, NEW r \in TrainingRuns, finalizer[r] # "none"
  PROVE  runDir[r].staged \in Contents
<1>1. runDir[r].staged \in Contents \union {NoContent}
  BY DEF TrainingInv, TrainingTypeOK, RunDirectory
<1>2. runDir[r].staged # NoContent
  BY DEF TrainingInv, RunInv, TakingTurns, DirectoryFits
<1> QED BY <1>1, <1>2

(* A sealed run is written no more.                                          *)
LEMMA SealedStays ==
  ASSUME TrainingInv, NEW r \in TrainingRuns, TrainingProgress(r) \/ Strikes(r), runDir[r].manifest
  PROVE  UNCHANGED <<runDir, registry>>
<1>1. /\ finalizer[r] = "succeeded" /\ worker[r] = "succeeded"
      /\ host[r] \notin {"create", "fill", "start", "train", "stop", "mark", "fail"}
  BY DEF TrainingInv, RunInv, TakingTurns, DirectoryFits
<1>2. ASSUME HostStep(r) PROVE UNCHANGED <<runDir, registry>>
  BY <1>1, <1>2
  DEF HostStep, HostAt, CreateRunDirectory, RecordPlan, StartTrainer, StartFinalizer, TrainerFailed,
      RecordTrainerFailure, StopTrainer, MarkInterrupted, FinalizerEnded, ReportRun
<1>3. ~WorkerStep(r)
  BY <1>1
  DEF WorkerStep, WorkerAt, Prepare, Train, ReportCheckpointing, AppendCheckpointing,
      ReturnFromTraining, HandleInterrupt, HandleTrainingError
<1>4. ~FinalizerStep(r)
  BY <1>1
  DEF FinalizerStep, FinalizerAt, Inventory, MakeTemporary, FillTemporary, PublishBundle, LoseRace,
      CompleteRun, SealRun, RemoveTemporary, HandleFinalizerError
<1> QED BY <1>2, <1>3, <1>4, StrikesAreTyped DEF TrainingProgress

(* Only SealRun writes a manifest, and only PublishBundle a bundle.          *)
LEMMA SealedBySealRun ==
  ASSUME TrainingInv, TrainingInv', NEW r \in TrainingRuns, TrainingProgress(r) \/ Strikes(r),
         ~runDir[r].manifest, ~SealRun(r)
  PROVE  ~runDir'[r].manifest
<1> SUFFICES ASSUME runDir'[r].manifest PROVE FALSE
  OBVIOUS
<1>1. finalizer[r] # "succeeded" /\ finalizer'[r] = "succeeded"
  BY DEF TrainingInv, RunInv, DirectoryFits
<1>2. ~Strikes(r)
  BY StrikesAreTyped
<1>3. ~HostStep(r)
  BY <1>1, HostStepIsTyped DEF StartFinalizer
<1>4. ~WorkerStep(r)
  BY <1>1, WorkerStepIsTyped
<1>5. DOMAIN finalizer = TrainingRuns
  BY DEF TrainingInv, TrainingTypeOK
<1>6. ~FinalizerStep(r)
  BY <1>1, <1>5
  DEF FinalizerStep, FinalizerAt, Inventory, MakeTemporary, FillTemporary, PublishBundle, LoseRace,
      CompleteRun, RemoveTemporary, HandleFinalizerError
<1> QED BY <1>2, <1>3, <1>4, <1>6 DEF TrainingProgress

LEMMA PublishedByPublishBundle ==
  ASSUME TrainingInv, NEW r \in TrainingRuns, TrainingProgress(r) \/ Strikes(r), ~PublishBundle(r)
  PROVE  registry' = registry
<1>1. ASSUME FinalizerStep(r) PROVE registry' = registry
  BY <1>1
  DEF FinalizerStep, Inventory, MakeTemporary, FillTemporary, LoseRace, CompleteRun, SealRun,
      RemoveTemporary, HandleFinalizerError
<1> QED BY <1>1, HostStepIsTyped, WorkerStepIsTyped, StrikesAreTyped
        DEF TrainingProgress, StartFinalizer

LEMMA BundleStep ==
  ASSUME TrainingInv, TrainingInv', NEW r \in TrainingRuns, TrainingProgress(r) \/ Strikes(r)
  PROVE  [BundleRegistry!RegistryNext]_(BundleRegistry!registryVars)
<1> SUFFICES \/ Bundles' = Bundles /\ Named' = Named
             \/ /\ \E c \in Contents, q \in TrainingRuns :
                     (\A p \in Bundles : p[1] # c) /\ Bundles' = Bundles \union {<<c, q>>}
                /\ Named' = Named
             \/ /\ \E q \in TrainingRuns, c \in Contents :
                     /\ \E p \in Bundles : p[1] = c
                     /\ \A p \in Named : p[1] # q
                     /\ Named' = Named \union {<<q, c>>}
                /\ Bundles' = Bundles
  BY DEF BundleRegistry!RegistryNext, BundleRegistry!PublishEntry, BundleRegistry!Rely,
         BundleRegistry!registryVars, Bundles, Named
<1>1. TrainingTypeOK
  BY DEF TrainingInv
<1>2. \A q \in TrainingRuns \ {r} : runDir'[q] = runDir[q]
  BY HostStepIsTyped, WorkerStepIsTyped, FinalizerStepIsTyped, StrikesAreTyped DEF TrainingProgress
<1>3. CASE PublishBundle(r)
  <2> PICK c : c = runDir[r].staged
    OBVIOUS
  <2>1. /\ c \in Contents /\ registry[c].by = {}
        /\ registry' = [registry EXCEPT ![c] = [by |-> {r}, whole |-> temporary[r] = "whole"]]
        /\ UNCHANGED runDir
    BY <1>3, FinalizedIsContent DEF PublishBundle, IdentityFree, FinalizerAt
  <2>2. /\ registry'[c].by = {r}
        /\ \A d \in Contents \ {c} : registry'[d] = registry[d]
    BY <1>1, <2>1 DEF TrainingTypeOK
  <2>3. (\A p \in Bundles : p[1] # c) /\ Bundles' = Bundles \union {<<c, r>>}
    BY <2>1, <2>2 DEF Bundles
  <2> QED BY <2>1, <2>3 DEF Named
<1>4. CASE SealRun(r)
  <2> PICK c : c = runDir[r].staged
    OBVIOUS
  <2>1. /\ finalizer[r] = "seal" /\ registry' = registry
        /\ runDir' = [runDir EXCEPT ![r] = [runDir[r] EXCEPT !.manifest = TRUE,
                                                              !.sealed = {"result", "events"}]]
    BY <1>4 DEF SealRun, FinalizerAt, Rewrite
  <2>2. /\ c \in Contents /\ runDir[r].checkpoint = c /\ registry[c].by # {}
        /\ ~runDir[r].manifest
    BY <2>1, FinalizedIsContent DEF TrainingInv, RunInv, DirectoryFits, RegistryFits
  <2>3. runDir'[r].manifest /\ runDir'[r].checkpoint = c
    BY <1>1, <2>1, <2>2 DEF TrainingTypeOK, RunDirectory
  <2>4. \E p \in Bundles : p[1] = c
    <3>1. registry[c].by \subseteq TrainingRuns
      BY <1>1, <2>2 DEF TrainingTypeOK
    <3>2. PICK q \in TrainingRuns : q \in registry[c].by
      BY <2>2, <3>1
    <3>3. <<c, q>> \in Bundles
      BY <2>2, <3>2 DEF Bundles
    <3>4. <<c, q>>[1] = c
      OBVIOUS
    <3> QED BY <3>3, <3>4, Zenon
  <2>5. (\A p \in Named : p[1] # r) /\ Named' = Named \union {<<r, c>>}
    BY <1>2, <2>2, <2>3 DEF Named
  <2> QED BY <2>1, <2>2, <2>4, <2>5 DEF Bundles
<1>5. CASE ~PublishBundle(r) /\ ~SealRun(r)
  <2>1. registry' = registry
    BY <1>5, PublishedByPublishBundle
  <2>2. /\ runDir'[r].manifest <=> runDir[r].manifest
        /\ runDir[r].manifest => runDir'[r] = runDir[r]
    <3>1. CASE runDir[r].manifest
      BY <3>1, SealedStays
    <3>2. CASE ~runDir[r].manifest
      BY <1>5, <3>2, SealedBySealRun
    <3> QED BY <3>1, <3>2
  <2>3. Named' = Named
    BY <1>2, <2>2 DEF Named
  <2> QED BY <2>1, <2>3 DEF Bundles
<1> QED BY <1>3, <1>4, <1>5

\* Trainings that race for one identity, and that are failed, interrupted and
\* killed anywhere, never take a bundle from each other, and what a manifest
\* names is there before it and is named for ever (CheckpointBundleStore).
THEOREM BundlesAreARegistry == TrainingSpec => BundlesImplementRegistry
<1>1. TrainingInit => BundleRegistry!RegistryInit
  BY DEF TrainingInit, EmptyDirectory, BundleRegistry!RegistryInit
<1>2. TrainingInv /\ TrainingInv' /\ [TrainingNext]_trainingVars =>
        [BundleRegistry!RegistryNext]_(BundleRegistry!registryVars)
  <2> SUFFICES ASSUME TrainingInv, TrainingInv', [TrainingNext]_trainingVars
               PROVE  [BundleRegistry!RegistryNext]_(BundleRegistry!registryVars)
    OBVIOUS
  <2>1. CASE TrainingNext
    BY <2>1, BundleStep DEF TrainingNext, Strikes
  <2>2. CASE UNCHANGED trainingVars
    BY <2>2 DEF trainingVars, BundleRegistry!registryVars
  <2> QED BY <2>1, <2>2
<1> QED BY <1>1, <1>2, TrainingInvAlways, PTL
        DEF TrainingSpec, BundlesImplementRegistry, BundleRegistry!RegistrySpec
=============================================================================
