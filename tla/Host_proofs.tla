------------------------------ MODULE Host_proofs ------------------------------
(***************************************************************************)
(* Theorems about the processes and resources one host command looks       *)
(* after: the owned policy service (ServiceProcess), the LIBERO adapter    *)
(* (LiberoAdapter), a model deployment (ModelDeployment), Compose          *)
(* deployments (ComposeDeployment), the exchange of observations and       *)
(* predictions (PolicyExchange) and the configuration a container is given *)
(* (ConfigResolution).  The components share no variable; each has a part  *)
(* of its own below.                                                       *)
(***************************************************************************)
EXTENDS ServiceProcess, LiberoAdapter, ModelDeployment, ComposeDeployment, PolicyExchange,
        ConfigResolution, FiniteSetTheorems, WellFoundedInduction, TLAPS

-----------------------------------------------------------------------------
(* The owner of a policy service, for any number of crashes, timeouts and    *)
(* interrupts.                                                               *)

OwnerTypeOK ==
  /\ owner \in {"idle", "poll", "started", "interrupted", "wait", "terminate", "kill",
                "unlink", "give up", "stopped", "lost"}
  /\ service \in {"none", "initialize", "bind", "restrict", "serve", "close", "exited"}
  /\ socket \in {"absent", "bound", "private"}

\* There is a process from the moment start begins to poll; it is known to be
\* gone where the socket is removed.
OwnerKnowsProcess ==
  /\ owner = "idle" <=> service = "none"
  /\ owner \in {"unlink", "stopped"} => service = "exited"

\* The file is what the service made of it; only an owner that gave up removes it
\* under a service that lives.
SocketFollowsService ==
  /\ socket = "private" => service \in {"serve", "close", "exited"}
  /\ service = "restrict" /\ owner # "lost" => socket = "bound"
  /\ service = "serve" /\ owner # "lost" => socket = "private"
  /\ owner = "stopped" => socket = "absent"

OwnerInv == OwnerTypeOK /\ OwnerKnowsProcess /\ SocketFollowsService

LEMMA OwnerInvInitially == OwnerInit => OwnerInv
BY DEF OwnerInit, OwnerInv, OwnerTypeOK, OwnerKnowsProcess, SocketFollowsService

LEMMA OwnerInvKept == OwnerInv /\ [OwnerNext]_ownerVars => OwnerInv'
<1> SUFFICES ASSUME OwnerInv, [OwnerNext]_ownerVars PROVE OwnerInv'
  OBVIOUS
<1> USE DEF OwnerInv, OwnerTypeOK, OwnerKnowsProcess, SocketFollowsService, OwnerAt, ServiceAt,
            Alive
<1>1. CASE StartService \/ SeeReady \/ SeeExit \/ SeeMode
  BY <1>1 DEF StartService, SeeReady, SeeExit, SeeMode, RefuseStart
<1>2. CASE StartTimesOut \/ InterruptStart
  BY <1>2 DEF StartTimesOut, InterruptStart
<1>3. CASE StopService \/ ProcessReaped
  BY <1>3 DEF StopService, ProcessReaped
<1>4. CASE SendSignal("wait", "terminate") \/ SendSignal("terminate", "kill") \/ GiveUp
  BY <1>4 DEF SendSignal, GiveUp
<1>5. CASE RemoveSocket
  BY <1>5 DEF RemoveSocket
<1>6. CASE InitializeProvider \/ BindSocket
  BY <1>6 DEF InitializeProvider, BindSocket
<1>7. CASE RestrictSocket
  BY <1>7 DEF RestrictSocket
<1>8. CASE LeaveLoop \/ CloseServer
  BY <1>8 DEF LeaveLoop, CloseServer
<1>9. CASE DieOfSignal \/ CrashService
  BY <1>9 DEF DieOfSignal, CrashService
<1>10. CASE UNCHANGED ownerVars
  BY <1>10 DEF ownerVars
<1> QED
  BY <1>1, <1>2, <1>3, <1>4, <1>5, <1>6, <1>7, <1>8, <1>9, <1>10
  DEF OwnerNext, OwnerStep, ServiceStep

\* Whatever the service was doing when its owner stopped it, and however start
\* ended, a stopped owner leaves neither process nor socket; a started owner's
\* service answers on a private socket (process.py, start and stop).
THEOREM StoppedServicesAreGone == OwnerSpec => []OwnerLeavesNothing
<1>1. OwnerInv => OwnerLeavesNothing
  BY DEF OwnerInv, OwnerKnowsProcess, SocketFollowsService, OwnerLeavesNothing
<1> QED
  BY <1>1, OwnerInvInitially, OwnerInvKept, PTL DEF OwnerSpec

-----------------------------------------------------------------------------
(* The LIBERO adapter, for every number of simulators, steps, initial states *)
(* and native failures.                                                      *)

OneSimulator == simulator = {} \/ \E s \in Simulators : simulator = {s}

LiberoTypeOK ==
  /\ libero \in {"CREATED", "READY", "EPISODE_ACTIVE", "CLOSED"}
  /\ OneSimulator
  /\ nativeStep \in Nat
  /\ renderer.value # "none"
  /\ stepOutcome \in [raised : BOOLEAN, success : BOOLEAN, terminated : BOOLEAN, truncated : BOOLEAN]

\* An open simulator is held, unless its own close failed or never came, or it
\* was never handed over.
SimulatorsKnown ==
  /\ open \subseteq simulator \cup lost
  /\ libero = "CLOSED" => simulator = {}

\* What is saved of MUJOCO_GL is what was there first; where nothing is saved,
\* that is still there.
RendererKept ==
  /\ DOMAIN renderer = {"value", "saved", "first"}
  /\ profile = "none" => renderer.saved = "none"
  /\ renderer.saved = "none" => renderer.value = renderer.first
  /\ renderer.saved # "none" => renderer.saved = renderer.first
  /\ libero = "CLOSED" => renderer.saved = "none"

LiberoInv == LiberoTypeOK /\ SimulatorsKnown /\ RendererKept /\ EpisodesEndInTime

LEMMA LiberoInvInitially == LiberoInit => LiberoInv
BY LiberoAssumption
DEF LiberoInit, LiberoInv, LiberoTypeOK, OneSimulator, SimulatorsKnown, RendererKept,
    EpisodesEndInTime, NoOutcome

(* What the invariant says of simulators and episodes survives a release.    *)
LEMMA ReleaseKeeps ==
  ASSUME LiberoInv, NEW closes \in BOOLEAN, Released(closes)
  PROVE  /\ OneSimulator' /\ simulator' = {}
         /\ open' \subseteq lost'
         /\ lost \subseteq lost'
         /\ ~closes /\ simulator # {} => lost' # {}
BY DEF LiberoInv, LiberoTypeOK, SimulatorsKnown, Released, OneSimulator

LEMMA InitializingKeeps ==
  ASSUME LiberoInv,
         \/ \E v \in {"egl", "glfw"} : Override(v)
         \/ \E p \in Profiles, b \in {"egl", "glfw"}, f \in {"nothing", "import", "suite"} :
              Initialize(p, b, f)
  PROVE  LiberoInv'
<1> USE DEF LiberoInv, LiberoTypeOK, OneSimulator, SimulatorsKnown, RendererKept
<1>1. CASE \E v \in {"egl", "glfw"} : Override(v)
  BY <1>1 DEF Override, EpisodesEndInTime
<1>2. CASE \E p \in Profiles, b \in {"egl", "glfw"}, f \in {"nothing", "import", "suite"} :
             Initialize(p, b, f)
  BY <1>2, LiberoAssumption DEF Initialize, Resolved, EpisodesEndInTime
<1> QED BY <1>1, <1>2

LEMMA ResettingKeeps ==
  ASSUME LiberoInv,
         \/ ResetReleaseFails \/ CreateFails
         \/ \E s \in Simulators : SeedFails(s)
         \/ \E s \in Simulators, i, c \in BOOLEAN : PrepareFails(s, i, c)
         \/ \E s \in Simulators, r \in 0..InitialStates, raw \in Observations :
              ResetEpisode(s, r, raw)
  PROVE  LiberoInv'
<1>1. CASE ResetReleaseFails \/ CreateFails
  BY <1>1, ReleaseKeeps
  DEF ResetReleaseFails, CreateFails, LiberoInv, LiberoTypeOK, SimulatorsKnown, RendererKept,
      EpisodesEndInTime
<1>2. CASE \E s \in Simulators, i, c \in BOOLEAN : PrepareFails(s, i, c)
  BY <1>2
  DEF PrepareFails, LiberoInv, LiberoTypeOK, OneSimulator, SimulatorsKnown, RendererKept,
      EpisodesEndInTime
<1>3. CASE \E s \in Simulators, r \in 0..InitialStates, raw \in Observations :
             ResetEpisode(s, r, raw)
  BY <1>3, LiberoAssumption
  DEF ResetEpisode, NoOutcome, LiberoInv, LiberoTypeOK, OneSimulator, SimulatorsKnown,
      RendererKept, EpisodesEndInTime
<1>4. CASE \E s \in Simulators : SeedFails(s)
  BY <1>4
  DEF SeedFails, LiberoInv, LiberoTypeOK, OneSimulator, SimulatorsKnown, RendererKept,
      EpisodesEndInTime
<1> QED BY <1>1, <1>2, <1>3, <1>4

(* A step that ends nothing leaves room for another one; one that ends the   *)
(* episode is terminated or stands at the limit.                             *)
LEMMA SteppingKeeps ==
  ASSUME LiberoInv,
         \/ \E d, s, c \in BOOLEAN : Step(d, s, c)
         \/ \E made \in BOOLEAN : StepFails(made)
  PROVE  LiberoInv'
<1>1. ASSUME NEW done \in BOOLEAN, NEW success \in BOOLEAN, NEW closes \in BOOLEAN,
             Step(done, success, closes)
      PROVE  LiberoInv'
  <2> DEFINE terminated == Terminated(done, success)
             truncated == Truncated(nativeStep + 1, done, success)
  <2>1. /\ libero = "EPISODE_ACTIVE" /\ ~stepOutcome.raised
        /\ nativeStep \in Nat /\ nativeStep < MaximumSteps
        /\ nativeStep' = nativeStep + 1
        /\ UNCHANGED <<profile, renderer>>
    BY <1>1 DEF Step, LiberoInv, LiberoTypeOK, EpisodesEndInTime
  <2>2. stepOutcome' = [raised |-> ~closes, success |-> success,
                        terminated |-> terminated, truncated |-> truncated]
    BY <1>1 DEF Step
  <2>3. /\ terminated \in BOOLEAN /\ truncated \in BOOLEAN
        /\ ~(terminated /\ truncated)
        /\ success => terminated
        /\ truncated => nativeStep + 1 >= MaximumSteps
        /\ ~terminated /\ ~truncated => ~(nativeStep + 1 >= MaximumSteps)
    BY DEF Terminated, Truncated
  <2>4. /\ stepOutcome'.raised <=> ~closes
        /\ stepOutcome'.success => stepOutcome'.terminated
        /\ ~(stepOutcome'.terminated /\ stepOutcome'.truncated)
        /\ stepOutcome'.truncated => nativeStep' = MaximumSteps
        /\ nativeStep' <= MaximumSteps
    <3> HIDE DEF terminated, truncated
    <3>1. /\ stepOutcome'.raised <=> ~closes
          /\ stepOutcome'.success <=> success
          /\ stepOutcome'.terminated <=> terminated
          /\ stepOutcome'.truncated <=> truncated
      BY <2>2, <2>3
    <3> QED BY <2>1, <2>3, <3>1, LiberoAssumption
  <2>5. CASE terminated \/ truncated
    <3>1. Released(closes) /\ libero' = IF closes THEN "READY" ELSE "EPISODE_ACTIVE"
      BY <1>1, <2>5 DEF Step
    <3>2. LiberoTypeOK' /\ SimulatorsKnown' /\ RendererKept'
      BY <2>1, <2>2, <2>3, <3>1, ReleaseKeeps
      DEF LiberoInv, LiberoTypeOK, SimulatorsKnown, RendererKept
    <3>3. EpisodesEndInTime'
      BY <2>4, <3>1 DEF EpisodesEndInTime
    <3> QED BY <3>2, <3>3 DEF LiberoInv
  <2>6. CASE ~(terminated \/ truncated)
    <3>1. closes /\ UNCHANGED <<simulator, open, lost>> /\ libero' = "EPISODE_ACTIVE"
      BY <1>1, <2>6 DEF Step
    <3>2. LiberoTypeOK' /\ SimulatorsKnown' /\ RendererKept'
      BY <2>1, <2>2, <2>3, <3>1
      DEF LiberoInv, LiberoTypeOK, OneSimulator, SimulatorsKnown, RendererKept
    <3>3. EpisodesEndInTime'
      <4>1. simulator # {}
        BY <1>1 DEF Step
      <4>2. nativeStep' < MaximumSteps
        <5> HIDE DEF terminated, truncated
        <5> QED BY <2>1, <2>3, <2>6, LiberoAssumption
      <4> QED BY <2>4, <3>1, <4>1, <4>2 DEF EpisodesEndInTime
    <3> QED BY <3>2, <3>3 DEF LiberoInv
  <2> QED BY <2>5, <2>6
<1>2. ASSUME NEW made \in BOOLEAN, StepFails(made) PROVE LiberoInv'
  <2>1. /\ libero = "EPISODE_ACTIVE" /\ ~stepOutcome.raised
        /\ nativeStep \in Nat /\ nativeStep < MaximumSteps
        /\ nativeStep' \in {nativeStep, nativeStep + 1}
        /\ UNCHANGED <<libero, profile, renderer, simulator, open, lost>>
    BY <1>2 DEF StepFails, LiberoInv, LiberoTypeOK, EpisodesEndInTime
  <2>2. stepOutcome' = [raised |-> TRUE, success |-> FALSE, terminated |-> FALSE,
                        truncated |-> FALSE]
    BY <1>2 DEF StepFails, NoOutcome
  <2>3. nativeStep' \in Nat /\ nativeStep' <= MaximumSteps
    BY <2>1, LiberoAssumption
  <2>4. LiberoTypeOK' /\ SimulatorsKnown' /\ RendererKept'
    BY <2>1, <2>2, <2>3
    DEF LiberoInv, LiberoTypeOK, OneSimulator, SimulatorsKnown, RendererKept
  <2>5. EpisodesEndInTime'
    BY <2>1, <2>2, <2>3 DEF EpisodesEndInTime
  <2> QED BY <2>4, <2>5 DEF LiberoInv
<1> QED BY <1>1, <1>2

LEMMA EndingKeeps ==
  ASSUME LiberoInv, NEW closes \in BOOLEAN, AbortEpisode(closes) \/ CloseAdapter(closes)
  PROVE  LiberoInv'
<1>1. Released(closes) /\ (closes \/ simulator # {})
  BY DEF AbortEpisode, CloseAdapter
<1>2. CASE AbortEpisode(closes)
  BY <1>1, <1>2, ReleaseKeeps
  DEF AbortEpisode, LiberoInv, LiberoTypeOK, SimulatorsKnown, RendererKept, EpisodesEndInTime
<1>3. CASE CloseAdapter(closes)
  <2>1. LiberoTypeOK' /\ RendererKept'
    BY <1>1, <1>3, ReleaseKeeps DEF CloseAdapter, LiberoInv, LiberoTypeOK, RendererKept
  <2>2. SimulatorsKnown' /\ EpisodesEndInTime'
    BY <1>1, <1>3, ReleaseKeeps DEF CloseAdapter, LiberoInv, SimulatorsKnown, EpisodesEndInTime
  <2> QED BY <2>1, <2>2 DEF LiberoInv
<1> QED BY <1>2, <1>3

LEMMA LiberoInvKept == LiberoInv /\ [LiberoNext]_liberoVars => LiberoInv'
<1> SUFFICES ASSUME LiberoInv, [LiberoNext]_liberoVars PROVE LiberoInv'
  OBVIOUS
<1>1. CASE UNCHANGED liberoVars
  BY <1>1
  DEF liberoVars, LiberoInv, LiberoTypeOK, OneSimulator, SimulatorsKnown, RendererKept,
      EpisodesEndInTime
<1>2. CASE LiberoNext
  BY <1>2, InitializingKeeps, ResettingKeeps, SteppingKeeps, EndingKeeps DEF LiberoNext
<1> QED BY <1>1, <1>2

(* Each failure leaves at most one simulator open behind the adapter.        *)
LeftBehind ==
  /\ simFaults \in Nat
  /\ IsFiniteSet(open \ simulator)
  /\ Cardinality(open \ simulator) <= MaxSimFaults - simFaults

LEMMA LeavingCosts ==
  ASSUME LeftBehind,
         \/ NoFault /\ (open \ simulator)' \subseteq open \ simulator
         \/ Fault /\ \E s : (open \ simulator)' \subseteq (open \ simulator) \union {s}
  PROVE  LeftBehind'
<1> DEFINE left == open \ simulator
           after == (open \ simulator)'
<1>1. /\ simFaults \in Nat /\ IsFiniteSet(left) /\ Cardinality(left) \in Nat
      /\ Cardinality(left) <= MaxSimFaults - simFaults
  BY FS_CardinalityType DEF LeftBehind
<1>2. CASE NoFault /\ after \subseteq left
  <2>1. IsFiniteSet(after) /\ Cardinality(after) <= Cardinality(left) /\ Cardinality(after) \in Nat
    BY <1>1, <1>2, FS_Subset, FS_CardinalityType
  <2> QED BY <1>1, <1>2, <2>1, LiberoAssumption DEF LeftBehind, NoFault
<1>3. ASSUME Fault, NEW s, after \subseteq left \union {s} PROVE LeftBehind'
  <2>1. IsFiniteSet(left \union {s}) /\ Cardinality(left \union {s}) <= Cardinality(left) + 1
    BY <1>1, FS_AddElement
  <2>2. Cardinality(left \union {s}) \in Nat
    BY <2>1, FS_CardinalityType
  <2>3. IsFiniteSet(after) /\ Cardinality(after) <= Cardinality(left \union {s})
        /\ Cardinality(after) \in Nat
    BY <1>3, <2>1, FS_Subset, FS_CardinalityType
  <2>4. simFaults' \in Nat /\ simFaults' = simFaults - 1
    BY <1>1, <1>3 DEF Fault
  <2>5. Cardinality(after) <= MaxSimFaults - simFaults'
    BY <1>1, <2>1, <2>2, <2>3, <2>4, LiberoAssumption
  <2> QED BY <2>3, <2>4, <2>5 DEF LeftBehind
<1> QED BY <1>2, <1>3

\* A close that raises leaves the one that was held.
LEMMA ReleaseLeaves ==
  ASSUME OneSimulator, NEW closes \in BOOLEAN, Released(closes)
  PROVE  /\ \E s : (open \ simulator)' \subseteq (open \ simulator) \union {s}
         /\ closes \/ simulator = {} => (open \ simulator)' \subseteq open \ simulator
BY DEF OneSimulator, Released

LEMMA LeftBehindKept ==
  OneSimulator /\ LeftBehind /\ [LiberoNext]_liberoVars => LeftBehind'
<1> SUFFICES ASSUME OneSimulator, LeftBehind, [LiberoNext]_liberoVars PROVE LeftBehind'
  OBVIOUS
<1>1. CASE UNCHANGED liberoVars
  BY <1>1 DEF liberoVars, LeftBehind
<1>2. CASE \/ \E v \in {"egl", "glfw"} : Override(v)
           \/ \E p \in Profiles, b \in {"egl", "glfw"}, f \in {"nothing", "import", "suite"} :
                Initialize(p, b, f)
           \/ \E made \in BOOLEAN : StepFails(made)
  <2>1. UNCHANGED <<open, simulator>> /\ (Fault \/ NoFault)
    BY <1>2 DEF Override, Initialize, StepFails, NoFault
  <2> QED BY <2>1, LeavingCosts
<1>3. CASE ResetReleaseFails \/ CreateFails
  <2>1. PICK closes \in BOOLEAN : Released(closes) /\ Fault
    BY <1>3 DEF ResetReleaseFails, CreateFails
  <2> QED BY <2>1, ReleaseLeaves, LeavingCosts
<1>4. CASE \/ \E s \in Simulators : SeedFails(s)
           \/ \E s \in Simulators, i, c \in BOOLEAN : PrepareFails(s, i, c)
  <2>1. Fault /\ \E s : (open \ simulator)' \subseteq (open \ simulator) \union {s}
    BY <1>4 DEF SeedFails, PrepareFails
  <2> QED BY <2>1, LeavingCosts
<1>5. CASE \E s \in Simulators, r \in 0..InitialStates, raw \in Observations : ResetEpisode(s, r, raw)
  <2>1. (Fault \/ NoFault) /\ (open \ simulator)' \subseteq open \ simulator
    BY <1>5 DEF ResetEpisode
  <2> QED BY <2>1, LeavingCosts
<1>6. ASSUME NEW closes \in BOOLEAN,
             \/ \E d, s \in BOOLEAN : Step(d, s, closes)
             \/ AbortEpisode(closes) \/ CloseAdapter(closes)
      PROVE  LeftBehind'
  <2>1. IF closes THEN NoFault ELSE Fault
    BY <1>6 DEF Step, AbortEpisode, CloseAdapter
  <2>2. Released(closes) \/ (closes /\ UNCHANGED <<simulator, open>>)
    BY <1>6 DEF Step, AbortEpisode, CloseAdapter
  <2> QED BY <2>1, <2>2, ReleaseLeaves, LeavingCosts
<1> QED BY <1>1, <1>2, <1>3, <1>4, <1>5, <1>6 DEF LiberoNext

LEMMA InvariantIsEnough == LiberoInv /\ LeftBehind => AdapterIsSound
<1> SUFFICES ASSUME LiberoInv, LeftBehind PROVE NoSimulatorIsLeft
  BY DEF AdapterIsSound, LiberoInv
<1>1. Cardinality(simulator) <= 1
  <2>1. CASE simulator = {}
    BY <2>1, FS_EmptySet
  <2>2. ASSUME NEW s, simulator = {s} PROVE Cardinality(simulator) <= 1
    BY <2>2, FS_Singleton
  <2> QED BY <2>1, <2>2 DEF LiberoInv, LiberoTypeOK, OneSimulator
<1>2. /\ open \subseteq simulator \union lost
      /\ libero = "CLOSED" => simulator = {} /\ renderer.value = renderer.first
  BY DEF LiberoInv, SimulatorsKnown, RendererKept
<1>3. Cardinality(open \ simulator) <= MaxSimFaults - simFaults
  BY DEF LeftBehind
<1> QED BY <1>1, <1>2, <1>3 DEF NoSimulatorIsLeft

\* Wherever the simulator raises, at most one is held, each failure leaves at
\* most one open behind the adapter (one that does not close, or that could not
\* be seeded), a closed adapter has restored the renderer, and an episode takes
\* at most its maximum of steps (libero/adapter.py, environment.py).
THEOREM AdapterStaysSound == LiberoSpec => []AdapterIsSound
<1>1. LiberoInit => LiberoInv /\ LeftBehind
  <2>1. LiberoInit => LeftBehind
    BY FS_EmptySet, LiberoAssumption DEF LiberoInit, LeftBehind
  <2> QED BY <2>1, LiberoInvInitially
<1>2. LiberoInv /\ LeftBehind /\ [LiberoNext]_liberoVars => (LiberoInv /\ LeftBehind)'
  BY LiberoInvKept, LeftBehindKept DEF LiberoInv, LiberoTypeOK
<1> QED BY <1>1, <1>2, InvariantIsEnough, PTL DEF LiberoSpec

-----------------------------------------------------------------------------
(* Records and containers of a model deployment, for every number of         *)
(* commands, configurations, containers and faults.                          *)

Deploying == {"resolve", "copy", "record", "run", "wait", "ready", "cleanup", "failed"}
Locked == Deploying \union Stopping
Configs == DeployConfigs \union {"none"}
Records ==
  [status : {"none", "starting", "ready", "failed", "stopped"}, config : Configs, id : Nat]

Containers == [id : Nat, config : Configs, running : BOOLEAN, healthy : BOOLEAN]

DeployTypeOK ==
  /\ deployAt \in [Deployers -> Locked \union Checking \union DeployEnds]
  /\ order \in [Deployers -> Configs]
  /\ document \in [Deployers -> Records]
  /\ record \in Records
  /\ configs \in Configs
  /\ container \in Containers
  /\ created \in Nat

LockIsHeld == \A p \in Deployers : deployAt[p] \in Locked => deployLock = p

\* What a command that holds the lock knows of the world.  Before docker run
\* there is no container; from the copy of the configs and the first record on,
\* both are of its order; the document it will write fits the container that may
\* be left, and has been read or written by it.
Knows(p) ==
  /\ deployAt[p] \in {"resolve", "copy", "record", "run", "stopped"} => container.id = 0
  /\ deployAt[p] \in Deploying \ {"resolve", "copy"} => configs = order[p]
  /\ deployAt[p] \in {"run", "wait", "ready", "cleanup", "failed"} =>
       /\ record = [status |-> "starting", config |-> order[p], id |-> 0]
       /\ document[p].config = order[p]
  /\ deployAt[p] \in {"wait", "ready", "cleanup", "failed"} /\ container.id # 0 =>
       container.config = order[p] /\ document[p].id \in {0, container.id}
  /\ deployAt[p] \in {"run", "wait"} => document[p].id = 0
  /\ deployAt[p] = "wait" => container.id # 0
  /\ deployAt[p] = "ready" => document[p].status = "ready" /\ document[p].id # 0
                                /\ document[p].id = container.id
  /\ deployAt[p] \in {"halt", "remove", "stopped"} => document[p] = record

DeployInv ==
  /\ DeployTypeOK
  /\ LockIsHeld
  /\ \A p \in Deployers : Knows(p)
  /\ RecordsHold

LEMMA DeployInvInitially == DeployInit => DeployInv
BY DEF DeployInit, DeployInv, DeployTypeOK, LockIsHeld, Knows, RecordsHold,
       EveryContainerIsStoppable, ReadyRecordsHold, Matches, NoRecord, NoContainer, Records,
       Configs, Containers, Locked, Deploying, Stopping, Checking, DeployEnds

(* Where a command works under the lock, no other does.                      *)
LEMMA OnlyOneWorks ==
  ASSUME DeployInv, NEW p \in Deployers, deployAt[p] \in Locked
  PROVE  deployLock = p /\ \A q \in Deployers \ {p} : deployAt[q] \notin Locked
BY DEF DeployInv, LockIsHeld

(* A step of the one command under the lock: it is enough to look at what    *)
(* that command knows.                                                       *)
LEMMA WorkerKeeps ==
  ASSUME DeployInv, NEW p \in Deployers, deployAt[p] \in Locked,
         NEW to, deployAt' = [deployAt EXCEPT ![p] = to],
         deployLock' = IF to \in Locked THEN p ELSE "nobody",
         DeployTypeOK', Knows(p)', RecordsHold'
  PROVE  DeployInv'
<1>1. \A q \in Deployers \ {p} : deployAt'[q] = deployAt[q] /\ deployAt'[q] \notin Locked
  BY OnlyOneWorks DEF DeployInv, DeployTypeOK
<1>2. deployAt'[p] = to
  BY DEF DeployInv, DeployTypeOK
<1>3. LockIsHeld'
  BY <1>1, <1>2 DEF LockIsHeld
<1>4. \A q \in Deployers \ {p} : Knows(q)'
  BY <1>1 DEF Knows, Locked, Deploying, Stopping
<1> QED BY <1>3, <1>4 DEF DeployInv

(* A step that leaves the world alone and begins or ends a command.          *)
LEMMA OutsideKeeps ==
  ASSUME DeployInv, NEW p \in Deployers,
         NEW to \in Checking \union DeployEnds \union {"resolve", "inspect"},
         deployAt' = [deployAt EXCEPT ![p] = to],
         UNCHANGED deployWorld,
         order' \in [Deployers -> Configs], document' \in [Deployers -> Records],
         \A q \in Deployers \ {p} : order'[q] = order[q] /\ document'[q] = document[q],
         \/ deployLock' = deployLock /\ deployAt[p] \notin Locked
         \/ deployLock = p /\ deployLock' = "nobody"
         \/ deployLock = "nobody" /\ deployLock' = p,
         to \in Locked => deployLock' = p,
         to = "resolve" => container.id = 0
  PROVE  DeployInv'
<1>1. DeployTypeOK'
  BY DEF DeployInv, DeployTypeOK, deployWorld, Locked, Deploying, Stopping
<1>2. \A q \in Deployers \ {p} : deployAt'[q] = deployAt[q]
  BY DEF DeployInv, DeployTypeOK
<1>3. deployAt'[p] = to
  BY DEF DeployInv, DeployTypeOK
<1>4. LockIsHeld'
  BY <1>2, <1>3, DeployAssumption DEF DeployInv, LockIsHeld
<1>5. RecordsHold'
  BY DEF DeployInv, RecordsHold, EveryContainerIsStoppable, ReadyRecordsHold, Matches, deployWorld
<1>6. \A q \in Deployers \ {p} : Knows(q)'
  BY <1>2 DEF DeployInv, Knows, deployWorld
<1>7. Knows(p)'
  BY <1>3 DEF Knows, deployWorld, Deploying, Checking, DeployEnds
<1> QED BY <1>1, <1>4, <1>5, <1>6, <1>7 DEF DeployInv

LEMMA BeginningKeeps ==
  ASSUME DeployInv, NEW p \in Deployers,
         \/ \E c \in DeployConfigs : BeginDeploy(p, c)
         \/ BeginStop(p) \/ Refuse(p) \/ BeginVerify(p)
  PROVE  DeployInv'
<1> USE DEF deployWorld, Locked, Deploying, Stopping, Checking, DeployEnds
<1>1. ASSUME NEW c \in DeployConfigs, BeginDeploy(p, c) PROVE DeployInv'
  <2>1. /\ order' = [order EXCEPT ![p] = c] /\ UNCHANGED <<document, deployWorld>>
        /\ deployAt[p] = "idle" /\ deployLock = "nobody"
    BY <1>1 DEF BeginDeploy, Nobody
  <2>2. order' \in [Deployers -> Configs] /\ document' \in [Deployers -> Records]
    BY <2>1 DEF DeployInv, DeployTypeOK, Configs
  <2>3. \A q \in Deployers \ {p} : order'[q] = order[q] /\ document'[q] = document[q]
    BY <2>1 DEF DeployInv, DeployTypeOK
  <2>4. CASE Vacant
    <3>1. deployAt' = [deployAt EXCEPT ![p] = "resolve"] /\ deployLock' = p /\ container.id = 0
      BY <1>1, <2>4 DEF BeginDeploy, Vacant
    <3> QED BY <2>1, <2>2, <2>3, <3>1, OutsideKeeps
  <2>5. CASE ~Vacant
    <3>1. deployAt' = [deployAt EXCEPT ![p] = "raised"] /\ deployLock' = deployLock
      BY <1>1, <2>1, <2>5, DeployAssumption DEF BeginDeploy, EndDeploy, Nobody
    <3> QED BY <2>1, <2>2, <2>3, <3>1, OutsideKeeps
  <2> QED BY <2>4, <2>5
<1>2. CASE BeginStop(p)
  <2>1. /\ deployAt' = [deployAt EXCEPT ![p] = "inspect"] /\ deployLock = "nobody" /\ deployLock' = p
        /\ UNCHANGED <<order, document, deployWorld>>
    BY <1>2 DEF BeginStop, Nobody
  <2>2. order' \in [Deployers -> Configs] /\ document' \in [Deployers -> Records]
    BY <2>1 DEF DeployInv, DeployTypeOK
  <2> QED BY <2>1, <2>2, OutsideKeeps
<1>3. CASE Refuse(p)
  <2>1. /\ deployAt[p] = "idle" /\ deployAt' = [deployAt EXCEPT ![p] = "raised"]
        /\ UNCHANGED <<order, document, deployLock, deployWorld>>
    BY <1>3 DEF Refuse
  <2>2. order' \in [Deployers -> Configs] /\ document' \in [Deployers -> Records]
    BY <2>1 DEF DeployInv, DeployTypeOK
  <2> QED BY <2>1, <2>2, OutsideKeeps
<1>4. CASE BeginVerify(p)
  <2>1. /\ deployAt[p] = "idle" /\ deployAt' = [deployAt EXCEPT ![p] = "verify"]
        /\ document' = [document EXCEPT ![p] = record]
        /\ UNCHANGED <<order, deployLock, deployWorld>>
    BY <1>4 DEF BeginVerify, DeployAt
  <2>2. order' \in [Deployers -> Configs] /\ document' \in [Deployers -> Records]
    BY <2>1 DEF DeployInv, DeployTypeOK
  <2>3. \A q \in Deployers \ {p} : document'[q] = document[q]
    BY <2>1 DEF DeployInv, DeployTypeOK
  <2> QED BY <2>1, <2>2, <2>3, OutsideKeeps
<1> QED BY <1>1, <1>2, <1>3, <1>4

(* _start: what each statement makes true is what the next one relies on.    *)
LEMMA PreparingKeeps ==
  ASSUME DeployInv, NEW p \in Deployers,
         ResolveInputs(p) \/ MaterializeConfigs(p) \/ WriteStarting(p)
  PROVE  DeployInv'
<1> USE DEF Deploying, Locked
<1>1. CASE ResolveInputs(p)
  <2>1. /\ deployAt[p] = "resolve" /\ deployAt' = [deployAt EXCEPT ![p] = "copy"]
        /\ configs' = "none"
        /\ UNCHANGED <<order, document, deployLock, record, container, created>>
    BY <1>1 DEF ResolveInputs, DeployAt
  <2>2. deployLock = p /\ container.id = 0
    BY <2>1, OnlyOneWorks DEF DeployInv, Knows
  <2>3. DeployTypeOK' /\ Knows(p)' /\ RecordsHold'
    BY <2>1, <2>2 DEF DeployInv, DeployTypeOK, Knows, RecordsHold, EveryContainerIsStoppable,
                      ReadyRecordsHold, Configs
  <2> QED BY <2>1, <2>2, <2>3, WorkerKeeps
<1>2. CASE MaterializeConfigs(p)
  <2>1. /\ deployAt[p] = "copy" /\ deployAt' = [deployAt EXCEPT ![p] = "record"]
        /\ configs' = order[p]
        /\ UNCHANGED <<order, document, deployLock, record, container, created>>
    BY <1>2 DEF MaterializeConfigs, DeployAt
  <2>2. deployLock = p /\ container.id = 0
    BY <2>1, OnlyOneWorks DEF DeployInv, Knows
  <2>3. DeployTypeOK' /\ Knows(p)' /\ RecordsHold'
    BY <2>1, <2>2 DEF DeployInv, DeployTypeOK, Knows, RecordsHold, EveryContainerIsStoppable,
                      ReadyRecordsHold
  <2> QED BY <2>1, <2>2, <2>3, WorkerKeeps
<1>3. CASE WriteStarting(p)
  <2> DEFINE starting == [status |-> "starting", config |-> order[p], id |-> 0]
  <2>1. /\ deployAt[p] = "record" /\ deployAt' = [deployAt EXCEPT ![p] = "run"]
        /\ record' = starting /\ document' = [document EXCEPT ![p] = starting]
        /\ UNCHANGED <<order, deployLock, configs, container, created>>
    BY <1>3 DEF WriteStarting, DeployAt
  <2>2. deployLock = p /\ container.id = 0 /\ configs = order[p]
    BY <2>1, OnlyOneWorks DEF DeployInv, Knows
  <2>3. starting \in Records /\ order[p] \in Configs
    BY DEF DeployInv, DeployTypeOK, Records
  <2>4. DeployTypeOK'
    BY <2>1, <2>3 DEF DeployInv, DeployTypeOK
  <2>5. document'[p] = starting /\ deployAt'[p] = "run"
    BY <2>1 DEF DeployInv, DeployTypeOK
  <2>6. Knows(p)' /\ RecordsHold'
    BY <2>1, <2>2, <2>5 DEF Knows, RecordsHold, EveryContainerIsStoppable, ReadyRecordsHold
  <2> QED BY <2>1, <2>2, <2>4, <2>6, WorkerKeeps
<1> QED BY <1>1, <1>2, <1>3

LEMMA RunningKeeps ==
  ASSUME DeployInv, NEW p \in Deployers, RunContainer(p) \/ RunFails(p)
  PROVE  DeployInv'
<1> USE DEF Deploying, Locked
<1> DEFINE new(running) ==
      [id |-> created + 1, config |-> order[p], running |-> running, healthy |-> FALSE]
<1>1. PICK to \in {"wait", "failed"} :
        /\ deployAt[p] = "run" /\ deployAt' = [deployAt EXCEPT ![p] = to]
        /\ \/ created' = created + 1 /\ \E b \in BOOLEAN : container' = new(b)
           \/ UNCHANGED <<container, created>> /\ to = "failed"
        /\ UNCHANGED <<order, document, deployLock, record, configs>>
  BY DEF RunContainer, RunFails, DeployAt
<1>2. /\ deployLock = p /\ container.id = 0 /\ configs = order[p]
      /\ record = [status |-> "starting", config |-> order[p], id |-> 0]
      /\ document[p].config = order[p] /\ document[p].id = 0
  BY <1>1, OnlyOneWorks DEF DeployInv, Knows
<1>3. created + 1 \in Nat /\ created + 1 # 0 /\ order[p] \in Configs
  BY DEF DeployInv, DeployTypeOK
<1>4. deployAt'[p] = to
  BY <1>1 DEF DeployInv, DeployTypeOK
<1>5. DeployTypeOK'
  <2>1. \A b \in BOOLEAN : new(b) \in Containers
    BY <1>3 DEF Containers
  <2> HIDE DEF new
  <2> QED BY <1>1, <1>3, <2>1 DEF DeployInv, DeployTypeOK
<1>6. \/ container'.id = 0 /\ to = "failed"
      \/ container'.id # 0 /\ container'.config = order[p]
  BY <1>1, <1>2, <1>3
<1>7. Knows(p)'
  BY <1>1, <1>2, <1>4, <1>6 DEF Knows
<1>8. RecordsHold'
  BY <1>1, <1>2, <1>6 DEF RecordsHold, EveryContainerIsStoppable, ReadyRecordsHold, Matches
<1> QED BY <1>1, <1>2, <1>5, <1>7, <1>8, WorkerKeeps

LEMMA WaitingKeeps ==
  ASSUME DeployInv, NEW p \in Deployers, BecomeReady(p) \/ NeverReady(p) \/ CleanUp(p)
  PROVE  DeployInv'
<1> USE DEF Deploying, Locked
<1>1. CASE BecomeReady(p)
  <2>1. /\ deployAt[p] = "wait" /\ deployAt' = [deployAt EXCEPT ![p] = "ready"]
        /\ document' = [document EXCEPT ![p].status = "ready", ![p].id = container.id]
        /\ container.running
        /\ UNCHANGED <<order, deployLock, record, configs, container, created>>
    BY <1>1 DEF BecomeReady, DeployAt, deployWorld
  <2>2. document[p] \in Records /\ container.id \in Nat
    BY DEF DeployInv, DeployTypeOK, Containers
  <2>3. /\ document'[p] \in Records /\ document'[p].status = "ready"
        /\ document'[p].id = container.id /\ document'[p].config = document[p].config
    BY <2>1, <2>2 DEF DeployInv, DeployTypeOK, Records
  <2>4. DeployTypeOK' /\ deployAt'[p] = "ready"
    BY <2>1, <2>3 DEF DeployInv, DeployTypeOK
  <2>5. deployLock = p
    BY <2>1, OnlyOneWorks
  <2>6. RecordsHold'
    BY <2>1 DEF DeployInv, RecordsHold, EveryContainerIsStoppable, ReadyRecordsHold, Matches
  <2>7. /\ configs = order[p] /\ document[p].config = order[p]
        /\ record = [status |-> "starting", config |-> order[p], id |-> 0]
        /\ container.id # 0 => container.config = order[p]
    BY <2>1 DEF DeployInv, Knows
  <2>8. container.id # 0
    BY <2>1 DEF DeployInv, Knows
  <2>9. Knows(p)'
    BY <2>1, <2>3, <2>4, <2>7, <2>8 DEF Knows
  <2> QED BY <2>1, <2>4, <2>5, <2>6, <2>9, WorkerKeeps
<1>2. CASE NeverReady(p)
  <2>1. /\ deployAt[p] = "wait" /\ deployAt' = [deployAt EXCEPT ![p] = "cleanup"]
        /\ UNCHANGED <<order, document, deployLock, record, configs, container, created>>
    BY <1>2 DEF NeverReady, DeployAt, deployWorld
  <2>2. DeployTypeOK' /\ deployAt'[p] = "cleanup" /\ deployLock = p
    BY <2>1, OnlyOneWorks DEF DeployInv, DeployTypeOK
  <2>3. RecordsHold' /\ Knows(p)'
    BY <2>1, <2>2
    DEF DeployInv, Knows, RecordsHold, EveryContainerIsStoppable, ReadyRecordsHold, Matches
  <2> QED BY <2>1, <2>2, <2>3, WorkerKeeps
<1>3. CASE CleanUp(p)
  <2>1. /\ deployAt[p] = "cleanup" /\ deployAt' = [deployAt EXCEPT ![p] = "failed"]
        /\ container' = container \/ container' = NoContainer
        /\ UNCHANGED <<order, document, deployLock, record, configs, created>>
    BY <1>3 DEF CleanUp, DeployAt
  <2>2. /\ DeployTypeOK'
        /\ deployAt'[p] = "failed" /\ deployLock = p
    <3>1. NoContainer \in Containers
      BY DEF NoContainer, Containers, Configs
    <3> QED BY <2>1, <3>1, OnlyOneWorks DEF DeployInv, DeployTypeOK
  <2>3. RecordsHold' /\ Knows(p)'
    BY <2>1, <2>2
    DEF DeployInv, Knows, RecordsHold, EveryContainerIsStoppable, ReadyRecordsHold, Matches,
        NoContainer
  <2> QED BY <2>1, <2>2, <2>3, WorkerKeeps
<1> QED BY <1>1, <1>2, <1>3

(* The last statement of deploy and stop writes the record and drops the     *)
(* lock; what it writes fits the container that is there.                    *)
LEMMA FinishingKeeps ==
  ASSUME DeployInv, NEW p \in Deployers, WriteReady(p) \/ WriteFailed(p) \/ WriteStopped(p)
  PROVE  DeployInv'
<1>1. PICK to \in {"done", "raised"}, status \in {"ready", "failed", "stopped"} :
        /\ deployAt' = [deployAt EXCEPT ![p] = to]
        /\ record' = [document[p] EXCEPT !.status = status]
        /\ deployAt[p] = IF status = "ready" THEN "ready"
                         ELSE IF status = "failed" THEN "failed" ELSE "stopped"
        /\ deployLock' = IF deployLock = p THEN "nobody" ELSE deployLock
        /\ UNCHANGED <<order, document, configs, container, created>>
  <2>1. CASE WriteReady(p)
    <3>1. document[p].status = "ready" /\ document[p] \in Records
      BY <2>1 DEF WriteReady, DeployInv, DeployTypeOK, Knows
    <3>2. document[p] = [document[p] EXCEPT !.status = "ready"]
      BY <3>1 DEF Records
    <3> QED BY <2>1, <3>2 DEF WriteReady, EndDeploy, Nobody
  <2>2. CASE WriteFailed(p)
    BY <2>2 DEF WriteFailed, EndDeploy, Nobody
  <2>3. CASE WriteStopped(p)
    BY <2>3 DEF WriteStopped, EndDeploy, Nobody
  <2> QED BY <2>1, <2>2, <2>3
<1>2. /\ deployAt[p] \in Locked /\ deployLock = p
      /\ deployAt'[p] = to /\ to \notin Locked
  BY <1>1, OnlyOneWorks DEF Locked, Deploying, Stopping, DeployInv, DeployTypeOK
<1>3. document[p] \in Records
  BY DEF DeployInv, DeployTypeOK
<1>4. /\ record' \in Records /\ record'.status = status
      /\ record'.config = document[p].config /\ record'.id = document[p].id
  BY <1>1, <1>3 DEF Records
<1>5. DeployTypeOK'
  BY <1>1, <1>4 DEF DeployInv, DeployTypeOK, DeployEnds
<1>6. Knows(p)'
  BY <1>1, <1>2 DEF Knows, Deploying
<1>7. RecordsHold'
  <2>1. CASE status = "stopped"
    <3>1. container.id = 0
      BY <1>1, <2>1 DEF DeployInv, Knows
    <3> QED BY <1>1, <1>4, <2>1, <3>1
        DEF RecordsHold, EveryContainerIsStoppable, ReadyRecordsHold
  <2>2. CASE status # "stopped"
    <3>1. /\ configs = order[p] /\ document[p].config = order[p]
          /\ container.id # 0 => container.config = order[p] /\ document[p].id \in {0, container.id}
          /\ status = "ready" => document[p].id # 0 /\ document[p].id = container.id
      BY <1>1, <2>2 DEF DeployInv, Knows, Deploying
    <3> QED BY <1>1, <1>4, <2>2, <3>1
        DEF RecordsHold, EveryContainerIsStoppable, ReadyRecordsHold, Matches
  <2> QED BY <2>1, <2>2
<1> QED BY <1>1, <1>2, <1>5, <1>6, <1>7, WorkerKeeps

LEMMA StoppingKeeps ==
  ASSUME DeployInv, NEW p \in Deployers,
         InspectToStop(p) \/ StopContainer(p) \/ RemoveContainer(p)
  PROVE  DeployInv'
<1> USE DEF Locked, Deploying, Stopping
<1>1. CASE InspectToStop(p)
  <2>1. /\ deployAt[p] = "inspect" /\ document' = [document EXCEPT ![p] = record]
        /\ UNCHANGED <<order, record, configs, container, created>>
        /\ \/ deployAt' = [deployAt EXCEPT ![p] = "halt"] /\ deployLock' = deployLock
           \/ /\ deployAt' = [deployAt EXCEPT ![p] = "raised"]
              /\ deployLock' = IF deployLock = p THEN "nobody" ELSE deployLock
    BY <1>1 DEF InspectToStop, DeployAt, EndDeploy, deployWorld, Nobody
  <2>2. deployLock = p /\ document'[p] = record
    BY <2>1, OnlyOneWorks DEF DeployInv, DeployTypeOK
  <2>3. PICK to \in {"halt", "raised"} :
          /\ deployAt' = [deployAt EXCEPT ![p] = to] /\ deployAt'[p] = to
          /\ deployLock' = IF to \in Locked THEN p ELSE "nobody"
    BY <2>1, <2>2 DEF DeployInv, DeployTypeOK
  <2>4. DeployTypeOK' /\ Knows(p)' /\ RecordsHold'
    BY <2>1, <2>2, <2>3
    DEF DeployInv, DeployTypeOK, DeployEnds, Knows, RecordsHold, EveryContainerIsStoppable,
        ReadyRecordsHold, Matches
  <2> QED BY <2>1, <2>3, <2>4, WorkerKeeps
<1>2. CASE StopContainer(p)
  <2>1. /\ deployAt[p] = "halt" /\ deployAt' = [deployAt EXCEPT ![p] = "remove"]
        /\ container' = [container EXCEPT !.running = FALSE, !.healthy = FALSE]
        /\ UNCHANGED <<order, document, deployLock, record, configs, created>>
    BY <1>2 DEF StopContainer, DeployAt
  <2>2. /\ deployLock = p /\ document[p] = record /\ container \in Containers
    BY <2>1, OnlyOneWorks DEF DeployInv, DeployTypeOK, Knows
  <2>3. /\ container' \in Containers
        /\ container'.id = container.id /\ container'.config = container.config
    BY <2>1, <2>2 DEF Containers
  <2>4. DeployTypeOK' /\ Knows(p)' /\ RecordsHold'
    BY <2>1, <2>2, <2>3
    DEF DeployInv, DeployTypeOK, Knows, RecordsHold, EveryContainerIsStoppable, ReadyRecordsHold,
        Matches
  <2> QED BY <2>1, <2>2, <2>4, WorkerKeeps
<1>3. CASE RemoveContainer(p)
  <2>1. /\ deployAt[p] = "remove" /\ deployAt' = [deployAt EXCEPT ![p] = "stopped"]
        /\ container' = NoContainer
        /\ UNCHANGED <<order, document, deployLock, record, configs, created>>
    BY <1>3 DEF RemoveContainer, DeployAt
  <2>2. deployLock = p /\ document[p] = record
    BY <2>1, OnlyOneWorks DEF DeployInv, Knows
  <2>3. container' \in Containers /\ container'.id = 0
    BY <2>1 DEF NoContainer, Containers, Configs
  <2>4. DeployTypeOK' /\ Knows(p)' /\ RecordsHold'
    BY <2>1, <2>2, <2>3
    DEF DeployInv, DeployTypeOK, Knows, RecordsHold, EveryContainerIsStoppable, ReadyRecordsHold
  <2> QED BY <2>1, <2>2, <2>4, WorkerKeeps
<1> QED BY <1>1, <1>2, <1>3

LEMMA VerifyingKeeps ==
  ASSUME DeployInv, NEW p \in Deployers, VerifyContainer(p) \/ VerifyBundle(p) \/ VerifyHealth(p)
  PROVE  DeployInv'
<1>1. PICK to \in {"bundle", "health", "done", "raised"} :
        /\ deployAt[p] \in Checking /\ deployAt' = [deployAt EXCEPT ![p] = to]
        /\ UNCHANGED <<order, document, deployLock, deployWorld>>
  BY DEF VerifyContainer, VerifyBundle, VerifyHealth, Checking
<1>2. order' \in [Deployers -> Configs] /\ document' \in [Deployers -> Records]
  BY <1>1 DEF DeployInv, DeployTypeOK
<1> QED BY <1>1, <1>2, OutsideKeeps DEF Locked, Deploying, Stopping, Checking, DeployEnds

(* The container's process: neither its identity nor its configuration.      *)
LEMMA ContainerKeeps ==
  ASSUME DeployInv, ServiceAnswers \/ ServiceExits
  PROVE  DeployInv'
<1>1. container \in Containers
  BY DEF DeployInv, DeployTypeOK
<1>2. /\ container' \in Containers
      /\ container'.id = container.id /\ container'.config = container.config
      /\ UNCHANGED <<deployAt, order, document, deployLock, record, configs, created>>
  BY <1>1 DEF ServiceAnswers, ServiceExits, Containers
<1>3. DeployTypeOK' /\ LockIsHeld' /\ RecordsHold'
  BY <1>2 DEF DeployInv, DeployTypeOK, LockIsHeld, RecordsHold, EveryContainerIsStoppable,
              ReadyRecordsHold, Matches
<1>4. \A q \in Deployers : Knows(q)'
  BY <1>2 DEF DeployInv, Knows
<1> QED BY <1>3, <1>4 DEF DeployInv

(* A command that is struck gives up the lock, or goes on with the cleanup.  *)
LEMMA StrikingKeeps ==
  ASSUME DeployInv, NEW p \in Deployers, DeployRaises(p) \/ KillDeployer(p)
  PROVE  DeployInv'
<1>1. order' \in [Deployers -> Configs] /\ document' \in [Deployers -> Records]
      /\ UNCHANGED <<order, document, deployWorld>>
  BY DEF DeployRaises, KillDeployer, DeployInv, DeployTypeOK
<1>2. CASE \E to \in {"raised", "dead"} : EndDeploy(p, to)
  <2>1. PICK to \in {"raised", "dead"} : EndDeploy(p, to)
    BY <1>2
  <2>2. /\ deployAt' = [deployAt EXCEPT ![p] = to]
        /\ deployLock' = IF deployLock = p THEN "nobody" ELSE deployLock
    BY <2>1 DEF EndDeploy, Nobody
  <2>3. deployAt[p] \in Locked => deployLock = p
    BY DEF DeployInv, LockIsHeld
  <2> QED BY <1>1, <2>2, <2>3, OutsideKeeps DEF DeployEnds, Locked, Deploying, Stopping
<1>3. CASE /\ deployAt[p] \in {"run", "wait", "ready"}
           /\ deployAt' = [deployAt EXCEPT ![p] = IF @ = "run" THEN "failed" ELSE "cleanup"]
           /\ UNCHANGED deployLock
  <2>1. PICK to \in {"failed", "cleanup"} :
          /\ deployAt' = [deployAt EXCEPT ![p] = to] /\ deployAt'[p] = to
    BY <1>3 DEF DeployInv, DeployTypeOK
  <2>2. deployLock = p
    BY <1>3, OnlyOneWorks DEF Locked, Deploying
  <2>3. DeployTypeOK' /\ RecordsHold'
    BY <1>1, <2>1
    DEF DeployInv, DeployTypeOK, RecordsHold, EveryContainerIsStoppable, ReadyRecordsHold,
        Matches, deployWorld, Locked, Deploying
  <2>4. Knows(p)'
    BY <1>1, <1>3, <2>1 DEF DeployInv, Knows, deployWorld, Deploying
  <2> QED BY <1>3, <2>1, <2>2, <2>3, <2>4, WorkerKeeps DEF Locked, Deploying
<1> QED BY <1>2, <1>3 DEF DeployRaises, KillDeployer

LEMMA DeployInvKept == DeployInv /\ [DeployNext]_deployVars => DeployInv'
<1> SUFFICES ASSUME DeployInv, [DeployNext]_deployVars PROVE DeployInv'
  OBVIOUS
<1>1. CASE UNCHANGED deployVars
  BY <1>1
  DEF deployVars, DeployInv, DeployTypeOK, LockIsHeld, Knows, RecordsHold,
      EveryContainerIsStoppable, ReadyRecordsHold, Matches
<1>2. CASE DeployNext
  <2>1. ASSUME NEW p \in Deployers, DeployStep(p) PROVE DeployInv'
    BY <2>1, PreparingKeeps, RunningKeeps, WaitingKeeps, FinishingKeeps, StoppingKeeps,
       VerifyingKeeps DEF DeployStep
  <2> QED BY <1>2, <2>1, BeginningKeeps, ContainerKeeps, StrikingKeeps DEF DeployNext
<1> QED BY <1>1, <1>2

\* Whatever raises, dies or is killed between docker and the record, a container
\* that is left is one `stop` accepts, with the configs it was started with; a
\* record is ready only of the container that was (model_deployment.py).
THEOREM RecordsAlwaysHold == DeploySpec => []RecordsHold
<1>1. DeployInv => RecordsHold
  BY DEF DeployInv
<1> QED BY <1>1, DeployInvInitially, DeployInvKept, PTL DEF DeploySpec

-----------------------------------------------------------------------------
(* Compose deployments over one runs directory, for every number of          *)
(* commands, runs and faults.                                                *)

Reporting == {"report", "completed", "raised", "dead"}

ComposeTypeOK ==
  /\ composeAt \in [Deployments -> {"prepare", "before", "up", "status", "down", "after", "report"}
                                     \union ComposeEnds]
  /\ project \in [Deployments -> {"none", "up", "exited"}]
  /\ snapshot \in [Deployments -> SUBSET Nat]
  /\ exitCodes \in [Deployments -> [up : BOOLEAN, status : BOOLEAN]]
  /\ struckBy \in [Deployments -> SUBSET {"benchmark", "down", "error", "kill"}]
  /\ DOMAIN reportedRun = Deployments

\* Run directories are numbered as they appear, each command makes at most one.
RunsAreCounted ==
  /\ IsFiniteSet(runsRoot)
  /\ runsRoot \subseteq [id : Nat, by : Deployments \union {"direct"}, complete : BOOLEAN]
  /\ \A r \in runsRoot : r.id <= Cardinality(runsRoot)
  /\ \A r, s \in runsRoot : r.by = s.by /\ r.by \in Deployments => r = s

\* What a command saw was there before its own run.
OwnRunIsNew(p) ==
  /\ \A i \in snapshot[p] : i <= Cardinality(runsRoot)
  /\ \A r \in runsRoot : r.by = p =>
       /\ composeAt[p] \notin {"prepare", "before"}
       /\ r.id \notin snapshot[p]

OwnRunComplete(p) == \E r \in runsRoot : r.by = p /\ r.complete

\* Nothing struck a command that looks after its benchmark: its own run is
\* complete and its services are down.
Accounted(p) ==
  /\ struckBy[p] = {} => exitCodes[p] = Good
  /\ struckBy[p] = {} /\ (project[p] = "exited"
                            \/ composeAt[p] \in {"status", "down", "after", "report", "completed", "raised"})
       => OwnRunComplete(p)
  /\ composeAt[p] \in {"after", "report", "completed"} => struckBy[p] = {}
  /\ composeAt[p] \in {"prepare", "before", "after", "report", "completed"} => project[p] = "none"
  /\ composeAt[p] = "status" => project[p] = "exited"
  /\ reportedRun[p] # {} => composeAt[p] \in Reporting /\ project[p] = "none"

\* What the property says of one command.
Explained(p) ==
  /\ reportedRun[p] # {} => reportedRun[p] = RunsOf(p) /\ \A r \in reportedRun[p] : r.complete
  /\ composeAt[p] \in {"completed", "raised"} /\ "down" \notin struckBy[p] => project[p] = "none"
  /\ composeAt[p] = "raised" /\ struckBy[p] = {} =>
       \E r \in runsRoot : r.by # p /\ r.id \notin snapshot[p]

ComposeInv ==
  /\ ComposeTypeOK
  /\ RunsAreCounted
  /\ \A p \in Deployments : OwnRunIsNew(p) /\ Accounted(p) /\ Explained(p)

LEMMA ComposeInvInitially == ComposeInit => ComposeInv
<1> SUFFICES ASSUME ComposeInit PROVE ComposeInv
  OBVIOUS
<1>1. ComposeTypeOK
  BY DEF ComposeInit, ComposeTypeOK, ComposeEnds, Good
<1>2. RunsAreCounted
  BY FS_EmptySet DEF ComposeInit, RunsAreCounted
<1>3. \A p \in Deployments : OwnRunIsNew(p) /\ Accounted(p) /\ Explained(p)
  BY DEF ComposeInit, OwnRunIsNew, Accounted, Explained, Good
<1> QED BY <1>1, <1>2, <1>3 DEF ComposeInv

(* What the runs directory keeps while a step adds to it or completes a run: *)
(* every run stays, under its number, and the numbers never fall.            *)
RunsStay ==
  /\ RunsAreCounted'
  /\ Cardinality(runsRoot) <= Cardinality(runsRoot')
  /\ \A r \in runsRoot : \E s \in runsRoot' :
       s.id = r.id /\ s.by = r.by /\ (r.complete => s.complete)

LEMMA RunAdded ==
  ASSUME ComposeInv, NEW by \in Deployments \union {"direct"},
         by \in Deployments => RunsOf(by) = {},
         runsRoot' = runsRoot \union {[id |-> Cardinality(runsRoot) + 1, by |-> by, complete |-> FALSE]}
  PROVE  /\ RunsStay
         /\ \A q \in Deployments \ {by} : RunsOf(q)' = RunsOf(q)
         /\ \A s \in runsRoot' \ runsRoot :
              s.by = by /\ s.id = Cardinality(runsRoot) + 1 /\ ~s.complete
<1> DEFINE new == [id |-> Cardinality(runsRoot) + 1, by |-> by, complete |-> FALSE]
<1>1. IsFiniteSet(runsRoot) /\ Cardinality(runsRoot) \in Nat
  BY FS_CardinalityType DEF ComposeInv, RunsAreCounted
<1>2. /\ new \in [id : Nat, by : Deployments \union {"direct"}, complete : BOOLEAN]
      /\ new.id = Cardinality(runsRoot) + 1 /\ new.by = by /\ ~new.complete
  BY <1>1
<1> PICK n : n = new
  OBVIOUS
<1>3. /\ n \in [id : Nat, by : Deployments \union {"direct"}, complete : BOOLEAN]
      /\ n.id = Cardinality(runsRoot) + 1 /\ n.by = by /\ ~n.complete
      /\ runsRoot' = runsRoot \union {n}
  BY <1>2
<1> HIDE DEF new
<1>4. n \notin runsRoot
  BY <1>1, <1>3 DEF ComposeInv, RunsAreCounted
<1>5. IsFiniteSet(runsRoot') /\ Cardinality(runsRoot') = Cardinality(runsRoot) + 1
  BY <1>1, <1>3, <1>4, FS_AddElement
<1>6. \A r, s \in runsRoot' : r.by = s.by /\ r.by \in Deployments => r = s
  BY <1>3 DEF ComposeInv, RunsAreCounted, RunsOf
<1>7. \A r \in runsRoot' : r.id <= Cardinality(runsRoot')
  BY <1>1, <1>3, <1>5 DEF ComposeInv, RunsAreCounted
<1>8. RunsAreCounted'
  BY <1>3, <1>5, <1>6, <1>7 DEF ComposeInv, RunsAreCounted
<1>9. RunsStay
  BY <1>1, <1>3, <1>5, <1>8 DEF RunsStay
<1>10. \A q \in Deployments \ {by} : RunsOf(q)' = RunsOf(q)
  BY <1>3 DEF RunsOf
<1> QED BY <1>3, <1>9, <1>10

LEMMA RunCompleted ==
  ASSUME ComposeInv, NEW p \in Deployments, RunsOf(p) # {},
         runsRoot' = {IF r.by = p THEN [r EXCEPT !.complete = TRUE] ELSE r : r \in runsRoot}
  PROVE  /\ RunsStay
         /\ \A q \in Deployments \ {p} : RunsOf(q)' = RunsOf(q)
         /\ \A s \in runsRoot' : s.by = p => s.complete /\ \E r \in runsRoot : r.by = p /\ r.id = s.id
         /\ OwnRunComplete(p)'
<1>1. PICK r \in runsRoot : r.by = p
  BY DEF RunsOf
<1> PICK n : n = [r EXCEPT !.complete = TRUE]
  OBVIOUS
<1>2. /\ r \in [id : Nat, by : Deployments \union {"direct"}, complete : BOOLEAN]
      /\ \A s \in runsRoot : s.by = p => s = r
  BY <1>1 DEF ComposeInv, RunsAreCounted
<1>3. /\ n \in [id : Nat, by : Deployments \union {"direct"}, complete : BOOLEAN]
      /\ n.id = r.id /\ n.by = p /\ n.complete
  BY <1>1, <1>2
<1>4. runsRoot' = (runsRoot \ {r}) \union {n}
  <2>1. \A s \in runsRoot : s.by = p <=> s = r
    BY <1>1, <1>2
  <2>2. runsRoot' = {IF s = r THEN n ELSE s : s \in runsRoot}
    BY <2>1
  <2> QED BY <1>1, <2>2
<1>5. n \notin runsRoot \ {r}
  BY <1>2, <1>3
<1>6. /\ IsFiniteSet(runsRoot) /\ Cardinality(runsRoot) \in Nat
      /\ IsFiniteSet(runsRoot') /\ Cardinality(runsRoot') = Cardinality(runsRoot)
  <2>1. IsFiniteSet(runsRoot) /\ Cardinality(runsRoot) \in Nat
    BY FS_CardinalityType DEF ComposeInv, RunsAreCounted
  <2> PICK rest : rest = runsRoot \ {r}
    OBVIOUS
  <2> PICK later : later = rest \union {n}
    OBVIOUS
  <2>2. IsFiniteSet(rest) /\ Cardinality(rest) = Cardinality(runsRoot) - 1
    BY <1>1, <2>1, FS_RemoveElement
  <2>3. IsFiniteSet(later) /\ Cardinality(later) = Cardinality(rest) + 1
    BY <1>5, <2>2, FS_AddElement
  <2>4. runsRoot' = later
    BY <1>4
  <2>5. Cardinality(later) = Cardinality(runsRoot)
    <3> DEFINE before == Cardinality(runsRoot)
               fewer == Cardinality(rest)
               after == Cardinality(later)
    <3>1. before \in Nat /\ fewer = before - 1 /\ after = fewer + 1
      BY <2>1, <2>2, <2>3
    <3> HIDE DEF before, fewer, after
    <3>2. after = before
      BY <3>1
    <3> QED BY <3>2 DEF before, after
  <2> QED BY <2>1, <2>3, <2>4, <2>5
<1>7. \A x, y \in runsRoot' : x.by = y.by /\ x.by \in Deployments => x = y
  BY <1>1, <1>2, <1>3, <1>4 DEF ComposeInv, RunsAreCounted
<1>8. \A x \in runsRoot' : x.id <= Cardinality(runsRoot')
  BY <1>1, <1>3, <1>4, <1>6 DEF ComposeInv, RunsAreCounted
<1>9. RunsAreCounted'
  BY <1>3, <1>4, <1>6, <1>7, <1>8 DEF ComposeInv, RunsAreCounted
<1>10. RunsStay
  <2>1. \A x \in runsRoot : \E s \in runsRoot' :
           s.id = x.id /\ s.by = x.by /\ (x.complete => s.complete)
    BY <1>1, <1>3, <1>4
  <2>2. Cardinality(runsRoot) <= Cardinality(runsRoot')
    BY <1>6
  <2> QED BY <1>9, <2>1, <2>2 DEF RunsStay
<1>11. \A q \in Deployments \ {p} : RunsOf(q)' = RunsOf(q)
  BY <1>1, <1>3, <1>4 DEF RunsOf
<1>12. \A s \in runsRoot' : s.by = p => s = n
  BY <1>2, <1>4
<1>13. OwnRunComplete(p)'
  BY <1>3, <1>4 DEF OwnRunComplete
<1> QED BY <1>1, <1>3, <1>10, <1>11, <1>12, <1>13

LEMMA RunsUnchanged ==
  ASSUME ComposeInv, UNCHANGED runsRoot
  PROVE  RunsStay /\ \A q : RunsOf(q)' = RunsOf(q) /\ OwnRunComplete(q)' = OwnRunComplete(q)
<1>1. IsFiniteSet(runsRoot) /\ Cardinality(runsRoot) \in Nat
  BY FS_CardinalityType DEF ComposeInv, RunsAreCounted
<1>2. RunsAreCounted'
  BY DEF ComposeInv, RunsAreCounted
<1>3. RunsStay
  BY <1>1, <1>2 DEF RunsStay
<1> QED BY <1>3 DEF RunsOf, OwnRunComplete

(* What a step of another command, or a run from elsewhere, leaves true of a *)
(* command that stands still.                                                *)
LEMMA DeploymentStandsStill ==
  ASSUME ComposeInv, RunsStay, NEW q \in Deployments, RunsOf(q)' = RunsOf(q),
         composeAt'[q] = composeAt[q], project'[q] = project[q], snapshot'[q] = snapshot[q],
         exitCodes'[q] = exitCodes[q], struckBy'[q] = struckBy[q],
         reportedRun'[q] = reportedRun[q]
  PROVE  OwnRunIsNew(q)' /\ Accounted(q)' /\ Explained(q)'
<1>1. Cardinality(runsRoot) \in Nat /\ Cardinality(runsRoot') \in Nat
  BY FS_CardinalityType DEF ComposeInv, RunsStay, RunsAreCounted
<1>2. OwnRunIsNew(q) /\ Accounted(q) /\ Explained(q) /\ snapshot[q] \subseteq Nat
  BY DEF ComposeInv, ComposeTypeOK
<1>3. OwnRunIsNew(q)'
  <2>1. \A i \in snapshot'[q] : i <= Cardinality(runsRoot')
    BY <1>1, <1>2 DEF OwnRunIsNew, RunsStay
  <2>2. \A r \in runsRoot' : r.by = q => r \in runsRoot
    BY DEF RunsOf
  <2> QED BY <1>2, <2>1, <2>2 DEF OwnRunIsNew
<1>4. OwnRunComplete(q) => OwnRunComplete(q)'
  BY DEF OwnRunComplete, RunsStay
<1>5. Accounted(q)'
  BY <1>2, <1>4 DEF Accounted
<1>6. Explained(q)'
  BY <1>2 DEF Explained, RunsStay
<1> QED BY <1>3, <1>5, <1>6

(* A step of one command moves no other and keeps to the types.              *)
LEMMA ComposeStepIsTyped ==
  ASSUME ComposeInv, NEW p \in Deployments, ComposeStep(p) \/ ComposeFails(p) \/ KillDeployment(p)
  PROVE  /\ ComposeTypeOK'
         /\ \A q \in Deployments \ {p} :
              /\ composeAt'[q] = composeAt[q] /\ project'[q] = project[q]
              /\ snapshot'[q] = snapshot[q] /\ exitCodes'[q] = exitCodes[q]
              /\ struckBy'[q] = struckBy[q] /\ reportedRun'[q] = reportedRun[q]
<1> USE DEF ComposeAt, ComposeEnds
<1>1. ComposeTypeOK /\ Ids \subseteq Nat
  BY DEF ComposeInv, RunsAreCounted, Ids
<1>2. CASE PrepareDeployment(p) \/ ComposeUp(p) \/ UpReturns(p) \/ ReadStatus(p) \/ Postprocess(p)
  BY <1>1, <1>2
  DEF ComposeTypeOK, PrepareDeployment, ComposeUp, UpReturns, ReadStatus, Postprocess
<1>3. CASE LookBefore(p)
  BY <1>1, <1>3 DEF ComposeTypeOK, LookBefore
<1>4. CASE BenchmarkCreatesRun(p)
  BY <1>1, <1>4 DEF ComposeTypeOK, BenchmarkCreatesRun
<1>5. CASE BenchmarkExits(p)
  <2>1. /\ exitCodes' \in [Deployments -> [up : BOOLEAN, status : BOOLEAN]]
        /\ \A q \in Deployments \ {p} : exitCodes'[q] = exitCodes[q]
    <3>1. exitCodes \in [Deployments -> [up : BOOLEAN, status : BOOLEAN]]
      BY <1>1 DEF ComposeTypeOK
    <3> PICK e : e = [exitCodes[p] EXCEPT !.up = FALSE]
      OBVIOUS
    <3>2. e \in [up : BOOLEAN, status : BOOLEAN]
      BY <3>1
    <3>3. exitCodes' = exitCodes \/ exitCodes' = [exitCodes EXCEPT ![p] = e]
      BY <1>5, <3>1 DEF BenchmarkExits
    <3> QED BY <3>1, <3>2, <3>3
  <2>2. /\ UNCHANGED <<composeAt, snapshot, reportedRun>>
        /\ project' = [project EXCEPT ![p] = "exited"]
        /\ struckBy' \in {struckBy, [struckBy EXCEPT ![p] = @ \union {"benchmark"}]}
    BY <1>5 DEF BenchmarkExits
  <2> QED BY <1>1, <2>1, <2>2 DEF ComposeTypeOK
<1>6. CASE ComposeDown(p)
  BY <1>1, <1>6 DEF ComposeTypeOK, ComposeDown
<1>7. CASE LookAfter(p)
  BY <1>1, <1>7 DEF ComposeTypeOK, LookAfter
<1>8. CASE ComposeFails(p)
  BY <1>1, <1>8 DEF ComposeTypeOK, ComposeFails, AfterFailure
<1>9. CASE KillDeployment(p)
  BY <1>1, <1>9 DEF ComposeTypeOK, KillDeployment
<1> QED BY <1>2, <1>3, <1>4, <1>5, <1>6, <1>7, <1>8, <1>9 DEF ComposeStep

(* One lemma for each kind of step says what it leaves true of the command   *)
(* that takes it.                                                            *)
LEMMA LookingKeeps ==
  ASSUME ComposeInv, NEW p \in Deployments, PrepareDeployment(p) \/ LookBefore(p)
  PROVE  OwnRunIsNew(p)' /\ Accounted(p)' /\ Explained(p)'
<1>1. ComposeTypeOK /\ RunsAreCounted /\ OwnRunIsNew(p) /\ Accounted(p) /\ Explained(p)
  BY DEF ComposeInv
<1>2. CASE PrepareDeployment(p)
  BY <1>1, <1>2
  DEF PrepareDeployment, ComposeAt, ComposeTypeOK, OwnRunIsNew, Accounted, Explained, OwnRunComplete,
      RunsOf, Reporting
<1>3. CASE LookBefore(p)
  <2>1. /\ composeAt[p] = "before" /\ composeAt'[p] = "up" /\ snapshot'[p] = Ids
        /\ UNCHANGED <<project, exitCodes, runsRoot, reportedRun, struckBy>>
    BY <1>1, <1>3 DEF LookBefore, ComposeAt, ComposeTypeOK
  <2>2. \A i \in snapshot'[p] : i <= Cardinality(runsRoot')
    BY <1>1, <2>1 DEF Ids, RunsAreCounted
  <2>3. OwnRunIsNew(p)'
    BY <1>1, <2>1, <2>2 DEF OwnRunIsNew
  <2>4. Accounted(p)' /\ Explained(p)'
    BY <1>1, <2>1 DEF Accounted, Explained, OwnRunComplete, RunsOf, Reporting
  <2> QED BY <2>3, <2>4
<1> QED BY <1>2, <1>3

LEMMA UpAndStatusKeep ==
  ASSUME ComposeInv, NEW p \in Deployments, ComposeUp(p) \/ UpReturns(p) \/ ReadStatus(p)
  PROVE  OwnRunIsNew(p)' /\ Accounted(p)' /\ Explained(p)'
<1>1. ComposeTypeOK /\ RunsAreCounted /\ OwnRunIsNew(p) /\ Accounted(p) /\ Explained(p)
  BY DEF ComposeInv
<1>2. /\ UNCHANGED <<snapshot, exitCodes, runsRoot, reportedRun, struckBy>>
      /\ composeAt[p] \in {"up", "status"} /\ composeAt'[p] \in {"up", "status", "down"}
      /\ composeAt'[p] = "up" => composeAt[p] = "up" /\ project'[p] = "up"
      /\ composeAt'[p] # "up" => project'[p] = project[p]
      /\ composeAt'[p] = "status" => project[p] = "exited"
      /\ composeAt'[p] = "down" => composeAt[p] = "status"
  BY <1>1 DEF ComposeUp, UpReturns, ReadStatus, ComposeAt, ComposeTypeOK
<1>3. OwnRunIsNew(p)'
  BY <1>1, <1>2 DEF OwnRunIsNew
<1>4. reportedRun[p] = {}
  BY <1>1, <1>2 DEF Accounted, Reporting
<1>5. Accounted(p)' /\ Explained(p)'
  BY <1>1, <1>2, <1>4 DEF Accounted, Explained, OwnRunComplete
<1> QED BY <1>3, <1>5

LEMMA BenchmarkKeeps ==
  ASSUME ComposeInv, NEW p \in Deployments, BenchmarkCreatesRun(p) \/ BenchmarkExits(p)
  PROVE  /\ OwnRunIsNew(p)' /\ Accounted(p)' /\ Explained(p)'
         /\ RunsStay /\ \A q \in Deployments \ {p} : RunsOf(q)' = RunsOf(q)
<1>1. /\ ComposeTypeOK /\ RunsAreCounted /\ OwnRunIsNew(p) /\ Accounted(p) /\ Explained(p)
      /\ Cardinality(runsRoot) \in Nat
  BY FS_CardinalityType DEF ComposeInv, RunsAreCounted
<1>2. /\ project[p] = "up" /\ UNCHANGED <<composeAt, snapshot, reportedRun>>
      /\ reportedRun[p] = {}
      /\ composeAt[p] \notin {"prepare", "before", "status", "after", "report", "completed"}
  BY <1>1 DEF BenchmarkCreatesRun, BenchmarkExits, Accounted
<1>3. CASE BenchmarkCreatesRun(p)
  <2>1. /\ RunsStay /\ \A q \in Deployments \ {p} : RunsOf(q)' = RunsOf(q)
        /\ \A s \in runsRoot' \ runsRoot : s.by = p /\ s.id = Cardinality(runsRoot) + 1
    BY <1>3, RunAdded DEF BenchmarkCreatesRun
  <2>2. RunsOf(p) = {} /\ UNCHANGED <<project, exitCodes, struckBy>>
    BY <1>3 DEF BenchmarkCreatesRun
  <2>3. Cardinality(runsRoot) <= Cardinality(runsRoot') /\ Cardinality(runsRoot') \in Nat
    BY <2>1, FS_CardinalityType DEF RunsStay, RunsAreCounted
  <2>4. snapshot[p] \subseteq Nat
    BY <1>1 DEF ComposeTypeOK
  <2>5. \A i \in snapshot'[p] : i <= Cardinality(runsRoot')
    BY <1>1, <1>2, <2>3, <2>4 DEF OwnRunIsNew
  <2>6. \A r \in runsRoot' : r.by = p => r.id \notin snapshot'[p]
    BY <1>1, <1>2, <2>1, <2>2, <2>4 DEF OwnRunIsNew, RunsOf
  <2>7. OwnRunIsNew(p)'
    BY <1>2, <2>5, <2>6 DEF OwnRunIsNew
  <2>8. ~OwnRunComplete(p)
    BY <2>2 DEF OwnRunComplete, RunsOf
  <2>9. Accounted(p)' /\ Explained(p)'
    BY <1>1, <1>2, <2>1, <2>2, <2>8 DEF Accounted, Explained, RunsStay
  <2> QED BY <2>1, <2>7, <2>9
<1>4. CASE BenchmarkExits(p)
  <2>1. /\ project'[p] = "exited"
        /\ \/ /\ RunsOf(p) # {}
              /\ runsRoot' = {IF r.by = p THEN [r EXCEPT !.complete = TRUE] ELSE r : r \in runsRoot}
              /\ UNCHANGED <<exitCodes, struckBy>>
           \/ /\ struckBy'[p] = struckBy[p] \union {"benchmark"}
              /\ UNCHANGED runsRoot
    BY <1>1, <1>4 DEF BenchmarkExits, ComposeTypeOK
  <2>2. CASE /\ RunsOf(p) # {}
             /\ runsRoot' = {IF r.by = p THEN [r EXCEPT !.complete = TRUE] ELSE r : r \in runsRoot}
             /\ UNCHANGED <<exitCodes, struckBy>>
    <3>1. /\ RunsStay /\ \A q \in Deployments \ {p} : RunsOf(q)' = RunsOf(q)
          /\ \A s \in runsRoot' : s.by = p => \E r \in runsRoot : r.by = p /\ r.id = s.id
          /\ OwnRunComplete(p)'
      BY <2>2, RunCompleted
    <3>2. Cardinality(runsRoot') \in Nat /\ snapshot[p] \subseteq Nat
      BY <1>1, <3>1, FS_CardinalityType DEF RunsStay, RunsAreCounted, ComposeTypeOK
    <3>3. OwnRunIsNew(p)'
      BY <1>1, <1>2, <3>1, <3>2 DEF OwnRunIsNew, RunsStay
    <3>4. Accounted(p)'
      BY <1>1, <1>2, <2>1, <2>2, <3>1 DEF Accounted
    <3>5. Explained(p)'
      BY <1>1, <1>2, <2>1, <2>2, <3>1 DEF Explained, RunsStay
    <3> QED BY <3>1, <3>3, <3>4, <3>5
  <2>3. CASE struckBy'[p] = struckBy[p] \union {"benchmark"} /\ UNCHANGED runsRoot
    <3>1. RunsStay /\ \A q \in Deployments \ {p} : RunsOf(q)' = RunsOf(q)
      BY <2>3, RunsUnchanged
    <3>2. OwnRunIsNew(p)'
      BY <1>1, <1>2, <2>3 DEF OwnRunIsNew
    <3>3. Accounted(p)' /\ Explained(p)'
      BY <1>1, <1>2, <2>1, <2>3 DEF Accounted, Explained
    <3> QED BY <3>1, <3>2, <3>3
  <2> QED BY <2>1, <2>2, <2>3
<1> QED BY <1>3, <1>4

LEMMA TakingDownKeeps ==
  ASSUME ComposeInv, NEW p \in Deployments, ComposeDown(p) \/ Postprocess(p)
  PROVE  OwnRunIsNew(p)' /\ Accounted(p)' /\ Explained(p)'
<1>1. ComposeTypeOK /\ RunsAreCounted /\ OwnRunIsNew(p) /\ Accounted(p) /\ Explained(p)
  BY DEF ComposeInv
<1>2. UNCHANGED <<snapshot, exitCodes, runsRoot, reportedRun, struckBy>>
  BY DEF ComposeDown, Postprocess
<1>3. CASE ComposeDown(p)
  <2>1. /\ composeAt[p] = "down" /\ project'[p] = "none"
        /\ \/ composeAt'[p] = "after" /\ struckBy[p] = {}
           \/ composeAt'[p] = "raised" /\ struckBy[p] # {}
    BY <1>1, <1>3 DEF ComposeDown, ComposeTypeOK, Accounted
  <2>2. reportedRun[p] = {}
    BY <1>1, <2>1 DEF Accounted, Reporting
  <2>3. OwnRunIsNew(p)'
    BY <1>1, <1>2, <2>1 DEF OwnRunIsNew
  <2>4. Accounted(p)' /\ Explained(p)'
    BY <1>1, <1>2, <2>1, <2>2 DEF Accounted, Explained, OwnRunComplete
  <2> QED BY <2>3, <2>4
<1>4. CASE Postprocess(p)
  <2>1. composeAt[p] = "report" /\ composeAt'[p] = "completed" /\ project' = project
    BY <1>1, <1>4 DEF Postprocess, ComposeAt, ComposeTypeOK
  <2>2. OwnRunIsNew(p)'
    BY <1>1, <1>2, <2>1 DEF OwnRunIsNew
  <2>3. Accounted(p)' /\ Explained(p)'
    BY <1>1, <1>2, <2>1 DEF Accounted, Explained, OwnRunComplete, Reporting, RunsOf
  <2> QED BY <2>2, <2>3
<1> QED BY <1>3, <1>4

(* After its benchmark completed, what appeared holds the command's own run: *)
(* if it is one run it is this one, otherwise another appeared as well.      *)
LEMMA LookAfterKeeps ==
  ASSUME ComposeInv, NEW p \in Deployments, LookAfter(p)
  PROVE  OwnRunIsNew(p)' /\ Accounted(p)' /\ Explained(p)'
<1>1. ComposeTypeOK /\ RunsAreCounted /\ OwnRunIsNew(p) /\ Accounted(p) /\ Explained(p)
  BY DEF ComposeInv
<1>2. /\ composeAt[p] = "after" /\ struckBy[p] = {} /\ project[p] = "none"
      /\ composeAt'[p] = IF NewRun(p) = {} THEN "raised" ELSE "report"
      /\ reportedRun'[p] = NewRun(p)
      /\ UNCHANGED <<project, snapshot, exitCodes, runsRoot, struckBy>>
  BY <1>1 DEF LookAfter, ComposeTypeOK, Accounted
<1>3. PICK own \in runsRoot : own.by = p /\ own.complete
  BY <1>1, <1>2 DEF Accounted, OwnRunComplete
<1>4. own \in Appeared(p) /\ RunsOf(p) = {own}
  BY <1>1, <1>3 DEF OwnRunIsNew, Appeared, RunsOf, RunsAreCounted
<1>5. Cardinality(Appeared(p)) = 1 <=> Appeared(p) = {own}
  <2> PICK mine : mine = Appeared(p)
    OBVIOUS
  <2>1. IsFiniteSet(mine)
    <3>1. mine \subseteq runsRoot
      BY DEF Appeared
    <3> QED BY <1>1, <3>1, FS_Subset DEF RunsAreCounted
  <2>2. Cardinality(mine) = 1 <=> \E x : mine = {x}
    BY <2>1, FS_Singleton
  <2>3. own \in mine
    BY <1>4
  <2> QED BY <2>2, <2>3
<1>6. NewRun(p) = {} \/ NewRun(p) = {own}
  BY <1>5 DEF NewRun
<1>7. NewRun(p) = {} => \E r \in runsRoot : r.by # p /\ r.id \notin snapshot[p]
  <2> SUFFICES ASSUME NewRun(p) = {} PROVE \E r \in runsRoot : r.by # p /\ r.id \notin snapshot[p]
    OBVIOUS
  <2>1. PICK r \in Appeared(p) : r # own
    BY <1>4, <1>5 DEF NewRun
  <2> QED BY <1>4, <2>1 DEF Appeared, RunsOf
<1>8. OwnRunIsNew(p)'
  BY <1>1, <1>2 DEF OwnRunIsNew
<1>9. Accounted(p)'
  BY <1>1, <1>2 DEF Accounted, OwnRunComplete, Reporting
<1>10. Explained(p)'
  <2>1. RunsOf(p)' = {own}
    BY <1>2, <1>4 DEF RunsOf
  <2>2. reportedRun'[p] # {} => reportedRun'[p] = RunsOf(p)' /\ \A r \in reportedRun'[p] : r.complete
    BY <1>2, <1>3, <1>6, <2>1
  <2> QED BY <1>2, <1>7, <2>2 DEF Explained
<1> QED BY <1>8, <1>9, <1>10

LEMMA ComposeFaultsKeep ==
  ASSUME ComposeInv, NEW p \in Deployments, ComposeFails(p) \/ KillDeployment(p)
  PROVE  OwnRunIsNew(p)' /\ Accounted(p)' /\ Explained(p)'
<1>1. ComposeTypeOK /\ RunsAreCounted /\ OwnRunIsNew(p) /\ Accounted(p) /\ Explained(p)
  BY DEF ComposeInv
<1>2. /\ UNCHANGED <<project, snapshot, runsRoot, reportedRun>>
      /\ struckBy'[p] # {} /\ composeAt[p] \notin ComposeEnds
  <2>1. UNCHANGED <<project, snapshot, runsRoot, reportedRun>> /\ composeAt[p] \notin ComposeEnds
    BY DEF ComposeFails, KillDeployment
  <2>2. \E why : struckBy' = [struckBy EXCEPT ![p] = @ \union {why}]
    BY DEF ComposeFails, KillDeployment
  <2>3. struckBy'[p] # {}
    BY <1>1, <2>2 DEF ComposeTypeOK
  <2> QED BY <2>1, <2>3
<1>3. /\ composeAt'[p] \in {"down", "raised", "dead"}
      /\ composeAt'[p] = "down" => composeAt[p] \in {"up", "status"}
      /\ composeAt'[p] = "raised" =>
           \/ composeAt[p] \in {"prepare", "before", "after", "report"}
           \/ composeAt[p] = "down" /\ "down" \in struckBy'[p]
  BY <1>1, <1>2 DEF ComposeFails, KillDeployment, AfterFailure, ComposeTypeOK, ComposeEnds
<1>4. OwnRunIsNew(p)'
  <2>1. composeAt'[p] \notin {"prepare", "before"}
    BY <1>3
  <2> QED BY <1>1, <1>2, <2>1 DEF OwnRunIsNew
<1>5. reportedRun[p] # {} => composeAt[p] \notin {"up", "status", "down"} /\ project[p] = "none"
  BY <1>1 DEF Accounted, Reporting
<1>6. Accounted(p)'
  BY <1>1, <1>2, <1>3, <1>5 DEF Accounted, Reporting
<1>7. Explained(p)'
  <2>1. reportedRun'[p] = reportedRun[p] /\ RunsOf(p)' = RunsOf(p)
    BY <1>2 DEF RunsOf
  <2>2. composeAt'[p] = "raised" /\ "down" \notin struckBy'[p] => project'[p] = "none"
    BY <1>1, <1>2, <1>3 DEF Accounted
  <2> QED BY <1>1, <1>2, <1>3, <2>1, <2>2 DEF Explained
<1> QED BY <1>4, <1>6, <1>7

LEMMA ComposeInvKept == ComposeInv /\ [ComposeNext]_composeVars => ComposeInv'
<1> SUFFICES ASSUME ComposeInv, [ComposeNext]_composeVars PROVE ComposeInv'
  OBVIOUS
<1>1. ASSUME NEW p \in Deployments, ComposeStep(p) \/ ComposeFails(p) \/ KillDeployment(p)
      PROVE  ComposeInv'
  <2>1. OwnRunIsNew(p)' /\ Accounted(p)' /\ Explained(p)'
    BY <1>1, LookingKeeps, UpAndStatusKeep, BenchmarkKeeps, TakingDownKeeps, LookAfterKeeps,
       ComposeFaultsKeep
    DEF ComposeStep
  <2>2. RunsStay /\ \A q \in Deployments \ {p} : RunsOf(q)' = RunsOf(q)
    <3>1. \/ BenchmarkCreatesRun(p) \/ BenchmarkExits(p)
          \/ UNCHANGED runsRoot
      BY <1>1
      DEF ComposeStep, PrepareDeployment, LookBefore, ComposeUp, UpReturns, ReadStatus,
          ComposeDown, LookAfter, Postprocess, ComposeFails, KillDeployment
    <3> QED BY <3>1, BenchmarkKeeps, RunsUnchanged
  <2>3. \A q \in Deployments \ {p} : OwnRunIsNew(q)' /\ Accounted(q)' /\ Explained(q)'
    BY <1>1, <2>2, ComposeStepIsTyped, DeploymentStandsStill
  <2>4. ComposeTypeOK'
    BY <1>1, ComposeStepIsTyped
  <2> QED BY <2>1, <2>2, <2>3, <2>4 DEF ComposeInv, RunsStay
<1>2. CASE ForeignRun
  <2>1. RunsStay /\ \A q \in Deployments : RunsOf(q)' = RunsOf(q)
    BY <1>2, RunAdded, ComposeAssumption DEF ForeignRun
  <2>2. UNCHANGED <<composeAt, project, snapshot, exitCodes, reportedRun, struckBy>>
    BY <1>2 DEF ForeignRun
  <2>3. \A q \in Deployments : OwnRunIsNew(q)' /\ Accounted(q)' /\ Explained(q)'
    BY <2>1, <2>2, DeploymentStandsStill
  <2>4. ComposeTypeOK'
    BY <2>2 DEF ComposeInv, ComposeTypeOK
  <2> QED BY <2>1, <2>3, <2>4 DEF ComposeInv, RunsStay
<1>3. CASE UNCHANGED composeVars
  <2>1. RunsStay /\ \A q \in Deployments : RunsOf(q)' = RunsOf(q)
    BY <1>3, RunsUnchanged DEF composeVars
  <2>2. \A q \in Deployments : OwnRunIsNew(q)' /\ Accounted(q)' /\ Explained(q)'
    BY <1>3, <2>1, DeploymentStandsStill DEF composeVars
  <2>3. ComposeTypeOK'
    BY <1>3 DEF ComposeInv, ComposeTypeOK, composeVars
  <2> QED BY <2>1, <2>2, <2>3 DEF ComposeInv, RunsStay
<1> QED BY <1>1, <1>2, <1>3 DEF ComposeNext

\* Whatever else appears in the runs directory and wherever a command fails, is
\* interrupted or killed: it reports on its own completed run only, leaves no
\* service of its project unless docker compose down itself failed, and fails
\* unprovoked only because another run appeared (deployment.py, ComposeDeployment.run).
THEOREM DeploymentsStayExplained == ComposeSpec => []DeploymentsAreExplained
<1>1. ComposeInv => DeploymentsAreExplained
  <2> SUFFICES ASSUME ComposeInv, NEW p \in Deployments
               PROVE  /\ Explained(p)
                      /\ composeAt[p] = "raised" /\ struckBy[p] = {} => OwnRunComplete(p)
    BY DEF Explained, OwnRunComplete, DeploymentsAreExplained, ReportsItsOwnRun,
           EndedDeploymentsExplained
  <2> QED BY DEF ComposeInv, Accounted
<1> QED BY <1>1, ComposeInvInitially, ComposeInvKept, PTL DEF ComposeSpec

-----------------------------------------------------------------------------
(* The exchange of observations and predictions, for every pair of           *)
(* declarations the constructors accept.                                     *)

Announcement == IF Remote THEN CapabilitiesOverWire(pol) ELSE pol

(* What a declaration's constructor guarantees: names that tell channels     *)
(* apart.                                                                    *)
LEMMA NamesAreCounted ==
  ASSUME NEW S, IsFiniteSet(S)
  PROVE  /\ IsFiniteSet(NamesOf(S)) /\ Cardinality(NamesOf(S)) <= Cardinality(S)
         /\ Cardinality(NamesOf(S)) = Cardinality(S) => \A a, b \in S : a.name = b.name => a = b
<1> PICK T : T = NamesOf(S)
  OBVIOUS
<1> PICK f : f = [c \in S |-> c.name]
  OBVIOUS
<1>1. f \in [S -> T] /\ \A t \in T : \E c \in S : f[c] = t
  BY DEF NamesOf
<1>2. f \in Surjection(S, T)
  BY <1>1 DEF Surjection
<1>3. IsFiniteSet(T) /\ Cardinality(T) <= Cardinality(S)
  BY <1>2, FS_Surjection
<1>4. Cardinality(T) = Cardinality(S) => f \in Injection(S, T)
  BY <1>2, FS_SurjSameCardinalityImpliesInj
<1>5. ASSUME f \in Injection(S, T), NEW a \in S, NEW b \in S, a.name = b.name PROVE a = b
  BY <1>5 DEF Injection, IsInjective
<1> QED BY <1>3, <1>4, <1>5

LEMMA ChannelsAreDistinct ==
  ASSUME NEW I, NEW V, WellFormedChannels(I, V)
  PROVE  /\ Cardinality(NamesOf(I)) = Cardinality(I) /\ Cardinality(NamesOf(V)) = Cardinality(V)
         /\ IsFiniteSet(NamesOf(I)) /\ IsFiniteSet(NamesOf(V))
         /\ \A a, b \in I : a.name = b.name => a = b
         /\ \A a, b \in V : a.name = b.name => a = b
<1>1. /\ IsFiniteSet(I) /\ IsFiniteSet(V)
      /\ Cardinality(NamesOf(I \union V)) = Cardinality(I) + Cardinality(V)
  BY DEF WellFormedChannels
<1>2. NamesOf(I \union V) = NamesOf(I) \union NamesOf(V)
  BY DEF NamesOf
<1> PICK i, v, m : i = NamesOf(I) /\ v = NamesOf(V) /\ m = i \cap v
  OBVIOUS
<1>3. IsFiniteSet(i) /\ Cardinality(i) <= Cardinality(I) /\ IsFiniteSet(v) /\ Cardinality(v) <= Cardinality(V)
  BY <1>1, NamesAreCounted
<1>4. IsFiniteSet(m) /\ Cardinality(i \union v) = Cardinality(i) + Cardinality(v) - Cardinality(m)
  BY <1>3, FS_Union, FS_Intersection
<1>5. /\ Cardinality(i) \in Nat /\ Cardinality(v) \in Nat /\ Cardinality(m) \in Nat
      /\ Cardinality(I) \in Nat /\ Cardinality(V) \in Nat
  BY <1>1, <1>3, <1>4, FS_CardinalityType
<1>6. Cardinality(i \union v) = Cardinality(I) + Cardinality(V)
  BY <1>1, <1>2
<1>7. Cardinality(i) = Cardinality(I) /\ Cardinality(v) = Cardinality(V)
  BY <1>3, <1>4, <1>5, <1>6
<1> QED BY <1>1, <1>3, <1>7, NamesAreCounted

LEMMA NamedIsTheOne ==
  ASSUME NEW S, \A a, b \in S : a.name = b.name => a = b, NEW c \in S
  PROVE  Named(S, c.name) = c
BY DEF Named

LEMMA Declarations ==
  ASSUME NEW p \in Pairings
  PROVE  /\ p.transport \in {"local", "remote"}
         /\ p.benchmark \in BenchmarkCapabilities /\ p.policy \in PolicyCapabilities
         /\ WellFormedBenchmark(p.benchmark) /\ WellFormedPolicy(p.policy)
         /\ p.policy.kind = "vanilla" => VanillaDeclaration(p.policy)
         /\ p.policy.kind = "oft" => OftDeclaration(p.policy)
BY PolicyExchangeAssumption DEF WellFormedBenchmark, WellFormedPolicy

\* The wire changes the limits of the action and nothing else.
LEMMA WireKeepsDeclaration ==
  ASSUME pairing \in Pairings, NEW a, a = Announcement
  PROVE  /\ a.kind = pol.kind /\ a.version = pol.version /\ a.images = pol.images /\ a.proprio = pol.proprio
         /\ a.imageCount = pol.imageCount /\ a.proprioCount = pol.proprioCount
         /\ a.single = pol.single /\ a.chunks = pol.chunks /\ a.least = pol.least /\ a.most = pol.most
         /\ a.dynamic = pol.dynamic
         /\ a.action = (IF Remote THEN SpecOverWire(pol.action) ELSE pol.action)
         /\ Conventions(a.action) = Conventions(pol.action)
<1>1. pol \in PolicyCapabilities
  BY Declarations DEF pol
<1>2. pol.action \in ActionSpecs
  BY <1>1 DEF PolicyCapabilities
<1>3. Conventions(SpecOverWire(pol.action)) = Conventions(pol.action)
  BY <1>2 DEF Conventions, SpecOverWire, ActionSpecs
<1>4. CASE Remote
  <2>1. a = [pol EXCEPT !.action = SpecOverWire(pol.action)]
    BY <1>4 DEF Announcement, CapabilitiesOverWire
  <2> HIDE DEF Announcement
  <2> QED BY <1>1, <1>3, <1>4, <2>1 DEF PolicyCapabilities
<1>5. CASE ~Remote
  BY <1>5 DEF Announcement
<1> QED BY <1>4, <1>5

LEMMA VerdictSurvivesTheWire ==
  ASSUME pairing \in Pairings, announced = Announcement
  PROVE  NegotiateCapabilities(bench, announced) = NegotiateCapabilities(bench, pol)
<1>1. /\ announced.version = pol.version /\ announced.images = pol.images /\ announced.proprio = pol.proprio
      /\ announced.imageCount = pol.imageCount /\ announced.proprioCount = pol.proprioCount
      /\ announced.dynamic = pol.dynamic /\ Conventions(announced.action) = Conventions(pol.action)
  BY WireKeepsDeclaration
<1> QED BY <1>1 DEF NegotiateCapabilities

(* An observation the benchmark may show, and what the wire makes of it.     *)
Observable(o) ==
  /\ o = [images |-> o.images, proprio |-> o.proprio]
  /\ o.images \subseteq UNION {Images(s) : s \in bench.images}
  /\ o.proprio \subseteq UNION {Vectors(s) : s \in bench.proprio}
  /\ \A s \in bench.images : Conforms(o.images, s)
  /\ \A s \in bench.proprio : \E v \in o.proprio : {w \in o.proprio : w.name = s.name} = {v}

LEMMA ImagesAreOfTheBench ==
  ASSUME pairing \in Pairings, NEW o, Observable(o), NEW i \in o.images
  PROVE  \E s \in bench.images :
           /\ i = [name |-> s.name, copy |-> i.copy, shape |-> i.shape, dtype |-> s.dtype,
                   encoding |-> i.encoding, color |-> i.color]
           /\ i.name = s.name /\ i.copy \in 1..s.max /\ i.shape \in s.shapes /\ i.dtype = s.dtype
           /\ i.encoding \in s.encodings /\ i.color \in s.colors /\ s \in ImageSpecs
<1>1. PICK s \in bench.images : i \in Images(s)
  BY DEF Observable
<1>2. s \in ImageSpecs
  BY Declarations DEF bench, BenchmarkCapabilities
<1> QED BY <1>1, <1>2 DEF Images

LEMMA VectorsAreOfTheBench ==
  ASSUME pairing \in Pairings, NEW o, Observable(o), NEW v \in o.proprio
  PROVE  \E s \in bench.proprio :
           /\ v.name = s.name /\ v.shape \in s.shapes /\ v.dtype = s.dtype /\ s \in VectorSpecs
<1>1. PICK s \in bench.proprio : v \in Vectors(s)
  BY DEF Observable
<1>2. s \in VectorSpecs
  BY Declarations DEF bench, BenchmarkCapabilities
<1> QED BY <1>1, <1>2 DEF Vectors

LEMMA KeptHaveTheNames ==
  ASSUME pairing \in Pairings, NEW o, Observable(o)
  PROVE  NamesOf(Kept(o.images)) = NamesOf(o.images)
<1>1. ASSUME NEW i \in o.images PROVE \E k \in Kept(o.images) : k.name = i.name
  <2>1. PICK s \in bench.images : i.name = s.name /\ i.copy \in 1..s.max /\ s \in ImageSpecs
    BY ImagesAreOfTheBench
  <2> PICK copies : copies = {j \in o.images : j.name = s.name}
    OBVIOUS
  <2>2. Conforms(o.images, s)
    BY DEF Observable
  <2>3. s.max \in Nat /\ (IF s.required THEN s.min ELSE 0) \in Nat
    BY <2>1 DEF ImageSpecs
  <2>4. PICK n \in (IF s.required THEN s.min ELSE 0)..s.max : {j.copy : j \in copies} = 1..n
    BY <2>2 DEF Conforms
  <2>5. n \in Nat /\ i \in copies
    BY <2>1, <2>3
  <2>6. i.copy \in 1..n
    BY <2>4, <2>5
  <2>7. n \in 1..n
    BY <2>5, <2>6
  <2>8. PICK k \in copies : k.copy = n
    BY <2>4, <2>7
  <2>9. \A j \in copies : j.copy \in 1..n
    BY <2>4
  <2>10. \A j \in o.images : j.name = k.name => j.copy <= k.copy
    BY <2>5, <2>8, <2>9
  <2> QED BY <2>1, <2>8, <2>10 DEF Kept
<1>2. Kept(o.images) \subseteq o.images
  BY DEF Kept
<1> QED BY <1>1, <1>2 DEF NamesOf

\* A picture that crossed the wire is one that was shown, called RGB.
LEMMA WireShows ==
  ASSUME pairing \in Pairings, NEW o, Observable(o), NEW w, w = OverWire(o)
  PROVE  /\ w.proprio = o.proprio /\ NamesOf(w.images) = NamesOf(o.images)
         /\ \A i \in w.images : \E j \in Kept(o.images) :
              /\ i = [j EXCEPT !.color = "rgb"] /\ [i EXCEPT !.color = j.color] = j
              /\ i.name = j.name /\ i.shape = j.shape /\ i.dtype = j.dtype /\ i.encoding = j.encoding
              /\ i.copy = j.copy /\ i.color = "rgb"
         /\ ((\A i \in o.images : i.color = "rgb") /\ Kept(o.images) = o.images) => w = o
<1> DEFINE Rgb(i) == [i EXCEPT !.color = "rgb"]
<1>1. o = [images |-> o.images, proprio |-> o.proprio]
  BY DEF Observable
<1>2. w = [images |-> {Rgb(i) : i \in Kept(o.images)}, proprio |-> o.proprio]
  BY <1>1 DEF OverWire
<1>3. ASSUME NEW j \in o.images, NEW r, r = Rgb(j)
      PROVE  /\ [r EXCEPT !.color = j.color] = j
             /\ r.name = j.name /\ r.shape = j.shape /\ r.dtype = j.dtype
             /\ r.encoding = j.encoding /\ r.copy = j.copy /\ r.color = "rgb"
             /\ j.color = "rgb" => r = j
  <2>1. PICK s : j = [name |-> s.name, copy |-> j.copy, shape |-> j.shape, dtype |-> s.dtype,
                      encoding |-> j.encoding, color |-> j.color]
    BY ImagesAreOfTheBench
  <2> PICK n, k, h, t, e, c :
        n = s.name /\ k = j.copy /\ h = j.shape /\ t = s.dtype /\ e = j.encoding /\ c = j.color
    OBVIOUS
  <2>2. j = [name |-> n, copy |-> k, shape |-> h, dtype |-> t, encoding |-> e, color |-> c]
    BY <2>1
  <2>3. r = [name |-> n, copy |-> k, shape |-> h, dtype |-> t, encoding |-> e, color |-> "rgb"]
    BY <1>3, <2>2
  <2> HIDE DEF Rgb
  <2>4. [r EXCEPT !.color = j.color] = j
    BY <2>2, <2>3
  <2>5. /\ r.name = n /\ r.shape = h /\ r.dtype = t /\ r.encoding = e /\ r.copy = k /\ r.color = "rgb"
    BY <2>3
  <2>6. /\ j.name = n /\ j.shape = h /\ j.dtype = t /\ j.encoding = e /\ j.copy = k /\ j.color = c
    BY <2>2
  <2>7. c = "rgb" => r = j
    BY <2>2, <2>3
  <2>8. /\ r.name = j.name /\ r.shape = j.shape /\ r.dtype = j.dtype
        /\ r.encoding = j.encoding /\ r.copy = j.copy /\ r.color = "rgb"
    BY <2>5, <2>6
  <2>9. j.color = "rgb" => r = j
    BY <2>6, <2>7
  <2> QED BY <2>4, <2>8, <2>9
<1>4. Kept(o.images) \subseteq o.images
  BY DEF Kept
<1>5. NamesOf(w.images) = NamesOf(Kept(o.images))
  <2>1. w.images = {Rgb(i) : i \in Kept(o.images)}
    BY <1>2
  <2> HIDE DEF Rgb
  <2>2. \A j \in Kept(o.images) : Rgb(j).name = j.name
    BY <1>3, <1>4
  <2> QED BY <2>1, <2>2 DEF NamesOf
<1>6. ASSUME NEW i \in w.images
      PROVE  \E j \in Kept(o.images) :
               /\ i = [j EXCEPT !.color = "rgb"] /\ [i EXCEPT !.color = j.color] = j
               /\ i.name = j.name /\ i.shape = j.shape /\ i.dtype = j.dtype /\ i.encoding = j.encoding
               /\ i.copy = j.copy /\ i.color = "rgb"
  <2>1. PICK j \in Kept(o.images) : i = Rgb(j)
    BY <1>2
  <2>2. i = [j EXCEPT !.color = "rgb"]
    BY <2>1
  <2> HIDE DEF Rgb
  <2>3. /\ [i EXCEPT !.color = j.color] = j
        /\ i.name = j.name /\ i.shape = j.shape /\ i.dtype = j.dtype /\ i.encoding = j.encoding
        /\ i.copy = j.copy /\ i.color = "rgb"
    BY <1>3, <1>4, <2>1
  <2> QED BY <2>2, <2>3
<1>7. ASSUME \A i \in o.images : i.color = "rgb", Kept(o.images) = o.images PROVE w = o
  <2>1. {Rgb(i) : i \in Kept(o.images)} = o.images
    <3> HIDE DEF Rgb
    <3> QED BY <1>3, <1>7
  <2> QED BY <1>1, <1>2, <2>1
<1>8. w.proprio = o.proprio
  BY <1>2
<1> QED BY <1>5, <1>6, <1>7, <1>8, KeptHaveTheNames

(* What the verdict of a compatible pair says of each channel.               *)
PairFits == NegotiateCapabilities(bench, pol).errors = {}

LEMMA CompatibleMeans ==
  ASSUME pairing \in Pairings, PairFits
  PROVE  /\ \A r \in pol.images : r.name \in NamesOf(bench.images) =>
              CheckImage(Named(bench.images, r.name), r) = {}
         /\ \A r \in pol.proprio : r.name \in NamesOf(bench.proprio) =>
              CheckProprioception(Named(bench.proprio, r.name), r) = {}
         /\ \A r \in pol.images : r.required => r.name \in NamesOf(bench.images)
         /\ \A r \in pol.proprio : r.required => r.name \in NamesOf(bench.proprio)
         /\ CountsFit(bench.images, pol.imageCount) /\ CountsFit(bench.proprio, pol.proprioCount)
         /\ Conventions(bench.action) = Conventions(pol.action)
<1> DEFINE images == UNION {CheckImage(Named(bench.images, r.name), r) :
                              r \in {q \in pol.images : q.name \in NamesOf(bench.images)}}
           proprio == UNION {CheckProprioception(Named(bench.proprio, r.name), r) :
                               r \in {q \in pol.proprio : q.name \in NamesOf(bench.proprio)}}
           missing == Missing(bench, pol.images, bench.images) \union Missing(bench, pol.proprio, bench.proprio)
           privileged == Privileged(bench, pol.images, bench.images)
                           \union Privileged(bench, pol.proprio, bench.proprio)
           counts == CountsFit(bench.images, pol.imageCount) /\ CountsFit(bench.proprio, pol.proprioCount)
           conventions == Conventions(bench.action) = Conventions(pol.action)
<1>1. {} = {<<"channel", i>> : i \in images \union proprio}
             \union {<<"missing", r.name>> : r \in missing}
             \union {<<"privileged", r.name>> : r \in privileged}
             \union (IF bench.version = pol.version THEN {} ELSE {<<"version", "">>})
             \union (IF counts THEN {} ELSE {<<"count", "">>})
             \union (IF conventions THEN {} ELSE {<<"action", "">>})
             \union (IF bench.dynamic /\ ~pol.dynamic THEN {<<"dynamic", "">>} ELSE {})
  BY DEF PairFits, NegotiateCapabilities
<1> HIDE DEF images, proprio, missing, privileged, counts, conventions
<1>2. counts /\ conventions
  BY <1>1
<1>3. missing = {} /\ privileged = {}
  <2>1. {<<"missing", r.name>> : r \in missing} = {} /\ {<<"privileged", r.name>> : r \in privileged} = {}
    BY <1>1
  <2> QED BY <2>1
<1>4. images = {} /\ proprio = {}
  <2>1. {<<"channel", i>> : i \in images \union proprio} = {}
    BY <1>1
  <2> QED BY <2>1
<1>5. \A r \in pol.images : r.name \in NamesOf(bench.images) =>
        CheckImage(Named(bench.images, r.name), r) = {}
  BY <1>4 DEF images
<1>6. \A r \in pol.proprio : r.name \in NamesOf(bench.proprio) =>
        CheckProprioception(Named(bench.proprio, r.name), r) = {}
  BY <1>4 DEF proprio
<1>7. \A r \in pol.images : r.required => r.name \in NamesOf(bench.images)
  BY <1>3 DEF missing, privileged, Missing, Privileged, Unsupplied
<1>8. \A r \in pol.proprio : r.required => r.name \in NamesOf(bench.proprio)
  BY <1>3 DEF missing, privileged, Missing, Privileged, Unsupplied
<1> QED BY <1>2, <1>5, <1>6, <1>7, <1>8 DEF counts, conventions

LEMMA CompatibleChannels ==
  ASSUME pairing \in Pairings, PairFits
  PROVE  /\ \A r \in pol.images, s \in bench.images : s.name = r.name => s.dtype = r.dtype
         /\ \A r \in pol.proprio, s \in bench.proprio : s.name = r.name => s.dtype = r.dtype
         /\ \A r \in pol.images : Named(pol.images, r.name) = r
         /\ \A r \in pol.proprio : Named(pol.proprio, r.name) = r
<1>1. /\ WellFormedChannels(bench.images, bench.proprio)
      /\ WellFormedChannels(pol.images, pol.proprio)
  BY Declarations DEF bench, pol, WellFormedBenchmark, WellFormedPolicy
<1>2. /\ \A a, b \in bench.images : a.name = b.name => a = b
      /\ \A a, b \in bench.proprio : a.name = b.name => a = b
      /\ \A a, b \in pol.images : a.name = b.name => a = b
      /\ \A a, b \in pol.proprio : a.name = b.name => a = b
  BY <1>1, ChannelsAreDistinct
<1>3. ASSUME NEW r \in pol.images, NEW s \in bench.images, s.name = r.name PROVE s.dtype = r.dtype
  <2>1. r.name \in NamesOf(bench.images)
    BY <1>3 DEF NamesOf
  <2>2. Named(bench.images, r.name) = s
    BY <1>2, <1>3, NamedIsTheOne
  <2>3. CheckImage(s, r) = {}
    BY <2>1, <2>2, CompatibleMeans
  <2> QED BY <2>3 DEF CheckImage
<1>4. ASSUME NEW r \in pol.proprio, NEW s \in bench.proprio, s.name = r.name PROVE s.dtype = r.dtype
  <2>1. r.name \in NamesOf(bench.proprio)
    BY <1>4 DEF NamesOf
  <2>2. Named(bench.proprio, r.name) = s
    BY <1>2, <1>4, NamedIsTheOne
  <2>3. CheckProprioception(s, r) = {}
    BY <2>1, <2>2, CompatibleMeans
  <2> QED BY <2>3 DEF CheckProprioception
<1>5. \A r \in pol.images : Named(pol.images, r.name) = r
  BY <1>2, NamedIsTheOne
<1>6. \A r \in pol.proprio : Named(pol.proprio, r.name) = r
  BY <1>2, NamedIsTheOne
<1> QED BY <1>3, <1>4, <1>5, <1>6

(* What the policy is given of a benchmark that shows one picture of each    *)
(* camera, here or across the wire.                                          *)
SeenAs(o, w) == (~Remote /\ w = o) \/ (Remote /\ w = OverWire(o) /\ ProtocolDomain)

LEMMA OnePictureOfEach ==
  ASSUME pairing \in Pairings, EverythingShownIsTaken, NEW o, Observable(o)
  PROVE  /\ Kept(o.images) = o.images /\ NamesOf(o.images) = NamesOf(bench.images)
         /\ \A i, j \in o.images : i.name = j.name => i = j
         /\ NamesOf(o.proprio) = NamesOf(bench.proprio)
<1>1. ASSUME NEW i \in o.images
      PROVE  i.copy = 1 /\ \E s \in bench.images : i.name = s.name
  <2>1. PICK s \in bench.images : i.name = s.name /\ i.copy \in 1..s.max /\ s \in ImageSpecs
    BY ImagesAreOfTheBench
  <2>2. s.max = 1
    BY DEF EverythingShownIsTaken
  <2> QED BY <2>1, <2>2
<1>2. \A i, j \in o.images : i.name = j.name => i = j
  <2> SUFFICES ASSUME NEW i \in o.images, NEW j \in o.images, i.name = j.name PROVE i = j
    OBVIOUS
  <2>1. PICK s \in bench.images : i.name = s.name
    BY <1>1
  <2>2. Conforms(o.images, s)
    BY DEF Observable
  <2>3. i.copy = j.copy
    BY <1>1
  <2> QED BY <2>1, <2>2, <2>3 DEF Conforms
<1>3. Kept(o.images) = o.images
  BY <1>1, <1>2 DEF Kept
<1>4. ASSUME NEW s \in bench.images PROVE \E i \in o.images : i.name = s.name
  <2>1. Conforms(o.images, s) /\ s.min = 1 /\ s.max = 1 /\ s.required
    BY DEF Observable, EverythingShownIsTaken
  <2>2. PICK n \in 1..1 : {i.copy : i \in {j \in o.images : j.name = s.name}} = 1..n
    BY <2>1 DEF Conforms
  <2>3. 1 \in {i.copy : i \in {j \in o.images : j.name = s.name}}
    BY <2>2
  <2> QED BY <2>3
<1>5. NamesOf(o.images) = NamesOf(bench.images)
  BY <1>1, <1>4 DEF NamesOf
<1>6. ASSUME NEW s \in bench.proprio PROVE \E v \in o.proprio : v.name = s.name
  BY DEF Observable
<1>7. NamesOf(o.proprio) = NamesOf(bench.proprio)
  BY <1>6, VectorsAreOfTheBench DEF NamesOf
<1> QED BY <1>2, <1>3, <1>5, <1>7

LEMMA GivenIsOfTheBench ==
  ASSUME pairing \in Pairings, EverythingShownIsTaken, NEW o, Observable(o), NEW w, SeenAs(o, w)
  PROVE  /\ NamesOf(w.images) = NamesOf(bench.images) /\ NamesOf(w.proprio) = NamesOf(bench.proprio)
         /\ \A i \in w.images : \E s \in bench.images :
              /\ i.name = s.name /\ i.shape \in s.shapes /\ i.dtype = s.dtype
              /\ i.encoding \in s.encodings /\ i.color \in s.colors
         /\ \A v \in w.proprio : \E s \in bench.proprio :
              v.name = s.name /\ v.shape \in s.shapes /\ v.dtype = s.dtype
         /\ \A i, j \in w.images : i.name = j.name => i = j
<1>1. /\ Kept(o.images) = o.images /\ NamesOf(o.images) = NamesOf(bench.images)
      /\ \A i, j \in o.images : i.name = j.name => i = j
      /\ NamesOf(o.proprio) = NamesOf(bench.proprio)
  BY OnePictureOfEach
<1>2. \A v \in o.proprio : \E s \in bench.proprio :
        v.name = s.name /\ v.shape \in s.shapes /\ v.dtype = s.dtype
  BY VectorsAreOfTheBench
<1>3. \A i \in o.images : \E s \in bench.images :
        /\ i.name = s.name /\ i.shape \in s.shapes /\ i.dtype = s.dtype
        /\ i.encoding \in s.encodings /\ i.color \in s.colors
  BY ImagesAreOfTheBench
<1>4. CASE ~Remote
  BY <1>1, <1>2, <1>3, <1>4 DEF SeenAs
<1>5. CASE Remote
  <2>1. w = OverWire(o) /\ \A s \in bench.images : s.colors = {"rgb"}
    BY <1>5 DEF SeenAs, ProtocolDomain
  <2>2. w.proprio = o.proprio /\ NamesOf(w.images) = NamesOf(o.images)
    BY <2>1, WireShows
  <2>3. ASSUME NEW i \in w.images
        PROVE  \E j \in o.images :
                 /\ i = [j EXCEPT !.color = "rgb"]
                 /\ i.name = j.name /\ i.shape = j.shape /\ i.dtype = j.dtype /\ i.encoding = j.encoding
                 /\ i.color = "rgb"
    BY <1>1, <2>1, WireShows
  <2>4. \A i, j \in w.images : i.name = j.name => i = j
    <3> SUFFICES ASSUME NEW i \in w.images, NEW j \in w.images, i.name = j.name PROVE i = j
      OBVIOUS
    <3>1. PICK k \in o.images : i = [k EXCEPT !.color = "rgb"] /\ i.name = k.name
      BY <2>3
    <3>2. PICK m \in o.images : j = [m EXCEPT !.color = "rgb"] /\ j.name = m.name
      BY <2>3
    <3>3. k = m
      BY <1>1, <3>1, <3>2
    <3> QED BY <3>1, <3>2, <3>3
  <2>5. \A i \in w.images : \E s \in bench.images :
          /\ i.name = s.name /\ i.shape \in s.shapes /\ i.dtype = s.dtype
          /\ i.encoding \in s.encodings /\ i.color \in s.colors
    <3> SUFFICES ASSUME NEW i \in w.images
                 PROVE  \E s \in bench.images :
                          /\ i.name = s.name /\ i.shape \in s.shapes /\ i.dtype = s.dtype
                          /\ i.encoding \in s.encodings /\ i.color \in s.colors
      OBVIOUS
    <3>1. PICK j \in o.images : /\ i.name = j.name /\ i.shape = j.shape /\ i.dtype = j.dtype
                                /\ i.encoding = j.encoding /\ i.color = "rgb"
      BY <2>3
    <3> QED BY <1>3, <2>1, <3>1
  <2> QED BY <1>1, <1>2, <2>2, <2>4, <2>5
<1> QED BY <1>4, <1>5

\* What the policy is given of a channel is what it declared for it.
LEMMA GivenMeetsDeclaration ==
  ASSUME pairing \in Pairings, PairFits, EverythingShownIsTaken, NEW o, Observable(o), NEW w, SeenAs(o, w)
  PROVE  /\ \A i \in w.images, r \in pol.images : i.name = r.name =>
              /\ i.shape \in r.shapes /\ i.dtype = r.dtype
              /\ i.encoding \in r.encodings /\ i.color \in r.colors
         /\ \A v \in w.proprio, r \in pol.proprio : v.name = r.name => v.shape \in r.shapes /\ v.dtype = r.dtype
<1>1. ASSUME NEW i \in w.images, NEW r \in pol.images, i.name = r.name
      PROVE  /\ i.shape \in r.shapes /\ i.dtype = r.dtype
             /\ i.encoding \in r.encodings /\ i.color \in r.colors
  <2>1. PICK s \in bench.images :
          /\ i.name = s.name /\ i.shape \in s.shapes /\ i.dtype = s.dtype
          /\ i.encoding \in s.encodings /\ i.color \in s.colors
    BY GivenIsOfTheBench
  <2>2. s.dtype = r.dtype
    BY <1>1, <2>1, CompatibleChannels
  <2>3. s.shapes \subseteq r.shapes /\ s.encodings \subseteq r.encodings /\ s.colors \subseteq r.colors
    BY <1>1, <2>1 DEF EverythingShownIsTaken
  <2> QED BY <2>1, <2>2, <2>3
<1>2. ASSUME NEW v \in w.proprio, NEW r \in pol.proprio, v.name = r.name
      PROVE  v.shape \in r.shapes /\ v.dtype = r.dtype
  <2>1. PICK s \in bench.proprio : v.name = s.name /\ v.shape \in s.shapes /\ v.dtype = s.dtype
    BY GivenIsOfTheBench
  <2>2. s.dtype = r.dtype
    BY <1>2, <2>1, CompatibleChannels
  <2>3. s.shapes \subseteq r.shapes
    BY <1>2, <2>1 DEF EverythingShownIsTaken
  <2> QED BY <2>1, <2>2, <2>3
<1> QED BY <1>1, <1>2

LEMMA GivenIsShapedAs ==
  ASSUME pairing \in Pairings, PairFits, EverythingShownIsTaken, NEW o, Observable(o), NEW w, SeenAs(o, w)
  PROVE  ShapedAs(Kept(w.images), pol.images) /\ ShapedAs(w.proprio, pol.proprio)
<1>1. ASSUME NEW i \in w.images, i.name \in NamesOf(pol.images)
      PROVE  i.shape \in Named(pol.images, i.name).shapes /\ i.dtype = Named(pol.images, i.name).dtype
  <2>1. PICK r \in pol.images : i.name = r.name
    BY <1>1 DEF NamesOf
  <2>2. Named(pol.images, i.name) = r
    BY <2>1, CompatibleChannels
  <2> QED BY <2>1, <2>2, GivenMeetsDeclaration
<1>2. ASSUME NEW v \in w.proprio, v.name \in NamesOf(pol.proprio)
      PROVE  v.shape \in Named(pol.proprio, v.name).shapes /\ v.dtype = Named(pol.proprio, v.name).dtype
  <2>1. PICK r \in pol.proprio : v.name = r.name
    BY <1>2 DEF NamesOf
  <2>2. Named(pol.proprio, v.name) = r
    BY <2>1, CompatibleChannels
  <2> QED BY <2>1, <2>2, GivenMeetsDeclaration
<1>3. Kept(w.images) \subseteq w.images
  BY DEF Kept
<1> QED BY <1>1, <1>2, <1>3 DEF ShapedAs

\* Names that all are required, and as many as the benchmark has, are the
\* benchmark's.
LEMMA ExactlyTheNames ==
  ASSUME NEW B, IsFiniteSet(NamesOf(B)), Cardinality(NamesOf(B)) = Cardinality(B),
         NEW P, IsFiniteSet(P), Cardinality(NamesOf(P)) = Cardinality(P), IsFiniteSet(B),
         NamesOf(P) \subseteq NamesOf(B),
         CountsFit(B, [min |-> Cardinality(P), max |-> Cardinality(P)])
  PROVE  NamesOf(P) = NamesOf(B)
<1>1. Cardinality(B) = Cardinality(P)
  BY FS_CardinalityType DEF CountsFit
<1> PICK b, p : b = NamesOf(B) /\ p = NamesOf(P)
  OBVIOUS
<1>2. IsFiniteSet(b) /\ p \in SUBSET b /\ Cardinality(b) = Cardinality(p)
  BY <1>1
<1>3. b = p
  BY <1>2, FS_Subset
<1> QED BY <1>3

(* A compatible pair whose benchmark shows only what the policy declared     *)
(* never shows the policy anything it refuses.                               *)
LEMMA GivenIsUsable ==
  ASSUME pairing \in Pairings, PairFits, EverythingShownIsTaken, NEW o, Observable(o), NEW w, SeenAs(o, w)
  PROVE  Usable(w)
<1>1. NamesOf(w.images) = NamesOf(bench.images) /\ NamesOf(w.proprio) = NamesOf(bench.proprio)
  BY GivenIsOfTheBench
<1>2. /\ \A r \in pol.images : r.required => r.name \in NamesOf(w.images)
      /\ \A r \in pol.proprio : r.required => r.name \in NamesOf(w.proprio)
  BY <1>1, CompatibleMeans
<1>3. ShapedAs(Kept(w.images), pol.images) /\ ShapedAs(w.proprio, pol.proprio)
  BY GivenIsShapedAs
<1>4. pol.kind \in {"vanilla", "oft", "quic"} /\ (pol.kind = "vanilla" => VanillaDeclaration(pol))
      /\ (pol.kind = "oft" => OftDeclaration(pol))
  BY Declarations DEF pol, PolicyCapabilities
<1>5. CASE pol.kind = "vanilla"
  <2>1. ASSUME NEW r \in pol.images
        PROVE  /\ Cardinality({i \in w.images : i.name = r.name}) = 1
               /\ \A i \in w.images : i.name = r.name =>
                    /\ i.encoding = "raw" /\ i.color = "rgb"
                    /\ i.shape.channels = 3 /\ i.dtype = "uint8"
    <3>1. /\ r.required /\ r.dtype = "uint8" /\ r.encodings = {"raw"} /\ r.colors = {"rgb"}
          /\ \A shape \in r.shapes : shape.channels = 3
      BY <1>4, <1>5 DEF VanillaDeclaration
    <3>2. PICK i \in w.images : i.name = r.name
      BY <1>2, <3>1 DEF NamesOf
    <3>3. {j \in w.images : j.name = r.name} = {i}
      BY <3>2, GivenIsOfTheBench
    <3>4. Cardinality({j \in w.images : j.name = r.name}) = 1
      BY <3>3, FS_Singleton
    <3>5. \A j \in w.images : j.name = r.name =>
            /\ j.shape \in r.shapes /\ j.dtype = r.dtype
            /\ j.encoding \in r.encodings /\ j.color \in r.colors
      BY GivenMeetsDeclaration
    <3> QED BY <3>1, <3>4, <3>5
  <2>2. UsableVanilla(w)
    BY <2>1 DEF UsableVanilla
  <2> QED BY <1>5, <2>2 DEF Usable
<1>6. CASE pol.kind = "oft"
  <2>1. /\ \A r \in pol.images \union pol.proprio : r.required
        /\ pol.imageCount = [min |-> Cardinality(pol.images), max |-> Cardinality(pol.images)]
        /\ pol.proprioCount = [min |-> Cardinality(pol.proprio), max |-> Cardinality(pol.proprio)]
    BY <1>4, <1>6 DEF OftDeclaration
  <2>2. NamesOf(pol.images) \subseteq NamesOf(bench.images) /\ NamesOf(pol.proprio) \subseteq NamesOf(bench.proprio)
    BY <1>1, <1>2, <2>1 DEF NamesOf
  <2>3. /\ WellFormedChannels(bench.images, bench.proprio)
        /\ WellFormedChannels(pol.images, pol.proprio)
    BY Declarations DEF bench, pol, WellFormedBenchmark, WellFormedPolicy
  <2>4. /\ IsFiniteSet(bench.images) /\ IsFiniteSet(bench.proprio)
        /\ IsFiniteSet(pol.images) /\ IsFiniteSet(pol.proprio)
    BY <2>3 DEF WellFormedChannels
  <2>5. /\ IsFiniteSet(NamesOf(bench.images)) /\ IsFiniteSet(NamesOf(bench.proprio))
        /\ Cardinality(NamesOf(bench.images)) = Cardinality(bench.images)
        /\ Cardinality(NamesOf(bench.proprio)) = Cardinality(bench.proprio)
        /\ Cardinality(NamesOf(pol.images)) = Cardinality(pol.images)
        /\ Cardinality(NamesOf(pol.proprio)) = Cardinality(pol.proprio)
    BY <2>3, ChannelsAreDistinct
  <2>6. CountsFit(bench.images, pol.imageCount) /\ CountsFit(bench.proprio, pol.proprioCount)
    BY CompatibleMeans
  <2>7. NamesOf(pol.images) = NamesOf(bench.images)
    BY <2>1, <2>2, <2>4, <2>5, <2>6, ExactlyTheNames
  <2>8. NamesOf(pol.proprio) = NamesOf(bench.proprio)
    BY <2>1, <2>2, <2>4, <2>5, <2>6, ExactlyTheNames
  <2>9. UsableOft(w)
    BY <1>1, <1>3, <2>7, <2>8 DEF UsableOft
  <2> QED BY <1>6, <2>9 DEF Usable
<1>7. CASE pol.kind = "quic"
  <2>1. ASSUME NEW i \in Kept(w.images), i.name \in NamesOf(pol.images)
        PROVE  /\ i.encoding \in Named(pol.images, i.name).encodings
               /\ i.color \in Named(pol.images, i.name).colors
    <3>1. PICK r \in pol.images : i.name = r.name
      BY <2>1 DEF NamesOf
    <3>2. Named(pol.images, i.name) = r /\ i \in w.images
      BY <3>1, CompatibleChannels DEF Kept
    <3> QED BY <3>1, <3>2, GivenMeetsDeclaration
  <2>2. UsableQuic(w)
    BY <1>2, <1>3, <2>1 DEF UsableQuic
  <2> QED BY <1>7, <2>2 DEF Usable
<1> QED BY <1>4, <1>5, <1>6, <1>7

\* Within the protocol's domain such an observation is one the wire takes.
LEMMA ShownIsSendable ==
  ASSUME pairing \in Pairings, EverythingShownIsTaken, ProtocolDomain, NEW o, Observable(o),
         FrameBytes(o) <= MaxFrameBytes
  PROVE  Sendable(o)
<1>1. Kept(o.images) = o.images /\ NamesOf(o.images) = NamesOf(bench.images)
  BY OnePictureOfEach
<1>2. Primary \in NamesOf(o.images)
  BY <1>1 DEF ProtocolDomain
<1>3. ASSUME NEW i \in o.images PROVE ImageEncodable(i)
  <2>1. PICK s \in bench.images :
          /\ i.shape \in s.shapes /\ i.dtype = s.dtype /\ i.encoding \in s.encodings /\ s \in ImageSpecs
    BY ImagesAreOfTheBench
  <2>2. /\ s.encodings = {"raw"} /\ s.dtype = "uint8"
        /\ i.shape.channels = 3 /\ i.shape.pixels * 3 <= MaxImageBytes
    BY <2>1 DEF ProtocolDomain
  <2>3. Bytes(i) <= MaxImageBytes
    BY <2>2 DEF Bytes
  <2> QED BY <2>1, <2>2, <2>3 DEF ImageEncodable
<1>4. ASSUME NEW v \in o.proprio PROVE VectorEncodable(v)
  <2>1. PICK s \in bench.proprio : v.shape \in s.shapes /\ v.dtype = s.dtype
    BY VectorsAreOfTheBench
  <2>2. v.dtype = "float32" /\ 4 * v.shape <= MaxProprioBytes
    BY <2>1 DEF ProtocolDomain
  <2> QED BY <2>2 DEF VectorEncodable
<1> QED BY <1>1, <1>2, <1>3, <1>4 DEF Sendable

-----------------------------------------------------------------------------
(* The exchange, step by step.  What a run holds at each stage is bound to   *)
(* what the stages before it left.                                           *)
Negotiated == {"connected", "active", "shown", "seen", "predicted", "taken"}

ExchangeTypeOK ==
  /\ pairing \in Pairings
  /\ stage \in {"created", "announced", "failed"} \union Negotiated
  /\ broken \in Nat
  /\ stage # "failed" => cause = "none"

\* The runner holds what the policy announced, and negotiated with that.
NegotiationStands ==
  /\ announced = IF stage = "created" THEN pol ELSE Announcement
  /\ stage \notin {"created", "announced"} => report = NegotiateCapabilities(bench, announced)
  /\ stage \in Negotiated => PairFits

\* An observation on its way is the benchmark's.
ObservationStands ==
  /\ stage \in {"shown", "seen", "predicted", "taken"} => Observable(shown)
  /\ stage \in {"seen", "predicted", "taken"} => seen = IF Remote THEN OverWire(shown) ELSE shown

\* A prediction on its way is declared on the side that holds it, and honest as
\* long as the policy never broke its declaration.
PredictionStands ==
  /\ stage = "predicted" => /\ predicted \in Predictions /\ Declared(predicted, pol)
                            /\ broken = 0 => Honest(predicted)
  /\ stage = "taken" => /\ Declared(taken, announced) /\ taken.horizon \in 1..(pol.most + 1)
                        /\ broken = 0 => /\ taken.dtype = pol.action.dtype
                                         /\ taken.value \in pol.action.low..pol.action.high

ExchangeInv ==
  /\ ExchangeTypeOK /\ NegotiationStands /\ ObservationStands /\ PredictionStands
  /\ OnlyNegotiatedActions /\ CompatibleIsServed

LEMMA ExchangeInvInitially == ExchangeInit => ExchangeInv
<1> SUFFICES ASSUME ExchangeInit PROVE ExchangeInv
  OBVIOUS
<1>1. ExchangeTypeOK
  BY DEF ExchangeInit, ExchangeTypeOK
<1>2. NegotiationStands
  BY DEF ExchangeInit, NegotiationStands, Negotiated, pol
<1>3. ObservationStands /\ PredictionStands
  BY DEF ExchangeInit, ObservationStands, PredictionStands
<1>4. OnlyNegotiatedActions
  BY DEF ExchangeInit, OnlyNegotiatedActions
<1>5. CompatibleIsServed
  BY DEF ExchangeInit, CompatibleIsServed
<1> QED BY <1>1, <1>2, <1>3, <1>4, <1>5 DEF ExchangeInv

\* No step touches the pair.
LEMMA PairStands ==
  ASSUME pairing' = pairing
  PROVE  /\ bench' = bench /\ pol' = pol /\ Remote' = Remote
         /\ Announcement' = Announcement /\ PairFits' = PairFits
         /\ EverythingShownIsTaken' = EverythingShownIsTaken /\ ProtocolDomain' = ProtocolDomain
         /\ Predictions' = Predictions
<1>1. bench' = bench /\ pol' = pol /\ Remote' = Remote
  BY DEF bench, pol, Remote
<1>2. Announcement' = Announcement
  BY <1>1 DEF Announcement
<1>3. PairFits' = PairFits
  BY <1>1 DEF PairFits
<1>4. EverythingShownIsTaken' = EverythingShownIsTaken
  BY <1>1 DEF EverythingShownIsTaken
<1>5. ProtocolDomain' = ProtocolDomain
  BY <1>1 DEF ProtocolDomain
<1>6. Predictions' = Predictions
  BY <1>1 DEF Predictions
<1> QED BY <1>1, <1>2, <1>3, <1>4, <1>5, <1>6

LEMMA ActionsStand ==
  ASSUME OnlyNegotiatedActions, pairing' = pairing, executed' = executed
  PROVE  OnlyNegotiatedActions'
BY DEF OnlyNegotiatedActions, bench, pol

LEMMA ObservationStays ==
  ASSUME ObservationStands, stage' \in {"shown", "seen", "predicted", "taken"} => stage \in {"shown", "seen", "predicted", "taken"},
         stage' \in {"seen", "predicted", "taken"} => stage \in {"seen", "predicted", "taken"},
         pairing' = pairing, shown' = shown, seen' = seen
  PROVE  ObservationStands'
BY DEF ObservationStands, Observable, bench, Remote

\* A run that fails leaves everything behind but the reason.
LEMMA FailingKeeps ==
  ASSUME ExchangeInv, pairing' = pairing, announced' = announced, executed' = executed,
         stage # "created", stage' = "failed", broken' \in Nat,
         report' = NegotiateCapabilities(bench, announced), CompatibleIsServed'
  PROVE  ExchangeInv'
<1>1. ExchangeTypeOK'
  BY DEF ExchangeInv, ExchangeTypeOK
<1>2. announced' = Announcement'
  BY PairStands DEF ExchangeInv, NegotiationStands
<1>3. NegotiationStands'
  BY <1>2, PairStands DEF NegotiationStands, Negotiated
<1>4. ObservationStands' /\ PredictionStands'
  BY DEF ObservationStands, PredictionStands
<1>5. OnlyNegotiatedActions'
  BY ActionsStand DEF ExchangeInv
<1> QED BY <1>1, <1>3, <1>4, <1>5 DEF ExchangeInv

\* A run that goes on from one stage to the next.
LEMMA GoingOnKeeps ==
  ASSUME ExchangeInv, pairing' = pairing, announced' = announced, executed' = executed,
         report' = report, stage \in Negotiated, stage' \in Negotiated, cause' = cause, broken' \in Nat,
         ObservationStands', PredictionStands'
  PROVE  ExchangeInv'
<1>1. stage \notin {"created", "announced", "failed"} /\ stage' \notin {"created", "announced", "failed"}
  BY DEF Negotiated
<1>2. ExchangeTypeOK'
  BY <1>1 DEF ExchangeInv, ExchangeTypeOK
<1>3. NegotiationStands'
  BY <1>1, PairStands DEF ExchangeInv, NegotiationStands
<1>4. OnlyNegotiatedActions'
  BY ActionsStand DEF ExchangeInv
<1>5. CompatibleIsServed'
  BY <1>1, <1>2 DEF CompatibleIsServed, ExchangeTypeOK
<1> QED BY <1>2, <1>3, <1>4, <1>5 DEF ExchangeInv

LEMMA NegotiatingKeeps ==
  ASSUME ExchangeInv, InitializePolicy \/ Negotiate \/ StartEpisode
  PROVE  ExchangeInv'
<1>1. pairing' = pairing /\ executed' = executed /\ broken' = broken /\ broken \in Nat
  BY DEF InitializePolicy, Negotiate, StartEpisode, ExchangeInv, ExchangeTypeOK
<1>2. OnlyNegotiatedActions'
  BY <1>1, ActionsStand DEF ExchangeInv
<1>3. CASE InitializePolicy
  <2>1. announced' = Announcement' /\ stage' = "announced" /\ cause' = cause /\ cause = "none"
    BY <1>1, <1>3, PairStands DEF InitializePolicy, Announcement, ExchangeInv, ExchangeTypeOK
  <2>2. ExchangeTypeOK'
    BY <1>1, <2>1 DEF ExchangeInv, ExchangeTypeOK
  <2>3. NegotiationStands'
    BY <2>1 DEF NegotiationStands, Negotiated
  <2>4. ObservationStands' /\ PredictionStands'
    BY <2>1 DEF ObservationStands, PredictionStands
  <2>5. CompatibleIsServed'
    BY <2>1 DEF CompatibleIsServed
  <2> QED BY <1>2, <2>2, <2>3, <2>4, <2>5 DEF ExchangeInv
<1>4. CASE Negotiate
  <2>1. /\ stage = "announced" /\ announced' = announced
        /\ report' = NegotiateCapabilities(bench, announced)
    BY <1>4 DEF Negotiate
  <2>2. announced = Announcement
    BY <2>1 DEF ExchangeInv, NegotiationStands
  <2>3. report' = NegotiateCapabilities(bench, pol)
    BY <2>1, <2>2, VerdictSurvivesTheWire DEF ExchangeInv, ExchangeTypeOK
  <2>4. CASE report'.errors = {}
    <3>1. PairFits' /\ stage' = "connected" /\ cause' = cause /\ cause = "none"
      BY <1>1, <1>4, <2>1, <2>3, <2>4, PairStands DEF Negotiate, PairFits, ExchangeInv, ExchangeTypeOK
    <3>2. ExchangeTypeOK'
      BY <1>1, <3>1 DEF ExchangeInv, ExchangeTypeOK, Negotiated
    <3>3. NegotiationStands'
      BY <1>1, <2>1, <2>2, <3>1, PairStands DEF NegotiationStands
    <3>4. ObservationStands' /\ PredictionStands'
      BY <3>1 DEF ObservationStands, PredictionStands
    <3>5. CompatibleIsServed'
      BY <3>1 DEF CompatibleIsServed
    <3> QED BY <1>2, <3>2, <3>3, <3>4, <3>5 DEF ExchangeInv
  <2>5. CASE report'.errors # {}
    <3>1. stage' = "failed" /\ cause' = "incompatible"
      BY <1>4, <2>5 DEF Negotiate, Fail
    <3>2. CompatibleIsServed'
      BY <3>1 DEF CompatibleIsServed
    <3> QED BY <1>1, <2>1, <3>1, <3>2, FailingKeeps
  <2> QED BY <2>4, <2>5
<1>5. CASE StartEpisode
  <2>1. stage = "connected" /\ announced' = announced /\ report' = report
    BY <1>5 DEF StartEpisode
  <2>2. CASE Remote /\ bench.source # "benchmark"
    <3>1. stage' = "failed"
      BY <1>5, <2>2 DEF StartEpisode, Fail
    <3>2. Remote' /\ ~ProtocolDomain'
      BY <1>1, <2>2, PairStands DEF ProtocolDomain
    <3>3. CompatibleIsServed'
      BY <3>2 DEF CompatibleIsServed
    <3>4. report' = NegotiateCapabilities(bench, announced)
      BY <2>1 DEF ExchangeInv, NegotiationStands
    <3> QED BY <1>1, <2>1, <3>1, <3>3, <3>4, FailingKeeps
  <2>3. CASE ~(Remote /\ bench.source # "benchmark")
    <3>1. stage' = "active" /\ cause' = cause
      BY <1>5, <2>3 DEF StartEpisode
    <3>2. ObservationStands' /\ PredictionStands'
      BY <3>1 DEF ObservationStands, PredictionStands
    <3>3. stage \in Negotiated /\ stage' \in Negotiated
      BY <2>1, <3>1 DEF Negotiated
    <3> QED BY <1>1, <2>1, <3>1, <3>2, <3>3, GoingOnKeeps
  <2> QED BY <2>2, <2>3
<1> QED BY <1>3, <1>4, <1>5

LEMMA ShowingKeeps ==
  ASSUME ExchangeInv, Observe \/ ShowLocally \/ SendObservation
  PROVE  ExchangeInv'
<1>1. /\ pairing' = pairing /\ announced' = announced /\ report' = report /\ executed' = executed
      /\ broken' = broken /\ broken \in Nat /\ pairing \in Pairings
  BY DEF Observe, ShowLocally, SendObservation, ExchangeInv, ExchangeTypeOK
<1>2. CASE Observe
  <2>1. stage = "active" /\ stage' = "shown" /\ cause' = cause
    BY <1>2 DEF Observe
  <2>2. stage \in Negotiated /\ stage' \in Negotiated
    BY <2>1 DEF Negotiated
  <2>3. Observable(shown)'
    <3>1. PICK images \in SUBSET UNION {Images(s) : s \in bench.images},
               vectors \in SUBSET UNION {Vectors(s) : s \in bench.proprio} :
            /\ \A s \in bench.images : Conforms(images, s)
            /\ \A s \in bench.proprio : \E v \in vectors : {w \in vectors : w.name = s.name} = {v}
            /\ shown' = [images |-> images, proprio |-> vectors]
      BY <1>2 DEF Observe
    <3>2. shown'.images = images /\ shown'.proprio = vectors /\ bench' = bench
      BY <1>1, <3>1, PairStands
    <3> QED BY <3>1, <3>2 DEF Observable
  <2>4. ObservationStands'
    BY <2>1, <2>3 DEF ObservationStands
  <2>5. PredictionStands'
    BY <2>1 DEF PredictionStands
  <2> QED BY <1>1, <2>1, <2>2, <2>4, <2>5, GoingOnKeeps
<1>3. CASE ShowLocally
  <2>1. stage = "shown" /\ stage' = "seen" /\ cause' = cause /\ ~Remote /\ seen' = shown /\ shown' = shown
    BY <1>3 DEF ShowLocally
  <2>2. stage \in Negotiated /\ stage' \in Negotiated
    BY <2>1 DEF Negotiated
  <2>3. Observable(shown)' /\ ~Remote'
    BY <1>1, <2>1, PairStands DEF ExchangeInv, ObservationStands, Observable
  <2>4. ObservationStands'
    BY <2>1, <2>3 DEF ObservationStands
  <2>5. PredictionStands'
    BY <2>1 DEF PredictionStands
  <2> QED BY <1>1, <2>1, <2>2, <2>4, <2>5, GoingOnKeeps
<1>4. CASE SendObservation
  <2>1. stage = "shown" /\ Remote /\ shown' = shown
    BY <1>4 DEF SendObservation
  <2>2. Observable(shown) /\ stage \in Negotiated
    BY <2>1 DEF ExchangeInv, ObservationStands, Negotiated
  <2>3. CASE Sendable(shown)
    <3>1. stage' = "seen" /\ cause' = cause /\ seen' = OverWire(shown)
      BY <1>4, <2>3 DEF SendObservation
    <3>2. Observable(shown)' /\ Remote'
      BY <1>1, <2>1, <2>2, PairStands DEF Observable
    <3>3. ObservationStands'
      BY <2>1, <3>1, <3>2 DEF ObservationStands
    <3>4. PredictionStands'
      BY <3>1 DEF PredictionStands
    <3>5. stage' \in Negotiated
      BY <3>1 DEF Negotiated
    <3> QED BY <1>1, <2>2, <3>1, <3>3, <3>4, <3>5, GoingOnKeeps
  <2>4. CASE ~Sendable(shown)
    <3>1. stage' = "failed" /\ stage # "created"
      BY <1>4, <2>1, <2>4 DEF SendObservation, Fail
    <3>2. ~(EverythingShownIsTaken /\ ProtocolDomain /\ FramesFit)
      BY <1>1, <2>2, <2>4, ShownIsSendable DEF FramesFit
    <3>3. /\ EverythingShownIsTaken' = EverythingShownIsTaken /\ ProtocolDomain' = ProtocolDomain
          /\ FramesFit' = FramesFit /\ Remote'
      BY <1>1, <2>1, PairStands DEF FramesFit
    <3>4. CompatibleIsServed'
      BY <3>2, <3>3 DEF CompatibleIsServed
    <3>5. report' = NegotiateCapabilities(bench, announced)
      BY <1>1, <2>1 DEF ExchangeInv, NegotiationStands
    <3> QED BY <1>1, <3>1, <3>4, <3>5, FailingKeeps
  <2> QED BY <2>3, <2>4
<1> QED BY <1>2, <1>3, <1>4

LEMMA PredictingKeeps ==
  ASSUME ExchangeInv, Predict
  PROVE  ExchangeInv'
<1>1. /\ pairing' = pairing /\ announced' = announced /\ report' = report /\ executed' = executed
      /\ shown' = shown /\ seen' = seen /\ stage = "seen" /\ broken \in Nat /\ pairing \in Pairings
  BY DEF Predict, ExchangeInv, ExchangeTypeOK
<1>2. /\ Observable(shown) /\ PairFits /\ stage \in Negotiated
      /\ report' = NegotiateCapabilities(bench, announced)
      /\ seen = IF Remote THEN OverWire(shown) ELSE shown
  BY <1>1 DEF ExchangeInv, ObservationStands, NegotiationStands, Negotiated
<1>3. CASE ~Usable(seen) /\ Fail("observation") /\ broken' = broken
  <2>1. ~EverythingShownIsTaken \/ (Remote /\ ~ProtocolDomain)
    <3> SUFFICES ASSUME EverythingShownIsTaken, Remote => ProtocolDomain PROVE FALSE
      OBVIOUS
    <3>1. SeenAs(shown, seen)
      BY <1>2 DEF SeenAs
    <3> QED BY <1>1, <1>2, <1>3, <3>1, GivenIsUsable
  <2>2. CompatibleIsServed'
    <3>1. /\ EverythingShownIsTaken' = EverythingShownIsTaken /\ ProtocolDomain' = ProtocolDomain
          /\ Remote' = Remote
      BY <1>1, PairStands
    <3> QED BY <2>1, <3>1 DEF CompatibleIsServed
  <2>3. stage' = "failed" /\ stage # "created"
    BY <1>1, <1>3 DEF Fail
  <2> QED BY <1>1, <1>2, <1>3, <2>2, <2>3, FailingKeeps
<1>4. CASE \E p \in Predictions :
             /\ broken' = IF Honest(p) THEN broken ELSE broken + 1
             /\ predicted' = p
             /\ IF Declared(p, pol) THEN stage' = "predicted" /\ UNCHANGED cause
                ELSE Fail("declaration")
  <2>0. PICK p \in Predictions :
             /\ broken' = IF Honest(p) THEN broken ELSE broken + 1
             /\ predicted' = p
             /\ IF Declared(p, pol) THEN stage' = "predicted" /\ UNCHANGED cause
                ELSE Fail("declaration")
    BY <1>4
  <2>1. broken' \in Nat /\ (~Honest(p) => broken' > 0)
    BY <1>1, <2>0
  <2>2. CASE Declared(p, pol)
    <3>1. stage' = "predicted" /\ cause' = cause /\ stage' \in Negotiated
      BY <2>0, <2>2 DEF Negotiated
    <3>2. ObservationStands'
      BY <1>1, <3>1, ObservationStays DEF ExchangeInv
    <3>3. pol' = pol /\ Predictions' = Predictions
      BY <1>1, PairStands
    <3>4. predicted' \in Predictions' /\ Declared(predicted, pol)'
      BY <2>0, <2>2, <3>3 DEF Declared
    <3>5. broken' = 0 => Honest(predicted)'
      BY <2>0, <2>1, <3>3 DEF Honest, Declared
    <3>6. PredictionStands'
      BY <3>1, <3>4, <3>5 DEF PredictionStands
    <3> QED BY <1>1, <1>2, <2>1, <3>1, <3>2, <3>6, GoingOnKeeps
  <2>3. CASE ~Declared(p, pol)
    <3>1. stage' = "failed" /\ stage # "created"
      BY <1>1, <2>0, <2>3 DEF Fail
    <3>2. broken' > 0
      BY <2>1, <2>3 DEF Honest
    <3>3. CompatibleIsServed'
      BY <3>2 DEF CompatibleIsServed
    <3> QED BY <1>1, <1>2, <2>1, <3>1, <3>3, FailingKeeps
  <2> QED BY <2>2, <2>3
<1> QED BY <1>3, <1>4 DEF Predict

\* What an honest prediction is, and what the wire makes of a prediction.
LEMMA PredictionsAreRecords ==
  ASSUME NEW p \in Predictions
  PROVE  /\ p.horizon \in 1..(pol.most + 1)
         /\ \A s : LET a == [p EXCEPT !.spec = s]
                   IN a.spec = s /\ a.horizon = p.horizon /\ a.dtype = p.dtype /\ a.value = p.value
BY DEF Predictions

LEMMA TakingKeeps ==
  ASSUME ExchangeInv, TakeLocally \/ AnswerPrediction
  PROVE  ExchangeInv'
<1>1. /\ pairing' = pairing /\ announced' = announced /\ report' = report /\ executed' = executed
      /\ shown' = shown /\ seen' = seen /\ predicted' = predicted /\ broken' = broken
      /\ stage = "predicted" /\ broken \in Nat /\ pairing \in Pairings
  BY DEF TakeLocally, AnswerPrediction, ExchangeInv, ExchangeTypeOK
<1>2. /\ PairFits /\ stage \in Negotiated /\ announced = Announcement
      /\ report' = NegotiateCapabilities(bench, announced)
  BY <1>1 DEF ExchangeInv, NegotiationStands, Negotiated
<1>3. /\ predicted \in Predictions /\ Declared(predicted, pol)
      /\ broken = 0 => Honest(predicted)
  BY <1>1 DEF ExchangeInv, PredictionStands
<1>4. /\ announced.least = pol.least /\ announced.most = pol.most
      /\ announced.single = pol.single /\ announced.chunks = pol.chunks
      /\ announced.action = (IF Remote THEN SpecOverWire(pol.action) ELSE pol.action)
  BY <1>1, <1>2, WireKeepsDeclaration
<1>5. pol' = pol /\ EverythingShownIsTaken' = EverythingShownIsTaken
      /\ ProtocolDomain' = ProtocolDomain /\ Remote' = Remote
  BY <1>1, PairStands
<1>6. ASSUME Declared(taken', announced), taken'.horizon = predicted.horizon,
             taken'.dtype = predicted.dtype, taken'.value = predicted.value,
             stage' = "taken", cause' = cause
      PROVE  ExchangeInv'
  <2>1. ObservationStands'
    BY <1>1, <1>6, ObservationStays DEF ExchangeInv
  <2>2. taken'.horizon \in 1..(pol.most + 1)
    BY <1>3, <1>6, PredictionsAreRecords
  <2>3. broken = 0 => taken'.dtype = pol.action.dtype /\ taken'.value \in pol.action.low..pol.action.high
    BY <1>3, <1>6 DEF Honest
  <2>4. Declared(taken, announced)'
    BY <1>1, <1>6 DEF Declared
  <2>5. PredictionStands'
    BY <1>1, <1>5, <1>6, <2>2, <2>3, <2>4 DEF PredictionStands
  <2>6. stage' \in Negotiated
    BY <1>6 DEF Negotiated
  <2> QED BY <1>1, <1>2, <1>6, <2>1, <2>5, <2>6, GoingOnKeeps
<1>7. CASE TakeLocally
  <2>1. taken' = predicted /\ stage' = "taken" /\ cause' = cause /\ ~Remote
    BY <1>7 DEF TakeLocally
  <2>2. Declared(taken', announced)
    BY <1>3, <1>4, <2>1 DEF Declared
  <2> QED BY <1>6, <2>1, <2>2
<1>8. CASE AnswerPrediction
  <2> DEFINE wired == [predicted EXCEPT !.spec = SpecOverWire(@)]
  <2> PICK answer : answer = wired
    OBVIOUS
  <2>1. /\ Remote
        /\ IF ~Answerable(predicted) THEN Fail("protocol") /\ UNCHANGED taken
           ELSE IF ~Declared(answer, announced) THEN Fail("declaration") /\ UNCHANGED taken
           ELSE taken' = answer /\ stage' = "taken" /\ UNCHANGED cause
    BY <1>8 DEF AnswerPrediction
  <2>2. /\ answer.spec = SpecOverWire(predicted.spec) /\ answer.horizon = predicted.horizon
        /\ answer.dtype = predicted.dtype /\ answer.value = predicted.value
    BY <1>3, PredictionsAreRecords
  <2> HIDE DEF wired
  <2>3. Declared(answer, announced)
    BY <1>3, <1>4, <2>1, <2>2 DEF Declared
  <2>4. CASE Answerable(predicted)
    <3>1. taken' = answer /\ stage' = "taken" /\ cause' = cause
      BY <2>1, <2>3, <2>4
    <3>2. Declared(taken', announced)
      BY <2>3, <3>1
    <3> QED BY <1>6, <2>2, <3>1, <3>2
  <2>5. CASE ~Answerable(predicted)
    <3>1. stage' = "failed" /\ stage # "created"
      BY <1>1, <2>1, <2>5 DEF Fail
    <3>2. broken > 0 \/ ~ProtocolDomain
      <4> SUFFICES ASSUME broken = 0, ProtocolDomain PROVE Answerable(predicted)
        BY <1>1, <2>5
      <4>1. predicted.spec = pol.action /\ predicted.dtype = pol.action.dtype
        BY <1>3 DEF Honest, Declared
      <4>2. Conventions(bench.action) = Conventions(pol.action)
        BY <1>1, <1>2, CompatibleMeans
      <4>3. /\ bench.action.dimension = pol.action.dimension
            /\ bench.action.gripper = pol.action.gripper
            /\ bench.action.dtype = pol.action.dtype
        BY <4>2 DEF Conventions
      <4> QED BY <4>1, <4>3 DEF Answerable, ProtocolDomain
    <3>3. CompatibleIsServed'
      BY <1>1, <1>5, <2>1, <3>2 DEF CompatibleIsServed
    <3> QED BY <1>1, <1>2, <3>1, <3>3, FailingKeeps
  <2> QED BY <2>4, <2>5
<1> QED BY <1>7, <1>8

LEMMA ExecutingKeeps ==
  ASSUME ExchangeInv, Execute
  PROVE  ExchangeInv'
<1>1. /\ pairing' = pairing /\ announced' = announced /\ report' = report
      /\ shown' = shown /\ seen' = seen /\ broken' = broken
      /\ stage = "taken" /\ broken \in Nat /\ pairing \in Pairings
  BY DEF Execute, ExchangeInv, ExchangeTypeOK
<1>2. /\ PairFits /\ stage \in Negotiated /\ announced = Announcement
      /\ report' = NegotiateCapabilities(bench, announced)
  BY <1>1 DEF ExchangeInv, NegotiationStands, Negotiated
<1>3. /\ announced.least = pol.least /\ announced.most = pol.most
      /\ Conventions(announced.action) = Conventions(pol.action)
  BY <1>1, <1>2, WireKeepsDeclaration
<1>4. Conventions(bench.action) = Conventions(pol.action)
  BY <1>1, <1>2, CompatibleMeans
<1>5. /\ bench' = bench /\ pol' = pol
      /\ Announcement' = Announcement /\ PairFits' = PairFits
      /\ EverythingShownIsTaken' = EverythingShownIsTaken
  BY <1>1, PairStands
<1>6. Declared(taken, announced) /\ taken.horizon \in 1..(pol.most + 1)
  BY <1>1 DEF ExchangeInv, PredictionStands
<1>7. CASE Executable(taken)
  <2>1. executed' = taken /\ stage' = "active" /\ cause' = cause /\ cause = "none"
    BY <1>1, <1>7 DEF Execute, ExchangeInv, ExchangeTypeOK
  <2>2. /\ taken.dtype = bench.action.dtype
        /\ taken.value \in bench.action.low..bench.action.high
    BY <1>7 DEF Executable
  <2>3. /\ Conventions(taken.spec) = Conventions(bench.action)
        /\ taken.horizon \in pol.least..pol.most
    BY <1>3, <1>4, <1>6 DEF Declared
  <2>4. OnlyNegotiatedActions'
    BY <1>5, <2>1, <2>2, <2>3 DEF OnlyNegotiatedActions
  <2>5. ExchangeTypeOK'
    BY <1>1, <2>1 DEF ExchangeInv, ExchangeTypeOK, Negotiated
  <2>6. NegotiationStands'
    BY <1>1, <1>2, <1>5, <2>1 DEF NegotiationStands
  <2>7. ObservationStands' /\ PredictionStands'
    BY <2>1 DEF ObservationStands, PredictionStands
  <2>8. CompatibleIsServed'
    BY <2>1 DEF CompatibleIsServed
  <2> QED BY <2>4, <2>5, <2>6, <2>7, <2>8 DEF ExchangeInv
<1>8. CASE ~Executable(taken)
  <2>1. stage' = "failed" /\ stage # "created" /\ executed' = executed
    BY <1>1, <1>8 DEF Execute, Fail
  <2>2. broken > 0 \/ ~EverythingShownIsTaken
    <3> SUFFICES ASSUME broken = 0, EverythingShownIsTaken PROVE Executable(taken)
      BY <1>1, <1>8
    <3>1. taken.dtype = pol.action.dtype /\ taken.value \in pol.action.low..pol.action.high
      BY <1>1 DEF ExchangeInv, PredictionStands
    <3>2. /\ bench.action.dimension = pol.action.dimension
          /\ bench.action.dtype = pol.action.dtype
      BY <1>4 DEF Conventions
    <3>3. taken.spec.dimension = bench.action.dimension
      BY <1>3, <1>6, <3>2 DEF Declared, Conventions
    <3>4. /\ bench.action.low \in Int /\ bench.action.high \in Int
          /\ pol.action.low \in Int /\ pol.action.high \in Int
          /\ pol.least \in Nat /\ pol.most \in Nat
      BY <1>1, Declarations DEF bench, pol, BenchmarkCapabilities, PolicyCapabilities, ActionSpecs
    <3>5. taken.value \in bench.action.low..bench.action.high
      BY <3>1, <3>4 DEF EverythingShownIsTaken
    <3>6. taken.horizon \in 1..announced.most
      BY <1>3, <1>6, <3>4 DEF Declared
    <3> QED BY <3>1, <3>2, <3>3, <3>5, <3>6 DEF Executable
  <2>3. CompatibleIsServed'
    BY <1>1, <1>5, <2>2 DEF CompatibleIsServed
  <2> QED BY <1>1, <1>2, <2>1, <2>3, FailingKeeps
<1> QED BY <1>7, <1>8

LEMMA ExchangeInvKept == ExchangeInv /\ [ExchangeNext]_exchangeVars => ExchangeInv'
<1> SUFFICES ASSUME ExchangeInv, [ExchangeNext]_exchangeVars PROVE ExchangeInv'
  OBVIOUS
<1>1. CASE UNCHANGED exchangeVars
  <2>1. /\ pairing' = pairing /\ announced' = announced /\ report' = report /\ stage' = stage
        /\ shown' = shown /\ seen' = seen /\ predicted' = predicted /\ taken' = taken
        /\ executed' = executed /\ broken' = broken /\ cause' = cause
    BY <1>1 DEF exchangeVars
  <2>2. /\ bench' = bench /\ pol' = pol /\ Remote' = Remote
        /\ Announcement' = Announcement /\ PairFits' = PairFits
        /\ EverythingShownIsTaken' = EverythingShownIsTaken /\ ProtocolDomain' = ProtocolDomain
        /\ Predictions' = Predictions
    BY <2>1, PairStands
  <2>3. ExchangeTypeOK' /\ NegotiationStands'
    BY <2>1, <2>2 DEF ExchangeInv, ExchangeTypeOK, NegotiationStands
  <2>4. ObservationStands'
    BY <2>1, ObservationStays DEF ExchangeInv
  <2>5. PredictionStands'
    BY <2>1, <2>2 DEF ExchangeInv, PredictionStands, Declared, Honest
  <2>6. OnlyNegotiatedActions'
    BY <2>1, ActionsStand DEF ExchangeInv
  <2>7. FramesFit' = FramesFit
    BY <2>1 DEF FramesFit
  <2>8. CompatibleIsServed'
    BY <2>1, <2>2, <2>7 DEF ExchangeInv, CompatibleIsServed
  <2> QED BY <2>3, <2>4, <2>5, <2>6, <2>8 DEF ExchangeInv
<1>2. CASE ExchangeNext
  BY <1>2, NegotiatingKeeps, ShowingKeeps, PredictingKeeps, TakingKeeps, ExecutingKeeps DEF ExchangeNext
<1> QED BY <1>1, <1>2

LEMMA ExchangeInvIsEnough == ExchangeInv => NegotiationIsHonoured
<1> SUFFICES ASSUME ExchangeInv PROVE NegotiationIsHonoured
  OBVIOUS
<1>1. VerdictIsThePolicys
  <2> SUFFICES ASSUME stage \notin {"created", "announced"} PROVE NegotiateCapabilities(bench, pol) = report
    BY DEF VerdictIsThePolicys
  <2>1. announced = Announcement /\ report = NegotiateCapabilities(bench, announced) /\ pairing \in Pairings
    BY DEF ExchangeInv, NegotiationStands, ExchangeTypeOK
  <2> QED BY <2>1, VerdictSurvivesTheWire
<1>2. SeenIsShown
  <2> SUFFICES ASSUME stage \in {"seen", "predicted", "taken"}
               PROVE  /\ seen.proprio = shown.proprio
                      /\ NamesOf(seen.images) = NamesOf(shown.images)
                      /\ \A i \in seen.images : \E j \in shown.images : [i EXCEPT !.color = j.color] = j
                      /\ (~Remote \/ ((\A i \in shown.images : i.color = "rgb") /\ Kept(shown.images) = shown.images))
                           => seen = shown
    BY DEF SeenIsShown
  <2>1. /\ pairing \in Pairings /\ Observable(shown)
        /\ seen = IF Remote THEN OverWire(shown) ELSE shown
    BY DEF ExchangeInv, ObservationStands, ExchangeTypeOK
  <2>2. CASE ~Remote
    <3>1. seen = shown
      BY <2>1, <2>2
    <3>2. ASSUME NEW i \in seen.images PROVE [i EXCEPT !.color = i.color] = i
      <4>1. PICK s : i = [name |-> s.name, copy |-> i.copy, shape |-> i.shape, dtype |-> s.dtype,
                          encoding |-> i.encoding, color |-> i.color]
        BY <2>1, <3>1, <3>2, ImagesAreOfTheBench
      <4> PICK n, k, h, t, e, c :
            n = s.name /\ k = i.copy /\ h = i.shape /\ t = s.dtype /\ e = i.encoding /\ c = i.color
        OBVIOUS
      <4>2. i = [name |-> n, copy |-> k, shape |-> h, dtype |-> t, encoding |-> e, color |-> c]
        BY <4>1
      <4> QED BY <4>2
    <3> QED BY <3>1, <3>2
  <2>3. CASE Remote
    <3>1. seen = OverWire(shown)
      BY <2>1, <2>3
    <3>2. Kept(shown.images) \subseteq shown.images
      BY DEF Kept
    <3>3. /\ seen.proprio = shown.proprio /\ NamesOf(seen.images) = NamesOf(shown.images)
          /\ \A i \in seen.images : \E j \in Kept(shown.images) : [i EXCEPT !.color = j.color] = j
          /\ ((\A i \in shown.images : i.color = "rgb") /\ Kept(shown.images) = shown.images) => seen = shown
      BY <2>1, <3>1, WireShows
    <3> QED BY <2>3, <3>2, <3>3
  <2> QED BY <2>2, <2>3
<1> QED BY <1>1, <1>2 DEF ExchangeInv, NegotiationIsHonoured

(* Negotiation is honoured for every pair of declarations the constructors   *)
(* accept, in one process and over the wire, whatever the policy predicts:   *)
(* ovlab_contracts.capabilities.negotiate_capabilities, the adapters' base   *)
(* classes and the remote protocol's conversions together.                   *)
THEOREM NegotiationStaysHonoured == ExchangeSpec => []NegotiationIsHonoured
BY ExchangeInvInitially, ExchangeInvKept, ExchangeInvIsEnough, PTL DEF ExchangeSpec
-----------------------------------------------------------------------------
(* The composition of documents, for any tree of any size.  Composed is a    *)
(* recursive function on the sets of documents that wait; what holds of it   *)
(* is shown from the larger sets down to the empty one.                      *)

\* Of the subsets of a finite set, if there are some of a kind there is one
\* that no other of them contains.
LEMMA GreatestSubset ==
  ASSUME NEW S, IsFiniteSet(S), NEW Kind, Kind \subseteq SUBSET S, Kind # {}
  PROVE  \E m \in Kind : \A s \in Kind : m \subseteq s => s = m
<1> DEFINE Rests == {S \ s : s \in Kind}
<1>1. FiniteSubsetsOf(S) = SUBSET S
  BY FS_FiniteSubsetsOfFinite
<1>2. IsWellFoundedOn(StrictSubsetOrdering(S), SUBSET S)
  BY <1>1, FS_StrictSubsetOrderingWellFounded
<1>3. Rests \subseteq SUBSET S /\ Rests # {}
  <2>1. \E k \in Kind : S \ k \in Rests
    OBVIOUS
  <2>2. \A r \in Rests : r \in SUBSET S
    OBVIOUS
  <2> QED BY <2>1, <2>2
<1>4. PICK r \in Rests : \A s \in Rests : <<s, r>> \notin StrictSubsetOrdering(S)
  BY <1>2, <1>3, WFMin
<1>5. PICK m \in Kind : r = S \ m
  OBVIOUS
<1>6. ASSUME NEW s \in Kind, m \subseteq s, s # m PROVE FALSE
  <2>1. PICK x \in s : x \notin m
    BY <1>6
  <2>2. S \ s \subseteq r /\ S \ s # r /\ S \ s \in Rests /\ S \ s \in SUBSET S /\ r \in SUBSET S
    BY <1>3, <1>5, <1>6, <2>1
  <2>3. <<S \ s, r>> \in StrictSubsetOrdering(S)
    BY <2>2 DEF StrictSubsetOrdering
  <2> QED BY <1>4, <2>2, <2>3
<1> QED BY <1>6

\* What holds of a set when it holds of the sets with one more member holds of
\* all subsets of a finite set.
LEMMA FromLargerSets ==
  ASSUME NEW D, IsFiniteSet(D), NEW Sure,
         \A a \in SUBSET D : (\A n \in D \ a : a \union {n} \in Sure) => a \in Sure
  PROVE  SUBSET D \subseteq Sure
<1> PICK Bad : Bad = (SUBSET D) \ Sure
  OBVIOUS
<1> SUFFICES ASSUME Bad # {} PROVE FALSE
  OBVIOUS
<1>1. Bad \subseteq SUBSET D
  OBVIOUS
<1>2. PICK a \in Bad : \A s \in Bad : a \subseteq s => s = a
  BY <1>1, GreatestSubset
<1>3. ASSUME NEW n \in D \ a PROVE a \union {n} \in Sure
  <2>1. a \union {n} \in SUBSET D /\ a \subseteq a \union {n} /\ a \union {n} # a
    BY <1>1
  <2> QED BY <1>2, <2>1
<1> QED BY <1>1, <1>2, <1>3

Waiting(docs, least) == {above \in SUBSET DOMAIN docs : least \subseteq above}

\* The line of the recursion for one set of waiting documents.
ComposedAt(c, docs, rule, above) ==
  [name \in DOMAIN docs |->
     IF name \in above THEN Failed("cycle")
     ELSE ComposedOver(IF docs[name].extends \in DOMAIN docs
                         THEN c[above \union {name}][docs[name].extends]
                         ELSE Failed("missing"), docs[name], rule)]
ComposesFrom(c, docs, rule, least) ==
  c = [above \in Waiting(docs, least) |-> ComposedAt(c, docs, rule, above)]

\* A line depends on the lines of the sets with one more member only.
LEMMA ComposedAtDepends ==
  ASSUME NEW c, NEW d, NEW docs, NEW rule, NEW above,
         \A name \in DOMAIN docs \ above : c[above \union {name}] = d[above \union {name}]
  PROVE  ComposedAt(c, docs, rule, above) = ComposedAt(d, docs, rule, above)
BY DEF ComposedAt

LEMMA ComposesAt ==
  ASSUME NEW c, NEW docs, NEW rule, NEW least, ComposesFrom(c, docs, rule, least),
         NEW above \in SUBSET DOMAIN docs, least \subseteq above
  PROVE  c[above] = ComposedAt(c, docs, rule, above)
<1>1. above \in Waiting(docs, least)
  BY DEF Waiting
<1> HIDE DEF ComposedAt
<1> QED BY <1>1 DEF ComposesFrom

\* Two solutions agree wherever both say something.
LEMMA CompositionIsUnique ==
  ASSUME NEW docs, IsFiniteSet(DOMAIN docs), NEW rule, NEW c, NEW d, NEW one, NEW other,
         ComposesFrom(c, docs, rule, one), ComposesFrom(d, docs, rule, other)
  PROVE  \A above \in SUBSET DOMAIN docs : one \subseteq above /\ other \subseteq above => c[above] = d[above]
<1> DEFINE Sure == {above \in SUBSET DOMAIN docs :
                      one \subseteq above /\ other \subseteq above => c[above] = d[above]}
<1>1. ASSUME NEW a \in SUBSET DOMAIN docs, \A n \in DOMAIN docs \ a : a \union {n} \in Sure,
             one \subseteq a, other \subseteq a
      PROVE  c[a] = d[a]
  <2>1. \A n \in DOMAIN docs \ a : c[a \union {n}] = d[a \union {n}]
    BY <1>1
  <2>2. ComposedAt(c, docs, rule, a) = ComposedAt(d, docs, rule, a)
    BY <2>1, ComposedAtDepends
  <2> QED BY <1>1, <2>2, ComposesAt
<1>2. \A a \in SUBSET DOMAIN docs : (\A n \in DOMAIN docs \ a : a \union {n} \in Sure) => a \in Sure
  BY <1>1
<1> HIDE DEF Sure
<1>3. ASSUME NEW D, D = DOMAIN docs PROVE SUBSET D \subseteq Sure
  <2>1. IsFiniteSet(D) /\ \A a \in SUBSET D : (\A n \in D \ a : a \union {n} \in Sure) => a \in Sure
    BY <1>2, <1>3
  <2> QED BY <2>1, FromLargerSets, ZenonT(40)
<1> QED BY <1>3 DEF Sure

\* A solution that starts from each set exists.
LEMMA CompositionExists ==
  ASSUME NEW docs, IsFiniteSet(DOMAIN docs), NEW rule
  PROVE  \E c : ComposesFrom(c, docs, rule, {})
<1> DEFINE D == DOMAIN docs
           SolvedAbove(a) == \A b \in Waiting(docs, a) : \E c : ComposesFrom(c, docs, rule, b)
           Sure == {a \in SUBSET D : SolvedAbove(a)}
           solution(b) == CHOOSE c : ComposesFrom(c, docs, rule, b)
           whole == [b \in SUBSET D |-> solution(b)[b]]
<1>1. ASSUME NEW b \in SUBSET D, \E c : ComposesFrom(c, docs, rule, b),
             \A n \in D \ b : \E c : ComposesFrom(c, docs, rule, b \union {n})
      PROVE  whole[b] = ComposedAt(whole, docs, rule, b)
  <2>1. ComposesFrom(solution(b), docs, rule, b)
    BY <1>1
  <2>2. whole[b] = ComposedAt(solution(b), docs, rule, b)
    BY <2>1, ComposesAt
  <2>3. ASSUME NEW n \in D \ b PROVE solution(b)[b \union {n}] = whole[b \union {n}]
    <3>1. ComposesFrom(solution(b \union {n}), docs, rule, b \union {n})
      BY <1>1
    <3>2. b \union {n} \in SUBSET D /\ b \subseteq b \union {n}
      OBVIOUS
    <3> HIDE DEF solution
    <3> QED BY <2>1, <3>1, <3>2, CompositionIsUnique
  <2> HIDE DEF solution, whole
  <2>4. \A n \in D \ b : solution(b)[b \union {n}] = whole[b \union {n}]
    BY <2>3
  <2> QED BY <2>2, <2>4, ComposedAtDepends
<1>2. ASSUME NEW a \in SUBSET D, \A n \in D \ a : a \union {n} \in Sure
      PROVE  a \in Sure
  <2> DEFINE line == ComposedAt(whole, docs, rule, a)
             here == [b \in Waiting(docs, a) |-> IF b = a THEN line ELSE whole[b]]
  <2>1. \A b \in Waiting(docs, a) : b # a => b \in SUBSET D /\ \E c : ComposesFrom(c, docs, rule, b)
    <3>1. SUFFICES ASSUME NEW b \in Waiting(docs, a), b # a
                   PROVE  b \in SUBSET D /\ \E c : ComposesFrom(c, docs, rule, b)
      OBVIOUS
    <3>2. b \in SUBSET D /\ a \subseteq b
      BY DEF Waiting
    <3>3. PICK n \in D \ a : n \in b
      BY <3>1, <3>2
    <3>4. SolvedAbove(a \union {n})
      BY <1>2
    <3>5. b \in Waiting(docs, a \union {n})
      BY <3>2, <3>3 DEF Waiting
    <3> QED BY <3>2, <3>4, <3>5
  <2>2. \A b \in Waiting(docs, a) : here[b] = ComposedAt(here, docs, rule, b)
    <3>1. SUFFICES ASSUME NEW b \in Waiting(docs, a)
                   PROVE  here[b] = ComposedAt(here, docs, rule, b)
      OBVIOUS
    <3>2. b \in SUBSET D /\ a \subseteq b
      BY DEF Waiting
    <3>3. \A n \in D \ b : b \union {n} \in Waiting(docs, a) /\ b \union {n} # a
      BY <3>2 DEF Waiting
    <3> HIDE DEF line, whole
    <3>4. \A n \in D \ b : here[b \union {n}] = whole[b \union {n}]
      BY <3>3
    <3>5. ComposedAt(here, docs, rule, b) = ComposedAt(whole, docs, rule, b)
      BY <3>4, ComposedAtDepends
    <3>6. CASE b = a
      BY <3>5, <3>6 DEF line
    <3>7. CASE b # a
      <4>1. \E c : ComposesFrom(c, docs, rule, b)
        BY <2>1, <3>7
      <4>2. \A n \in D \ b : \E c : ComposesFrom(c, docs, rule, b \union {n})
        BY <2>1, <3>3
      <4>3. whole[b] = ComposedAt(whole, docs, rule, b)
        BY <1>1, <3>2, <4>1, <4>2
      <4> QED BY <3>5, <3>7, <4>3
    <3> QED BY <3>6, <3>7
  <2>3. ComposesFrom(here, docs, rule, a)
    <3>1. here = [b \in Waiting(docs, a) |-> here[b]]
      OBVIOUS
    <3> HIDE DEF here
    <3> QED BY <2>2, <3>1 DEF ComposesFrom
  <2>4. SolvedAbove(a)
    BY <2>1, <2>3
  <2> QED BY <2>4
<1>3. \A a \in SUBSET D : (\A n \in D \ a : a \union {n} \in Sure) => a \in Sure
  BY <1>2
<1>4. {} \in Sure
  <2> HIDE DEF Sure
  <2>1. ASSUME NEW S, S = D PROVE SUBSET S \subseteq Sure
    <3>1. IsFiniteSet(S) /\ \A a \in SUBSET S : (\A n \in S \ a : a \union {n} \in Sure) => a \in Sure
      BY <1>3, <2>1
    <3> QED BY <3>1, FromLargerSets, ZenonT(40)
  <2> QED BY <2>1
<1>5. {} \in Waiting(docs, {})
  BY DEF Waiting
<1> QED BY <1>4, <1>5

\* What Composed is, line by line.
LEMMA ComposedLines ==
  ASSUME NEW docs, IsFiniteSet(DOMAIN docs), NEW rule, NEW above \in SUBSET DOMAIN docs,
         NEW name \in DOMAIN docs
  PROVE  Composed(docs, rule)[above][name] =
           IF name \in above THEN Failed("cycle")
           ELSE ComposedOver(IF docs[name].extends \in DOMAIN docs
                               THEN Composed(docs, rule)[above \union {name}][docs[name].extends]
                               ELSE Failed("missing"), docs[name], rule)
<1> DEFINE Solves(c) == c = [a \in SUBSET DOMAIN docs |-> ComposedAt(c, docs, rule, a)]
<1>1. Waiting(docs, {}) = SUBSET DOMAIN docs
  BY DEF Waiting
<1>2. \E c : Solves(c)
  <2>1. PICK c : ComposesFrom(c, docs, rule, {})
    BY CompositionExists
  <2> HIDE DEF ComposedAt
  <2> QED BY <1>1, <2>1 DEF ComposesFrom
<1>3. Composed(docs, rule) = CHOOSE c : Solves(c)
  BY DEF Composed, ComposedAt
<1>4. Solves(Composed(docs, rule))
  <2> HIDE DEF Solves
  <2> QED BY <1>2, <1>3
<1>5. Composed(docs, rule)[above] = ComposedAt(Composed(docs, rule), docs, rule, above)
  <2> DEFINE c == Composed(docs, rule)
  <2> HIDE DEF c
  <2>1. c = [a \in SUBSET DOMAIN docs |-> ComposedAt(c, docs, rule, a)]
    BY <1>4 DEF c
  <2>2. c[above] = ComposedAt(c, docs, rule, above)
    BY <2>1
  <2> QED BY <2>2 DEF c
<1> QED BY <1>5 DEF ComposedAt

\* One composition, from its parent.
ParentOf(docs, name, kind) ==
  IF docs[name].extends \in DOMAIN docs
    THEN Composed(docs, Validated(kind))[{name}][docs[name].extends]
  ELSE Failed("missing")

LEMMA LoadIs ==
  ASSUME NEW docs, IsTree(docs), NEW name, NEW kind
  PROVE  Load(docs, name, kind) =
           IF name \in DOMAIN docs
             THEN ComposedOver(ParentOf(docs, name, kind), docs[name], Validated(kind))
           ELSE Failed("missing")
<1>1. IsFiniteSet(DOMAIN docs) /\ {} \in SUBSET DOMAIN docs /\ {} \union {name} = {name}
  BY DEF IsTree
<1>2. CASE name \in DOMAIN docs
  BY <1>1, <1>2, ComposedLines DEF Load, ParentOf
<1> QED BY <1>2 DEF Load

LEMMA ComposedOverOk ==
  ASSUME NEW parent, NEW doc, NEW rule, Ok(ComposedOver(parent, doc, rule))
  PROVE  LET set == IF doc.extends = "none" THEN doc.set ELSE Merge(parent.set, doc.set)
         IN  /\ doc.kind = rule.kind
             /\ ComposedOver(parent, doc, rule) = [error |-> "none", type |-> doc.type, set |-> set]
             /\ doc.extends # "none" => Ok(parent)
             /\ rule.checked => Valid(rule.kind, doc.type, set)
<1> DEFINE set == IF doc.extends = "none" THEN doc.set ELSE Merge(parent.set, doc.set)
           valid == Valid(rule.kind, doc.type, set)
           orphan == doc.extends # "none" /\ ~Ok(parent)
           over == IF doc.kind # rule.kind THEN Failed("kind")
                   ELSE IF orphan THEN parent
                   ELSE IF rule.checked /\ doc.extends # "none" /\ parent.type # doc.type
                     THEN Failed("type")
                   ELSE IF rule.checked /\ ~valid THEN Failed("schema")
                   ELSE [error |-> "none", type |-> doc.type, set |-> set]
<1>1. ComposedOver(parent, doc, rule) = over
  BY DEF ComposedOver
<1>2. Ok(over)
  BY <1>1
<1> HIDE DEF valid, set
<1>3. /\ doc.kind = rule.kind /\ over = [error |-> "none", type |-> doc.type, set |-> set]
      /\ ~orphan /\ (rule.checked => valid)
  BY <1>2 DEF Ok, Failed
<1> HIDE DEF over
<1> QED BY <1>1, <1>3 DEF set, valid

LEMMA LoadOk ==
  ASSUME NEW docs, IsTree(docs), NEW name, NEW kind, Ok(Load(docs, name, kind))
  PROVE  /\ name \in DOMAIN docs /\ docs[name].kind = kind
         /\ Load(docs, name, kind).type = docs[name].type
         /\ Load(docs, name, kind).set =
              IF docs[name].extends = "none" THEN docs[name].set
              ELSE Merge(ParentOf(docs, name, kind).set, docs[name].set)
         /\ Valid(kind, docs[name].type, Load(docs, name, kind).set)
<1>1. name \in DOMAIN docs
  BY LoadIs DEF Ok, Failed
<1>2. Load(docs, name, kind) = ComposedOver(ParentOf(docs, name, kind), docs[name], Validated(kind))
  BY <1>1, LoadIs
<1>3. Validated(kind).kind = kind /\ Validated(kind).checked
  BY DEF Validated
<1> DEFINE set == IF docs[name].extends = "none" THEN docs[name].set
                  ELSE Merge(ParentOf(docs, name, kind).set, docs[name].set)
<1>4. /\ docs[name].kind = kind /\ Valid(kind, docs[name].type, set)
      /\ Load(docs, name, kind) = [error |-> "none", type |-> docs[name].type, set |-> set]
  BY <1>2, <1>3, ComposedOverOk
<1> HIDE DEF set
<1>5. Load(docs, name, kind).set = set /\ Load(docs, name, kind).type = docs[name].type
  BY <1>4
<1> QED BY <1>1, <1>4, <1>5 DEF set

(* What passes the checks, the selection of a checkpoint reads as well.      *)
LEMMA CheckedAsTrusted ==
  ASSUME NEW docs, IsTree(docs), NEW kind
  PROVE  \A above \in SUBSET DOMAIN docs : \A name \in DOMAIN docs :
           Ok(Composed(docs, Validated(kind))[above][name]) =>
             Composed(docs, Unvalidated(kind))[above][name]
               = Composed(docs, Validated(kind))[above][name]
<1> DEFINE Read(above) == \A name \in DOMAIN docs :
                            Ok(Composed(docs, Validated(kind))[above][name]) =>
                              Composed(docs, Unvalidated(kind))[above][name]
                                = Composed(docs, Validated(kind))[above][name]
           Sure == {above \in SUBSET DOMAIN docs : Read(above)}
<1>1. IsFiniteSet(DOMAIN docs)
  BY DEF IsTree
<1>2. /\ Validated(kind).kind = kind /\ Unvalidated(kind).kind = kind
      /\ ~Unvalidated(kind).checked
  BY DEF Validated, Unvalidated
<1>3. ASSUME NEW a \in SUBSET DOMAIN docs, \A n \in DOMAIN docs \ a : a \union {n} \in Sure,
             NEW name \in DOMAIN docs, Ok(Composed(docs, Validated(kind))[a][name])
      PROVE  Composed(docs, Unvalidated(kind))[a][name] = Composed(docs, Validated(kind))[a][name]
  <2> DEFINE parent(rule) == IF docs[name].extends \in DOMAIN docs
                               THEN Composed(docs, rule)[a \union {name}][docs[name].extends]
                               ELSE Failed("missing")
             line(rule) == IF name \in a THEN Failed("cycle")
                           ELSE ComposedOver(parent(rule), docs[name], rule)
  <2>1. \A rule : Composed(docs, rule)[a][name] = line(rule)
    BY <1>1, ComposedLines
  <2>2. name \notin a
    BY <1>3, <2>1 DEF Ok, Failed
  <2>3. Read(a \union {name})
    BY <1>3, <2>2
  <2>4. Ok(parent(Validated(kind))) => parent(Unvalidated(kind)) = parent(Validated(kind))
    BY <2>3
  <2> HIDE DEF parent
  <2>5. Ok(ComposedOver(parent(Validated(kind)), docs[name], Validated(kind)))
    BY <1>3, <2>1, <2>2
  <2> DEFINE doc == docs[name]
             set(p) == IF doc.extends = "none" THEN doc.set ELSE Merge(p.set, doc.set)
  <2>6. /\ doc.kind = kind /\ (doc.extends # "none" => Ok(parent(Validated(kind))))
        /\ ComposedOver(parent(Validated(kind)), doc, Validated(kind))
             = [error |-> "none", type |-> doc.type, set |-> set(parent(Validated(kind)))]
    BY <1>2, <2>5, ComposedOverOk
  <2>7. set(parent(Unvalidated(kind))) = set(parent(Validated(kind)))
    BY <2>4, <2>6
  <2>8. ComposedOver(parent(Unvalidated(kind)), doc, Unvalidated(kind))
          = [error |-> "none", type |-> doc.type, set |-> set(parent(Unvalidated(kind)))]
    BY <1>2, <2>4, <2>6 DEF ComposedOver
  <2> QED BY <2>1, <2>2, <2>6, <2>7, <2>8
<1>4. \A a \in SUBSET DOMAIN docs : (\A n \in DOMAIN docs \ a : a \union {n} \in Sure) => a \in Sure
  BY <1>3
<1> HIDE DEF Sure
<1>5. ASSUME NEW D, D = DOMAIN docs PROVE SUBSET D \subseteq Sure
  <2>1. IsFiniteSet(D) /\ \A a \in SUBSET D : (\A n \in D \ a : a \union {n} \in Sure) => a \in Sure
    BY <1>1, <1>4, <1>5
  <2> QED BY <2>1, FromLargerSets, ZenonT(40)
<1> QED BY <1>5 DEF Sure

LEMMA LoadAsUnchecked ==
  ASSUME NEW docs, IsTree(docs), NEW name, NEW kind, Ok(Load(docs, name, kind))
  PROVE  LoadUnchecked(docs, name, kind) = Load(docs, name, kind)
<1>1. name \in DOMAIN docs
  BY LoadOk
<1>2. {} \in SUBSET DOMAIN docs /\ Ok(Composed(docs, Validated(kind))[{}][name])
  BY <1>1 DEF Load
<1>3. Composed(docs, Unvalidated(kind))[{}][name] = Composed(docs, Validated(kind))[{}][name]
  BY <1>1, <1>2, CheckedAsTrusted
<1> QED BY <1>1, <1>3 DEF Load, LoadUnchecked

\* The override changes one setting of one document.
IsOverlay(over, docs, policy, quantization) ==
  /\ IsTree(over) /\ DOMAIN over = DOMAIN docs
  /\ \A d \in DOMAIN docs : d # policy => over[d] = docs[d]
  /\ \A d \in DOMAIN docs :
       over[d].kind = docs[d].kind /\ over[d].extends = docs[d].extends /\ over[d].type = docs[d].type
  /\ over[policy].set = IF quantization = "unset" THEN docs[policy].set
                        ELSE [docs[policy].set EXCEPT !["quantization"] = quantization]

LEMMA OverlaidTree ==
  ASSUME NEW docs, IsTree(docs), NEW policy \in DOMAIN docs, NEW quantization
  PROVE  IsOverlay(Overlaid(docs, policy, quantization), docs, policy, quantization)
<1>1. CASE quantization = "unset"
  BY <1>1 DEF Overlaid, IsOverlay
<1>2. CASE quantization # "unset"
  <2> DEFINE set == [docs[policy].set EXCEPT !["quantization"] = quantization]
             doc == [docs[policy] EXCEPT !.set = set]
             over == [docs EXCEPT ![policy] = doc]
  <2>1. Overlaid(docs, policy, quantization) = [docs EXCEPT ![policy] = doc]
    BY <1>2 DEF Overlaid
  <2>2. IsDocument(docs[policy])
    BY DEF IsTree
  <2>4. DOMAIN set = SettingKeys
    BY <2>2 DEF IsDocument
  <2> HIDE DEF set
  <2>5. IsDocument(doc) /\ doc.set = set /\ doc.kind = docs[policy].kind
        /\ doc.extends = docs[policy].extends /\ doc.type = docs[policy].type
    BY <2>2, <2>4 DEF IsDocument
  <2> HIDE DEF doc
  <2>6. DOMAIN over = DOMAIN docs /\ over[policy] = doc
        /\ \A d \in DOMAIN docs : d # policy => over[d] = docs[d]
    OBVIOUS
  <2> HIDE DEF over
  <2>7. IsTree(over)
    BY <2>5, <2>6 DEF IsTree
  <2>8. IsOverlay(over, docs, policy, quantization)
    BY <1>2, <2>5, <2>6, <2>7 DEF set, IsOverlay
  <2> QED BY <2>1, <2>8 DEF over
<1> QED BY <1>1, <1>2

\* Compositions of another kind, and those for which the policy's document
\* waits, do not see the override.
LEMMA OverrideIsUnseen ==
  ASSUME NEW docs, IsTree(docs), NEW policy \in DOMAIN docs, NEW quantization, NEW rule,
         NEW over, over = Overlaid(docs, policy, quantization)
  PROVE  \A above \in SUBSET DOMAIN docs :
           docs[policy].kind # rule.kind \/ policy \in above =>
             \A name \in DOMAIN docs :
               Composed(over, rule)[above][name] = Composed(docs, rule)[above][name]
<1> DEFINE Same(above) == \A name \in DOMAIN docs :
                            Composed(over, rule)[above][name] = Composed(docs, rule)[above][name]
           Sure == {above \in SUBSET DOMAIN docs :
                      docs[policy].kind # rule.kind \/ policy \in above => Same(above)}
<1>1. /\ IsTree(over) /\ DOMAIN over = DOMAIN docs
      /\ \A d \in DOMAIN docs : d # policy => over[d] = docs[d]
      /\ \A d \in DOMAIN docs : over[d].kind = docs[d].kind /\ over[d].extends = docs[d].extends
  <2>1. IsOverlay(over, docs, policy, quantization)
    BY OverlaidTree
  <2> QED BY <2>1 DEF IsOverlay
<1>2. IsFiniteSet(DOMAIN docs) /\ IsFiniteSet(DOMAIN over)
  BY <1>1 DEF IsTree
<1>3. ASSUME NEW a \in SUBSET DOMAIN docs, \A n \in DOMAIN docs \ a : a \union {n} \in Sure,
             docs[policy].kind # rule.kind \/ policy \in a, NEW name \in DOMAIN docs
      PROVE  Composed(over, rule)[a][name] = Composed(docs, rule)[a][name]
  <2>1. CASE name \in a
    BY <1>1, <1>2, <2>1, ComposedLines
  <2>2. CASE name \notin a
    <3> DEFINE parent(t) == IF t[name].extends \in DOMAIN docs
                              THEN Composed(t, rule)[a \union {name}][t[name].extends]
                              ELSE Failed("missing")
    <3>1. Same(a \union {name})
      BY <1>3, <2>2
    <3>2. parent(over) = parent(docs)
      BY <1>1, <3>1
    <3>3. Composed(over, rule)[a][name] = ComposedOver(parent(over), over[name], rule)
      BY <1>1, <1>2, <2>2, ComposedLines, SMTT(60)
    <3>4. Composed(docs, rule)[a][name] = ComposedOver(parent(docs), docs[name], rule)
      BY <1>2, <2>2, ComposedLines, SMTT(60)
    <3> HIDE DEF parent
    <3>5. CASE name = policy
      <4>1. over[name].kind # rule.kind /\ docs[name].kind # rule.kind
        BY <1>1, <1>3, <2>2, <3>5
      <4>2. ComposedOver(parent(over), over[name], rule) = Failed("kind")
        BY <4>1 DEF ComposedOver
      <4>3. ComposedOver(parent(docs), docs[name], rule) = Failed("kind")
        BY <4>1 DEF ComposedOver
      <4> QED BY <3>3, <3>4, <4>2, <4>3
    <3>6. CASE name # policy
      BY <1>1, <3>2, <3>3, <3>4, <3>6
    <3> QED BY <3>5, <3>6
  <2> QED BY <2>1, <2>2
<1>4. \A a \in SUBSET DOMAIN docs : (\A n \in DOMAIN docs \ a : a \union {n} \in Sure) => a \in Sure
  BY <1>3
<1> HIDE DEF Sure
<1>5. ASSUME NEW D, D = DOMAIN docs PROVE SUBSET D \subseteq Sure
  <2>1. IsFiniteSet(D) /\ \A a \in SUBSET D : (\A n \in D \ a : a \union {n} \in Sure) => a \in Sure
    BY <1>2, <1>4, <1>5
  <2> QED BY <2>1, FromLargerSets, ZenonT(40)
<1> QED BY <1>5 DEF Sure

LEMMA LoadOverlaid ==
  ASSUME NEW docs, IsTree(docs), NEW policy \in DOMAIN docs, NEW quantization, NEW kind,
         docs[policy].kind # kind, NEW over, over = Overlaid(docs, policy, quantization), NEW name
  PROVE  Load(over, name, kind) = Load(docs, name, kind)
<1>1. DOMAIN over = DOMAIN docs
  <2>1. IsOverlay(Overlaid(docs, policy, quantization), docs, policy, quantization)
    BY OverlaidTree, ZenonT(40)
  <2> QED BY <2>1 DEF IsOverlay
<1>2. {} \in SUBSET DOMAIN docs
  OBVIOUS
<1>3. \A n \in DOMAIN docs :
        Composed(over, Validated(kind))[{}][n] = Composed(docs, Validated(kind))[{}][n]
  <2>1. docs[policy].kind # Validated(kind).kind
    BY DEF Validated
  <2> QED BY <1>2, <2>1, OverrideIsUnseen
<1> QED BY <1>1, <1>3 DEF Load

\* What the override makes of the policy it is written into.
LEMMA LoadOverridden ==
  ASSUME NEW docs, IsTree(docs), NEW policy, NEW quantization,
         Ok(Load(docs, policy, "policy")),
         NEW over, over = Overlaid(docs, policy, quantization), Ok(Load(over, policy, "policy"))
  PROVE  /\ Load(over, policy, "policy").type = Load(docs, policy, "policy").type
         /\ \A k \in SettingKeys : k # "quantization" =>
              Load(over, policy, "policy").set[k] = Load(docs, policy, "policy").set[k]
         /\ quantization # "unset" => Load(over, policy, "policy").set["quantization"] = quantization
<1>1. policy \in DOMAIN docs
  BY LoadOk
<1>2. /\ IsTree(over) /\ DOMAIN over = DOMAIN docs
      /\ over[policy].extends = docs[policy].extends /\ over[policy].type = docs[policy].type
      /\ over[policy].set = IF quantization = "unset" THEN docs[policy].set
                            ELSE [docs[policy].set EXCEPT !["quantization"] = quantization]
  BY <1>1, OverlaidTree DEF IsOverlay
<1> DEFINE mine(t) == IF t[policy].extends = "none" THEN t[policy].set
                      ELSE Merge(ParentOf(t, policy, "policy").set, t[policy].set)
<1>3. /\ Load(docs, policy, "policy").type = docs[policy].type
      /\ Load(docs, policy, "policy").set = mine(docs)
  BY LoadOk
<1>4. /\ Load(over, policy, "policy").type = over[policy].type
      /\ Load(over, policy, "policy").set = mine(over)
  BY <1>2, LoadOk
<1>5. ParentOf(over, policy, "policy") = ParentOf(docs, policy, "policy")
  <2>1. {policy} \in SUBSET DOMAIN docs
    BY <1>1
  <2>2. \A n \in DOMAIN docs :
          Composed(over, Validated("policy"))[{policy}][n]
            = Composed(docs, Validated("policy"))[{policy}][n]
    BY <1>1, <2>1, OverrideIsUnseen
  <2> QED BY <1>2, <2>2 DEF ParentOf
<1>6. DOMAIN docs[policy].set = SettingKeys
  BY <1>1 DEF IsTree, IsDocument
<1>7. \A k \in SettingKeys : k # "quantization" => over[policy].set[k] = docs[policy].set[k]
  BY <1>2, <1>6
<1>8. quantization # "unset" => over[policy].set["quantization"] = quantization
  BY <1>2, <1>6 DEF SettingKeys
<1>9. ASSUME NEW k \in SettingKeys, k # "quantization" PROVE mine(over)[k] = mine(docs)[k]
  BY <1>2, <1>5, <1>7, <1>9 DEF Merge
<1>10. quantization # "unset" => mine(over)["quantization"] = quantization
  <2>1. "quantization" \in SettingKeys
    BY DEF SettingKeys
  <2> QED BY <1>8, <2>1 DEF Merge
<1> HIDE DEF mine
<1> QED BY <1>2, <1>3, <1>4, <1>9, <1>10

\* A part of a tree that holds the parents of its documents composes as the tree.
LEMMA PartComposes ==
  ASSUME NEW docs, IsTree(docs), NEW S \in SUBSET DOMAIN docs, HoldsParents(docs, S), NEW rule,
         NEW part, part = [d \in S |-> docs[d]]
  PROVE  \A above \in SUBSET S : \A name \in S :
           Composed(part, rule)[above][name] = Composed(docs, rule)[above][name]
<1> DEFINE Same(above) == \A name \in S :
                            Composed(part, rule)[above][name] = Composed(docs, rule)[above][name]
           Sure == {above \in SUBSET S : Same(above)}
<1>1. DOMAIN part = S /\ \A d \in S : part[d] = docs[d]
  OBVIOUS
<1>2. IsFiniteSet(DOMAIN docs) /\ IsFiniteSet(S) /\ IsFiniteSet(DOMAIN part)
  BY <1>1, FS_Subset DEF IsTree
<1>3. ASSUME NEW a \in SUBSET S, \A n \in S \ a : a \union {n} \in Sure, NEW name \in S
      PROVE  Composed(part, rule)[a][name] = Composed(docs, rule)[a][name]
  <2>1. a \in SUBSET DOMAIN docs /\ a \in SUBSET DOMAIN part
    BY <1>1
  <2>2. CASE name \in a
    BY <1>1, <1>2, <2>1, <2>2, ComposedLines
  <2>3. CASE name \notin a
    <3> DEFINE parent(t) == IF t[name].extends \in DOMAIN t
                              THEN Composed(t, rule)[a \union {name}][t[name].extends]
                              ELSE Failed("missing")
    <3>1. Same(a \union {name})
      BY <1>3, <2>3
    <3>2. docs[name].extends \in DOMAIN docs <=> docs[name].extends \in S
      BY DEF HoldsParents
    <3>3. parent(part) = parent(docs)
      BY <1>1, <3>1, <3>2
    <3>4. Composed(part, rule)[a][name] = ComposedOver(parent(part), part[name], rule)
      BY <1>1, <1>2, <2>1, <2>3, ComposedLines
    <3>5. Composed(docs, rule)[a][name] = ComposedOver(parent(docs), docs[name], rule)
      BY <1>2, <2>1, <2>3, ComposedLines
    <3> HIDE DEF parent
    <3> QED BY <1>1, <3>3, <3>4, <3>5
  <2> QED BY <2>2, <2>3
<1>4. \A a \in SUBSET S : (\A n \in S \ a : a \union {n} \in Sure) => a \in Sure
  BY <1>3
<1> HIDE DEF Sure
<1>5. SUBSET S \subseteq Sure
  BY <1>2, <1>4, FromLargerSets, ZenonT(40)
<1> QED BY <1>5 DEF Sure

LEMMA LoadPart ==
  ASSUME NEW docs, IsTree(docs), NEW S \in SUBSET DOMAIN docs, HoldsParents(docs, S), NEW kind,
         NEW part, part = [d \in S |-> docs[d]], NEW name \in S
  PROVE  Load(part, name, kind) = Load(docs, name, kind)
<1>1. DOMAIN part = S /\ {} \in SUBSET S /\ name \in DOMAIN docs
  OBVIOUS
<1>2. Composed(part, Validated(kind))[{}][name] = Composed(docs, Validated(kind))[{}][name]
  BY <1>1, PartComposes
<1> QED BY <1>1, <1>2 DEF Load

\* The closure of a document holds it and the parents of its members.
LEMMA ClosureHolds ==
  ASSUME NEW docs, NEW name \in DOMAIN docs
  PROVE  /\ name \in Closure(docs, name) /\ Closure(docs, name) \in SUBSET DOMAIN docs
         /\ HoldsParents(docs, Closure(docs, name))
BY DEF Closure, HoldsParents

LEMMA HeldTogether ==
  ASSUME NEW docs, NEW Sets, \A s \in Sets : s \in SUBSET DOMAIN docs /\ HoldsParents(docs, s)
  PROVE  UNION Sets \in SUBSET DOMAIN docs /\ HoldsParents(docs, UNION Sets)
BY DEF HoldsParents

-----------------------------------------------------------------------------
(* The bundle, and what is resolved from it.                                 *)

TopOf(docs) == Load(docs, "exp", "experiment")
Component(docs, k) == Load(docs, TopOf(docs).set[k], KindOf(k))
ComponentsOk(docs) == Ok(TopOf(docs)) /\ \A k \in ComponentNames : Ok(Component(docs, k))
SelectedOf(docs) ==
  Closure(docs, "exp") \union UNION {Closure(docs, TopOf(docs).set[k]) : k \in ComponentNames}

LEMMA ComponentKinds ==
  /\ "policy" \in ComponentNames /\ "registry" \in ComponentNames
  /\ KindOf("policy") = "policy" /\ KindOf("registry") = "resource_registry"
  /\ \A k \in ComponentNames : k # "policy" => KindOf(k) # "policy"
BY DEF ComponentNames, KindOf

\* What a bundle that was built says of the documents it was built from.
LEMMA BundleIs ==
  ASSUME NEW docs, NEW cli, Ok(BuildBundle(docs, "exp", cli))
  PROVE  LET bundle == BuildBundle(docs, "exp", cli)
             over == Overlaid(docs, bundle.policy, cli)
         IN  /\ ComponentsOk(docs)
             /\ bundle.policy = TopOf(docs).set["policy"]
             /\ Ok(Load(over, bundle.policy, "policy"))
             /\ bundle.files = [d \in SelectedOf(docs) |-> over[d]]
<1> DEFINE top == TopOf(docs)
           policy == top.set["policy"]
           over == Overlaid(docs, policy, cli)
           files == [d \in SelectedOf(docs) |-> over[d]]
           bad == {k \in ComponentNames : ~Ok(Component(docs, k))}
           made == [error |-> "none", experiment |-> "exp", policy |-> policy, files |-> files]
           bundle == BuildBundle(docs, "exp", cli)
<1>1. bundle = IF ~Ok(top) THEN top
               ELSE IF bad # {} THEN Failed("component")
               ELSE IF ~Ok(Load(over, policy, "policy")) THEN Failed("override") ELSE made
  BY DEF BuildBundle, TopOf, Component, SelectedOf
<1>2. Ok(bundle)
  OBVIOUS
<1> HIDE DEF top, policy, over, files, bad, bundle
<1>3. Ok(top) /\ bad = {} /\ Ok(Load(over, policy, "policy")) /\ bundle = made
  BY <1>1, <1>2 DEF Ok, Failed
<1>4. bundle.policy = policy /\ bundle.files = files
  BY <1>3
<1>5. ComponentsOk(docs)
  BY <1>3 DEF bad, top, ComponentsOk
<1> QED BY <1>3, <1>4, <1>5 DEF bundle, over, files, policy, top

\* The documents selected for the bundle hold their parents and every reference
\* of the experiment.
LEMMA SelectedHolds ==
  ASSUME NEW docs, IsTree(docs), ComponentsOk(docs)
  PROVE  /\ SelectedOf(docs) \in SUBSET DOMAIN docs /\ HoldsParents(docs, SelectedOf(docs))
         /\ "exp" \in SelectedOf(docs)
         /\ \A k \in ComponentNames : TopOf(docs).set[k] \in SelectedOf(docs)
<1> DEFINE Names == {"exp"} \union {TopOf(docs).set[k] : k \in ComponentNames}
           Sets == {Closure(docs, n) : n \in Names}
<1>1. \A n \in Names : n \in DOMAIN docs
  <2>1. "exp" \in DOMAIN docs
    BY LoadOk DEF ComponentsOk, TopOf
  <2>2. \A k \in ComponentNames : TopOf(docs).set[k] \in DOMAIN docs
    BY LoadOk DEF ComponentsOk, Component
  <2> QED BY <2>1, <2>2
<1>2. SelectedOf(docs) = UNION Sets
  BY DEF SelectedOf
<1>3. \A s \in Sets : s \in SUBSET DOMAIN docs /\ HoldsParents(docs, s)
  BY <1>1, ClosureHolds
<1>4. \A n \in Names : n \in UNION Sets
  BY <1>1, ClosureHolds
<1>5. "exp" \in Names /\ \A k \in ComponentNames : TopOf(docs).set[k] \in Names
  OBVIOUS
<1> HIDE DEF Names, Sets
<1>6. UNION Sets \in SUBSET DOMAIN docs /\ HoldsParents(docs, UNION Sets)
  BY <1>3, HeldTogether
<1> QED BY <1>2, <1>4, <1>5, <1>6

\* The files of the bundle compose as all documents with the override do; only
\* the policy differs from what the documents without it compose to.
LEMMA BundleComposes ==
  ASSUME NEW docs, IsTree(docs), NEW cli, Ok(BuildBundle(docs, "exp", cli)),
         NEW over, over = Overlaid(docs, BuildBundle(docs, "exp", cli).policy, cli),
         NEW files, files = BuildBundle(docs, "exp", cli).files
  PROVE  /\ TopOf(over) = TopOf(docs) /\ TopOf(files) = TopOf(docs)
         /\ ComponentsOk(docs) /\ ComponentsOk(over) /\ ComponentsOk(files)
         /\ \A k \in ComponentNames : Component(files, k) = Component(over, k)
         /\ \A k \in ComponentNames : k # "policy" => Component(over, k) = Component(docs, k)
         /\ Component(over, "policy").type = Component(docs, "policy").type
         /\ \A k \in SettingKeys : k # "quantization" =>
              Component(over, "policy").set[k] = Component(docs, "policy").set[k]
         /\ cli # "unset" => Component(over, "policy").set["quantization"] = cli
<1> DEFINE policy == TopOf(docs).set["policy"]
<1>1. /\ ComponentsOk(docs) /\ over = Overlaid(docs, policy, cli)
      /\ Ok(Load(over, policy, "policy")) /\ files = [d \in SelectedOf(docs) |-> over[d]]
  BY BundleIs
<1> HIDE DEF policy
<1>2. Component(docs, "policy") = Load(docs, policy, "policy")
  BY ComponentKinds DEF Component, policy
<1>3. Ok(Load(docs, policy, "policy"))
  BY <1>1, <1>2, ComponentKinds DEF ComponentsOk
<1>4. policy \in DOMAIN docs /\ docs[policy].kind = "policy"
  BY <1>3, LoadOk
<1>5. IsTree(over) /\ DOMAIN over = DOMAIN docs /\ \A d \in DOMAIN docs : over[d].extends = docs[d].extends
  <2>1. IsOverlay(over, docs, policy, cli)
    BY <1>1, <1>4, OverlaidTree
  <2> QED BY <2>1 DEF IsOverlay
<1>6. \A kind, name : kind # "policy" => Load(over, name, kind) = Load(docs, name, kind)
  BY <1>1, <1>4, LoadOverlaid
<1>7. TopOf(over) = TopOf(docs)
  BY <1>6 DEF TopOf
<1>8. \A k \in ComponentNames : k # "policy" => Component(over, k) = Component(docs, k)
  BY <1>6, <1>7, ComponentKinds DEF Component
<1>9. Component(over, "policy") = Load(over, policy, "policy")
  BY <1>7, ComponentKinds DEF Component, policy
<1>10. ComponentsOk(over)
  BY <1>1, <1>7, <1>8, <1>9 DEF ComponentsOk
<1>11. SelectedOf(docs) \in SUBSET DOMAIN over /\ HoldsParents(over, SelectedOf(docs))
       /\ "exp" \in SelectedOf(docs) /\ \A k \in ComponentNames : TopOf(docs).set[k] \in SelectedOf(docs)
  BY <1>1, <1>5, SelectedHolds DEF HoldsParents
<1>12. \A kind : \A name \in SelectedOf(docs) : Load(files, name, kind) = Load(over, name, kind)
  BY <1>1, <1>5, <1>11, LoadPart
<1>13. TopOf(files) = TopOf(docs)
  BY <1>7, <1>11, <1>12 DEF TopOf
<1>14. \A k \in ComponentNames : Component(files, k) = Component(over, k)
  BY <1>7, <1>11, <1>12, <1>13 DEF Component
<1>15. ComponentsOk(files)
  BY <1>7, <1>10, <1>13, <1>14 DEF ComponentsOk
<1>16. /\ Load(over, policy, "policy").type = Load(docs, policy, "policy").type
       /\ \A k \in SettingKeys : k # "quantization" =>
            Load(over, policy, "policy").set[k] = Load(docs, policy, "policy").set[k]
       /\ cli # "unset" => Load(over, policy, "policy").set["quantization"] = cli
  BY <1>1, <1>3, LoadOverridden
<1> QED BY <1>1, <1>2, <1>7, <1>8, <1>9, <1>10, <1>13, <1>14, <1>15, <1>16

\* What Resolve makes of documents that compose.
RevisionsOf(at, env) ==
  [id \in SelectedIds(at["policy"]) |-> RevisionOf(id, at["registry"].set[id], env)]
ResolvedFrom(top, at, env) ==
  IF \E id \in SelectedIds(at["policy"]) : RevisionsOf(at, env)[id] = "none" THEN Failed("checkpoint")
  ELSE IF ~Compatible(top, at["policy"], at["benchmark"], at["protocol"], at["registry"])
    THEN Failed("incompatible")
  ELSE Identities(at, SelectedIds(at["policy"]), RevisionsOf(at, env), env)
ComponentsOf(docs) == [k \in ComponentNames |-> Component(docs, k)]

LEMMA ResolveIs ==
  ASSUME NEW docs, ComponentsOk(docs), NEW env
  PROVE  Resolve(docs, "exp", env) = ResolvedFrom(TopOf(docs), ComponentsOf(docs), env)
<1> DEFINE at(k) == Component(docs, k)
           ids == SelectedIds(at("policy"))
           revision == [id \in ids |-> RevisionOf(id, at("registry").set[id], env)]
           rest == IF \E id \in ids : revision[id] = "none" THEN Failed("checkpoint")
                   ELSE IF ~Compatible(TopOf(docs), at("policy"), at("benchmark"), at("protocol"),
                                       at("registry"))
                     THEN Failed("incompatible")
                   ELSE Identities([k \in ComponentNames |-> at(k)], ids, revision, env)
<1>1. Resolve(docs, "exp", env) =
        IF ~Ok(TopOf(docs)) THEN TopOf(docs)
        ELSE IF \E k \in ComponentNames : ~Ok(at(k))
          THEN at(CHOOSE k \in ComponentNames : ~Ok(at(k)))
        ELSE rest
  BY DEF Resolve, TopOf, Component
<1>2. Ok(TopOf(docs)) /\ ~\E k \in ComponentNames : ~Ok(at(k))
  BY DEF ComponentsOk
<1>3. Resolve(docs, "exp", env) = rest
  <2> HIDE DEF at, rest
  <2> QED BY <1>1, <1>2
<1>4. /\ ComponentsOf(docs)["policy"] = at("policy") /\ ComponentsOf(docs)["registry"] = at("registry")
      /\ ComponentsOf(docs)["benchmark"] = at("benchmark") /\ ComponentsOf(docs)["protocol"] = at("protocol")
  BY DEF ComponentsOf, ComponentNames
<1> HIDE DEF at
<1>5. rest = ResolvedFrom(TopOf(docs), [k \in ComponentNames |-> at(k)], env)
  BY <1>4 DEF ResolvedFrom, RevisionsOf, ComponentsOf, at
<1> QED BY <1>3, <1>5 DEF ComponentsOf, at

\* A container sees the moving selectors as the host does when it has to look up
\* the one checkpoint it was handed only; it looks up nothing itself.
HandedFields == {"where", "id", "revision", "profile"}

LEMMA ContainersLookNothingUp ==
  ASSUME NEW handed, DOMAIN handed = HandedFields, NEW id, NEW selector
  PROVE  /\ RevisionOf(id, selector, InContainer(handed)) =
              IF selector \notin Moving THEN selector
              ELSE IF id = handed.id THEN handed.revision ELSE "none"
         /\ selector \notin Moving \/ id = handed.id =>
              RevisionOf(id, selector, handed) = RevisionOf(id, selector, InContainer(handed))
<1>1. /\ InContainer(handed).where = "container" /\ InContainer(handed).id = handed.id
      /\ InContainer(handed).revision = handed.revision
  BY DEF InContainer, HandedFields
<1> QED BY <1>1 DEF RevisionOf, Latest

LEMMA ResolvedFromIs ==
  ASSUME NEW top, NEW at, NEW env
  PROVE  LET all == ResolvedFrom(top, at, env)
             ids == SelectedIds(at["policy"])
             good == /\ \A id \in ids : RevisionsOf(at, env)[id] # "none"
                     /\ Compatible(top, at["policy"], at["benchmark"], at["protocol"],
                                   at["registry"])
         IN  /\ Ok(all) <=> good
             /\ all.error \in {"none", "checkpoint", "incompatible"}
             /\ good => all = Identities(at, ids, RevisionsOf(at, env), env)
<1> DEFINE all == ResolvedFrom(top, at, env)
           ids == SelectedIds(at["policy"])
           known == \A id \in ids : RevisionsOf(at, env)[id] # "none"
           fits == Compatible(top, at["policy"], at["benchmark"], at["protocol"], at["registry"])
           made == Identities(at, ids, RevisionsOf(at, env), env)
<1>1. all = IF ~known THEN Failed("checkpoint") ELSE IF ~fits THEN Failed("incompatible") ELSE made
  BY DEF ResolvedFrom
<1>2. made.error = "none"
  BY DEF Identities
<1> HIDE DEF all, known, fits, made
<1>3. /\ Ok(all) <=> known /\ fits
      /\ all.error \in {"none", "checkpoint", "incompatible"}
      /\ known /\ fits => all = made
  BY <1>1, <1>2 DEF Ok, Failed
<1> QED BY <1>3 DEF all, known, fits, made

LEMMA EnvironmentsAgree ==
  ASSUME NEW top, NEW at, NEW handed, DOMAIN handed = HandedFields,
         NEW outcome, outcome = ResolvedFrom(top, at, InContainer(handed)),
         NEW direct, direct = ResolvedFrom(top, at, handed)
  PROVE  /\ outcome.error \in {"none", "checkpoint", "incompatible"}
         /\ Ok(outcome) =>
              /\ Ok(direct) /\ outcome.scientific = direct.scientific
              /\ outcome.scientific.components = at
              /\ outcome.execution.revision = RevisionsOf(at, InContainer(handed))
         /\ Ok(direct) /\ DOMAIN direct.scientific.identity \subseteq {handed.id} => Ok(outcome)
<1> DEFINE ids == SelectedIds(at["policy"])
           selector(id) == at["registry"].set[id]
           inside == RevisionsOf(at, InContainer(handed))
           outside == RevisionsOf(at, handed)
           Alike == \A id \in ids : selector(id) \notin Moving \/ id = handed.id
           fits == Compatible(top, at["policy"], at["benchmark"], at["protocol"], at["registry"])
<1>1. /\ Ok(outcome) <=> (\A id \in ids : inside[id] # "none") /\ fits
      /\ outcome.error \in {"none", "checkpoint", "incompatible"}
      /\ Ok(outcome) => outcome = Identities(at, ids, inside, InContainer(handed))
  BY ResolvedFromIs
<1>2. /\ Ok(direct) <=> (\A id \in ids : outside[id] # "none") /\ fits
      /\ Ok(direct) => direct = Identities(at, ids, outside, handed)
  BY ResolvedFromIs
<1>3. \A id \in ids : inside[id] = RevisionOf(id, selector(id), InContainer(handed))
  BY DEF RevisionsOf
<1>4. inside = [id \in ids |-> RevisionOf(id, selector(id), InContainer(handed))]
      /\ outside = [id \in ids |-> RevisionOf(id, selector(id), handed)]
  BY DEF RevisionsOf
<1> HIDE DEF ids, inside, outside, fits, selector
<1>5. (\A id \in ids : inside[id] # "none") => Alike
  BY <1>3, ContainersLookNothingUp
<1>6. Alike => inside = outside
  <2>1. Alike => \A id \in ids :
          RevisionOf(id, selector(id), handed) = RevisionOf(id, selector(id), InContainer(handed))
    BY ContainersLookNothingUp
  <2> QED BY <1>4, <2>1
<1>7. ASSUME Ok(outcome)
      PROVE  /\ Ok(direct) /\ outcome.scientific = direct.scientific
             /\ outcome.scientific.components = at /\ outcome.execution.revision = inside
  <2>1. inside = outside /\ outcome = Identities(at, ids, inside, InContainer(handed))
    BY <1>1, <1>5, <1>6, <1>7
  <2>2. Ok(direct) /\ direct = Identities(at, ids, inside, handed)
    BY <1>1, <1>2, <1>7, <2>1
  <2>3. outcome.scientific.components = at /\ outcome.execution.revision = inside
    BY <2>1 DEF Identities
  <2>4. outcome.scientific = direct.scientific
    BY <2>1, <2>2 DEF Identities
  <2> QED BY <2>2, <2>3, <2>4
<1>8. ASSUME Ok(direct), DOMAIN direct.scientific.identity \subseteq {handed.id}
      PROVE  Ok(outcome)
  <2>1. direct.scientific.identity = [id \in {i \in ids : selector(i) \in Moving} |-> outside[id]]
    BY <1>2, <1>8 DEF Identities, selector
  <2>2. Alike
    BY <1>8, <2>1
  <2> QED BY <1>1, <1>2, <1>6, <1>8, <2>2
<1> QED BY <1>1, <1>7, <1>8 DEF inside

\* What a bundle and a revision of it become in the container and on the host.
ResolvesTheSame(docs, cli, handed, outcome, direct) ==
  LET id == Component(docs, "policy").set["checkpoint"]
      selector == Component(docs, "registry").set[id]
  IN  /\ outcome.error \notin CompositionErrors
      /\ Ok(outcome) =>
           /\ Ok(direct) /\ outcome.scientific = direct.scientific
           /\ cli # "unset" => outcome.scientific.components["policy"].set["quantization"] = cli
           /\ outcome.scientific.components["policy"].type = Component(docs, "policy").type
           /\ handed.id = id /\ id \in {"c1", "c2"} =>
                outcome.execution.revision[id] =
                  IF selector \in Moving THEN handed.revision ELSE selector
      /\ Ok(direct) /\ DOMAIN direct.scientific.identity \subseteq {handed.id} => Ok(outcome)

LEMMA BundleResolves ==
  ASSUME NEW docs, IsTree(docs), NEW cli, NEW bundle,
         bundle = BuildBundle(docs, "exp", cli), Ok(bundle),
         NEW handed, DOMAIN handed = HandedFields,
         NEW outcome, outcome = Resolve(bundle.files, "exp", InContainer(handed)),
         NEW direct, direct = Resolve(Overlaid(docs, bundle.policy, cli), "exp", handed)
  PROVE  ResolvesTheSame(docs, cli, handed, outcome, direct)
<1> DEFINE over == Overlaid(docs, bundle.policy, cli)
           at == ComponentsOf(over)
<1>1. /\ TopOf(over) = TopOf(docs) /\ TopOf(bundle.files) = TopOf(docs)
      /\ ComponentsOk(over) /\ ComponentsOk(bundle.files)
      /\ \A k \in ComponentNames : Component(bundle.files, k) = Component(over, k)
      /\ Component(over, "registry") = Component(docs, "registry")
      /\ Component(over, "policy").type = Component(docs, "policy").type
      /\ \A k \in SettingKeys : k # "quantization" =>
           Component(over, "policy").set[k] = Component(docs, "policy").set[k]
      /\ cli # "unset" => Component(over, "policy").set["quantization"] = cli
  BY BundleComposes, ComponentKinds
<1> HIDE DEF over
<1>2. ComponentsOf(bundle.files) = at
  BY <1>1 DEF ComponentsOf
<1>3. direct = ResolvedFrom(TopOf(docs), at, handed)
  BY <1>1, ResolveIs DEF over
<1>4. outcome = ResolvedFrom(TopOf(docs), at, InContainer(handed))
  BY <1>1, <1>2, ResolveIs
<1>5. at["policy"] = Component(over, "policy") /\ at["registry"] = Component(docs, "registry")
  BY <1>1, ComponentKinds DEF ComponentsOf
<1> HIDE DEF at
<1>6. /\ outcome.error \in {"none", "checkpoint", "incompatible"}
      /\ Ok(outcome) =>
           /\ Ok(direct) /\ outcome.scientific = direct.scientific
           /\ outcome.scientific.components = at
           /\ outcome.execution.revision = RevisionsOf(at, InContainer(handed))
      /\ Ok(direct) /\ DOMAIN direct.scientific.identity \subseteq {handed.id} => Ok(outcome)
  BY <1>3, <1>4, EnvironmentsAgree
<1>7. outcome.error \notin CompositionErrors
  BY <1>6 DEF CompositionErrors
<1> DEFINE id == Component(docs, "policy").set["checkpoint"]
           selector == Component(docs, "registry").set[id]
<1>8. ASSUME Ok(outcome), handed.id = id, id \in {"c1", "c2"}
      PROVE  outcome.execution.revision[id] = IF selector \in Moving THEN handed.revision ELSE selector
  <2>1. Component(over, "policy").set["checkpoint"] = id
    BY <1>1 DEF SettingKeys
  <2> HIDE DEF id
  <2>2. id \in SelectedIds(at["policy"])
    BY <1>5, <1>8, <2>1 DEF SelectedIds
  <2>3. RevisionsOf(at, InContainer(handed))[id] = RevisionOf(id, selector, InContainer(handed))
    BY <1>5, <2>2 DEF RevisionsOf
  <2> QED BY <1>6, <1>8, <2>3, ContainersLookNothingUp
<1> QED BY <1>1, <1>5, <1>6, <1>7, <1>8 DEF ResolvesTheSame

-----------------------------------------------------------------------------
(* The deployment command, for any documents, rewrites and number of them.   *)

Stages == {"plan", "build", "preflight", "select", "materialize", "container", "ended", "failed"}
ConfigTypeOK ==
  /\ IsTree(tree) /\ DOMAIN tree \subseteq DOMAIN Rewrites
  /\ rewrites \in Nat
  /\ DOMAIN deploy = {"at", "cli", "profile", "bundle", "built", "handed", "root", "outcome",
                      "direct", "steady"}
  /\ deploy.at \in Stages /\ deploy.cli \in {"unset", "4bit"} /\ deploy.steady \in BOOLEAN
  /\ DOMAIN deploy.handed = HandedFields

\* Until a document is touched, what was read of the documents is what they say.
ProfileHolds ==
  deploy.at \notin {"plan", "failed"} /\ deploy.steady =>
    deploy.profile = ProfileOf(Component(tree, "policy").type)
BundleHolds ==
  deploy.at \in {"preflight", "select", "materialize", "container", "ended"} =>
    /\ IsTree(deploy.built)
    /\ deploy.bundle = BuildBundle(deploy.built, "exp", deploy.cli) /\ Ok(deploy.bundle)
    /\ deploy.steady => deploy.built = tree
HandedHolds ==
  deploy.at \in {"materialize", "container", "ended"} /\ deploy.steady =>
    LET id == Component(tree, "policy").set["checkpoint"]
        selector == Component(tree, "registry").set[id]
    IN  /\ deploy.handed.id = id /\ id \in {"c1", "c2"}
        /\ selector \notin Moving => deploy.handed.revision = selector
ConfigInv == ConfigTypeOK /\ ProfileHolds /\ BundleHolds /\ HandedHolds /\ ContainerResolvesTheSame

LEMMA ConfigInvInitially == ConfigInit => ConfigInv
<1> SUFFICES ASSUME ConfigInit PROVE ConfigInv
  OBVIOUS
<1>1. deploy = Idle /\ tree \in Trees /\ rewrites = MaxRewrites
  BY DEF ConfigInit
<1>2. deploy.at = "plan"
  BY <1>1 DEF Idle
<1>3. ConfigTypeOK
  BY <1>1, ConfigAssumption DEF ConfigTypeOK, Idle, Host, HandedFields, Stages
<1> QED BY <1>2, <1>3 DEF ConfigInv, ProfileHolds, BundleHolds, HandedHolds, ContainerResolvesTheSame

(* Planning reads the documents. *)
LEMMA PlanKeeps == ConfigInv /\ Plan => ConfigInv'
<1> SUFFICES ASSUME ConfigInv, Plan PROVE ConfigInv'
  OBVIOUS
<1> DEFINE policy == Component(tree, "policy")
<1>1. PICK cli, needed :
        /\ cli \in {"unset", "4bit"} /\ tree' = tree /\ rewrites' = rewrites
        /\ \/ deploy' = [deploy EXCEPT !.at = "failed"]
           \/ /\ deploy' = [deploy EXCEPT !.at = "build", !.cli = cli, !.profile = needed]
              /\ needed = ProfileOf(policy.type)
  <2>1. policy = Load(tree, TopOf(tree).set["policy"], "policy")
    BY ComponentKinds DEF Component
  <2>2. PICK cli \in {"unset", "4bit"}, chosen \in {"unset", "openvla", "oft", "quic"} :
          LET needed == IF chosen # "unset" THEN chosen ELSE TopOf(tree).set["profile"]
              refused == \/ ~Ok(TopOf(tree))
                         \/ TopOf(tree).set["profile"] = "unset"
                         \/ ~Ok(policy)
                         \/ needed # ProfileOf(policy.type)
                         \/ policy.type = "openvla_quic" /\ cli # "unset"
          IN  Give(IF refused THEN [deploy EXCEPT !.at = "failed"]
                   ELSE [deploy EXCEPT !.at = "build", !.cli = cli, !.profile = needed])
    <3> HIDE DEF policy
    <3> QED BY <2>1, Zenon DEF Plan, TopOf
  <2> HIDE DEF policy
  <2> QED BY <2>2 DEF Give
<1> HIDE DEF policy
<1>2. CASE deploy' = [deploy EXCEPT !.at = "failed"]
  <2>1. ConfigTypeOK'
    BY <1>1, <1>2 DEF ConfigInv, ConfigTypeOK, Stages
  <2>2. deploy'.at = "failed"
    BY <1>2 DEF ConfigInv, ConfigTypeOK
  <2> QED BY <2>1, <2>2 DEF ConfigInv, ProfileHolds, BundleHolds, HandedHolds, ContainerResolvesTheSame
<1>3. CASE /\ deploy' = [deploy EXCEPT !.at = "build", !.cli = cli, !.profile = needed]
           /\ needed = ProfileOf(policy.type)
  <2>1. ConfigTypeOK'
    BY <1>1, <1>3 DEF ConfigInv, ConfigTypeOK, Stages
  <2>2. deploy'.at = "build" /\ deploy'.profile = ProfileOf(policy.type)
    BY <1>3 DEF ConfigInv, ConfigTypeOK
  <2>3. ProfileHolds'
    BY <1>1, <2>2 DEF ProfileHolds, policy, Component, TopOf
  <2> QED BY <2>1, <2>2, <2>3 DEF ConfigInv, BundleHolds, HandedHolds, ContainerResolvesTheSame
<1> QED BY <1>1, <1>2, <1>3

\* Steps that go on from one stage to another and leave the documents, the
\* profile and, past the build, the bundle alone.
LEMMA FailureKeeps ==
  ASSUME ConfigInv, tree' = tree, rewrites' = rewrites, deploy'.at = "failed",
         DOMAIN deploy' = DOMAIN deploy, deploy'.cli = deploy.cli, deploy'.steady = deploy.steady,
         deploy'.handed = deploy.handed
  PROVE  ConfigInv'
BY DEF ConfigInv, ConfigTypeOK, Stages, ProfileHolds, BundleHolds, HandedHolds, ContainerResolvesTheSame

LEMMA BuildKeeps == ConfigInv /\ Build => ConfigInv'
<1> SUFFICES ASSUME ConfigInv, Build PROVE ConfigInv'
  OBVIOUS
<1> DEFINE bundle == BuildBundle(tree, "exp", deploy.cli)
<1>1. /\ tree' = tree /\ rewrites' = rewrites /\ deploy.at = "build"
      /\ deploy' = [deploy EXCEPT !.at = IF Ok(bundle) THEN "preflight" ELSE "failed",
                                  !.bundle = bundle, !.built = tree]
  BY DEF Build, Give
<1> HIDE DEF bundle
<1>2. /\ deploy'.at = (IF Ok(bundle) THEN "preflight" ELSE "failed")
      /\ DOMAIN deploy' = DOMAIN deploy /\ deploy'.cli = deploy.cli
      /\ deploy'.steady = deploy.steady /\ deploy'.handed = deploy.handed
      /\ deploy'.profile = deploy.profile /\ deploy'.bundle = bundle /\ deploy'.built = tree
  BY <1>1 DEF ConfigInv, ConfigTypeOK
<1>3. CASE ~Ok(bundle)
  BY <1>1, <1>2, <1>3, FailureKeeps
<1>4. CASE Ok(bundle)
  <2>1. ConfigTypeOK'
    BY <1>1, <1>2, <1>4 DEF ConfigInv, ConfigTypeOK, Stages
  <2>2. ProfileHolds'
    BY <1>1, <1>2, <1>4 DEF ConfigInv, ProfileHolds, Component, TopOf
  <2>3. BundleHolds'
    BY <1>1, <1>2, <1>4 DEF ConfigInv, ConfigTypeOK, BundleHolds, bundle
  <2> QED BY <1>2, <1>4, <2>1, <2>2, <2>3 DEF ConfigInv, HandedHolds, ContainerResolvesTheSame
<1> QED BY <1>3, <1>4

LEMMA PreflightKeeps == ConfigInv /\ Preflight => ConfigInv'
<1> SUFFICES ASSUME ConfigInv, Preflight PROVE ConfigInv'
  OBVIOUS
<1>1. PICK next \in {"select", "failed"} :
        /\ tree' = tree /\ rewrites' = rewrites /\ deploy.at = "preflight"
        /\ deploy' = [deploy EXCEPT !.at = next]
  BY DEF Preflight
<1>2. /\ deploy'.at = next /\ DOMAIN deploy' = DOMAIN deploy /\ deploy'.cli = deploy.cli
      /\ deploy'.steady = deploy.steady /\ deploy'.handed = deploy.handed
      /\ deploy'.profile = deploy.profile /\ deploy'.bundle = deploy.bundle
      /\ deploy'.built = deploy.built
  BY <1>1 DEF ConfigInv, ConfigTypeOK
<1>3. CASE next = "failed"
  BY <1>1, <1>2, <1>3, FailureKeeps
<1>4. CASE next = "select"
  <2>1. ConfigTypeOK'
    BY <1>1, <1>2, <1>4 DEF ConfigInv, ConfigTypeOK, Stages
  <2>2. ProfileHolds' /\ BundleHolds'
    BY <1>1, <1>2, <1>4 DEF ConfigInv, ProfileHolds, BundleHolds, Component, TopOf
  <2> QED BY <1>2, <1>4, <2>1, <2>2 DEF ConfigInv, HandedHolds, ContainerResolvesTheSame
<1> QED BY <1>3, <1>4

\* What the selection finds in documents, read without checking them.
TopFound(docs) == LoadUnchecked(docs, "exp", "experiment")
PolicyFound(docs) == LoadUnchecked(docs, TopFound(docs).set["policy"], "policy")
RegistryFound(docs) == LoadUnchecked(docs, TopFound(docs).set["registry"], "resource_registry")

LEMMA ComponentsFound ==
  ASSUME NEW docs, IsTree(docs), ComponentsOk(docs)
  PROVE  /\ PolicyFound(docs) = Component(docs, "policy")
         /\ RegistryFound(docs) = Component(docs, "registry")
         /\ \A id \in {"c1", "c2"} : Component(docs, "registry").set[id] # "digested local/main"
<1>1. TopFound(docs) = TopOf(docs)
  BY LoadAsUnchecked DEF ComponentsOk, TopOf, TopFound
<1>2. /\ Component(docs, "policy") = Load(docs, TopOf(docs).set["policy"], "policy")
      /\ Component(docs, "registry") = Load(docs, TopOf(docs).set["registry"], "resource_registry")
      /\ Ok(Component(docs, "policy")) /\ Ok(Component(docs, "registry"))
  BY ComponentKinds DEF Component, ComponentsOk
<1>3. PolicyFound(docs) = Component(docs, "policy")
  BY <1>1, <1>2, LoadAsUnchecked DEF PolicyFound
<1>4. RegistryFound(docs) = Component(docs, "registry")
  BY <1>1, <1>2, LoadAsUnchecked DEF RegistryFound
<1>5. PICK type : Valid("resource_registry", type, Component(docs, "registry").set)
  BY <1>2, LoadOk
<1>6. RegistrySchema(type, Component(docs, "registry").set)
  BY <1>5 DEF Valid
<1> QED BY <1>3, <1>4, <1>6 DEF RegistrySchema

\* The checkpoint is the policy's, and a pinned revision is what the registry
\* says: the bundle was built, so while nothing was touched the documents pass
\* the checks the selection leaves out.
LEMMA SelectKeeps == ConfigInv /\ SelectCheckpoint => ConfigInv'
<1> SUFFICES ASSUME ConfigInv, SelectCheckpoint PROVE ConfigInv'
  OBVIOUS
<1> DEFINE id == PolicyFound(tree).set["checkpoint"]
           entry == RegistryFound(tree).set[id]
<1>1. PICK handed :
        /\ tree' = tree /\ rewrites' = rewrites /\ deploy.at = "select"
        /\ \/ deploy' = [deploy EXCEPT !.at = "failed"]
           \/ /\ deploy' = [deploy EXCEPT !.at = "materialize", !.handed = handed]
              /\ DOMAIN handed = HandedFields
              /\ handed.id = id /\ id \in {"c1", "c2"}
              /\ entry \notin Moving \union {"digested local/main"} => handed.revision = entry
  <2> DEFINE given(revision) ==
        [where |-> "host", id |-> id, revision |-> revision, profile |-> deploy.profile]
  <2>1. PICK revision :
          /\ entry \notin Moving \union {"digested local/main"} => revision = entry
          /\ \/ deploy' = [deploy EXCEPT !.at = "failed"]
             \/ /\ id \in {"c1", "c2"}
                /\ deploy' = [deploy EXCEPT !.at = "materialize", !.handed = given(revision)]
    BY DEF SelectCheckpoint, SelectorOf, Give, TopFound, PolicyFound, RegistryFound, Moving
  <2>2. DOMAIN given(revision) = HandedFields /\ given(revision).id = id
        /\ given(revision).revision = revision
    BY DEF HandedFields
  <2>3. tree' = tree /\ rewrites' = rewrites /\ deploy.at = "select"
    BY DEF SelectCheckpoint, Give
  <2> HIDE DEF given
  <2> QED BY <2>1, <2>2, <2>3
<1>2. deploy.steady =>
        /\ id = Component(tree, "policy").set["checkpoint"]
        /\ entry = Component(tree, "registry").set[id]
        /\ id \in {"c1", "c2"} => entry # "digested local/main"
  <2> SUFFICES ASSUME deploy.steady
               PROVE  /\ id = Component(tree, "policy").set["checkpoint"]
                      /\ entry = Component(tree, "registry").set[id]
                      /\ id \in {"c1", "c2"} => entry # "digested local/main"
    OBVIOUS
  <2>1. IsTree(tree) /\ Ok(BuildBundle(tree, "exp", deploy.cli))
    BY <1>1 DEF ConfigInv, BundleHolds
  <2>2. ComponentsOk(tree)
    BY <2>1, BundleIs
  <2> QED BY <2>1, <2>2, ComponentsFound
<1> HIDE DEF id, entry
<1>3. CASE deploy' = [deploy EXCEPT !.at = "failed"]
  <2>1. /\ deploy'.at = "failed" /\ DOMAIN deploy' = DOMAIN deploy /\ deploy'.cli = deploy.cli
        /\ deploy'.steady = deploy.steady /\ deploy'.handed = deploy.handed
    BY <1>3 DEF ConfigInv, ConfigTypeOK
  <2> QED BY <1>1, <2>1, FailureKeeps
<1>4. CASE /\ deploy' = [deploy EXCEPT !.at = "materialize", !.handed = handed]
           /\ DOMAIN handed = HandedFields
           /\ handed.id = id /\ id \in {"c1", "c2"}
           /\ entry \notin Moving \union {"digested local/main"} => handed.revision = entry
  <2>1. /\ deploy'.at = "materialize" /\ DOMAIN deploy' = DOMAIN deploy /\ deploy'.cli = deploy.cli
        /\ deploy'.steady = deploy.steady /\ deploy'.handed = handed
        /\ deploy'.profile = deploy.profile /\ deploy'.bundle = deploy.bundle
        /\ deploy'.built = deploy.built
    BY <1>4 DEF ConfigInv, ConfigTypeOK
  <2>2. ConfigTypeOK'
    BY <1>1, <1>4, <2>1 DEF ConfigInv, ConfigTypeOK, Stages
  <2>3. ProfileHolds' /\ BundleHolds'
    BY <1>1, <2>1 DEF ConfigInv, ProfileHolds, BundleHolds, Component, TopOf
  <2>4. HandedHolds'
    BY <1>1, <1>2, <1>4, <2>1 DEF HandedHolds, Component, TopOf
  <2> QED BY <2>1, <2>2, <2>3, <2>4 DEF ConfigInv, ContainerResolvesTheSame
<1> QED BY <1>1, <1>3, <1>4

LEMMA MaterializeKeeps == ConfigInv /\ Materialize => ConfigInv'
<1> SUFFICES ASSUME ConfigInv, Materialize PROVE ConfigInv'
  OBVIOUS
<1> DEFINE root == [d \in DOMAIN deploy.bundle.files |-> Copied(d)]
<1>1. PICK next \in {"container", "failed"} :
        /\ tree' = tree /\ rewrites' = rewrites /\ deploy.at = "materialize"
        /\ \/ deploy' = [deploy EXCEPT !.at = next, !.root = root]
           \/ deploy' = [deploy EXCEPT !.at = next]
  <2>1. CASE DOMAIN deploy.bundle.files \subseteq DOMAIN tree
    BY <2>1 DEF Materialize, Give
  <2>2. CASE ~(DOMAIN deploy.bundle.files \subseteq DOMAIN tree)
    BY <2>2 DEF Materialize, Give
  <2> QED BY <2>1, <2>2
<1> HIDE DEF root
<1>2. /\ deploy'.at = next /\ DOMAIN deploy' = DOMAIN deploy /\ deploy'.cli = deploy.cli
      /\ deploy'.steady = deploy.steady /\ deploy'.handed = deploy.handed
      /\ deploy'.profile = deploy.profile /\ deploy'.bundle = deploy.bundle
      /\ deploy'.built = deploy.built
  BY <1>1 DEF ConfigInv, ConfigTypeOK
<1>3. CASE next = "failed"
  BY <1>1, <1>2, <1>3, FailureKeeps
<1>4. CASE next = "container"
  <2>1. ConfigTypeOK'
    BY <1>1, <1>2, <1>4 DEF ConfigInv, ConfigTypeOK, Stages
  <2>2. ProfileHolds' /\ BundleHolds' /\ HandedHolds'
    BY <1>1, <1>2, <1>4 DEF ConfigInv, ProfileHolds, BundleHolds, HandedHolds, Component, TopOf
  <2> QED BY <1>2, <1>4, <2>1, <2>2 DEF ConfigInv, ContainerResolvesTheSame
<1> QED BY <1>3, <1>4

LEMMA ResolvingKeeps == ConfigInv /\ ResolveInContainer => ConfigInv'
<1> SUFFICES ASSUME ConfigInv, ResolveInContainer PROVE ConfigInv'
  OBVIOUS
<1> DEFINE outcome == Resolve(deploy.root, "exp", InContainer(deploy.handed))
           direct == Resolve(Overlaid(deploy.built, deploy.bundle.policy, deploy.cli), "exp", deploy.handed)
<1>1. /\ tree' = tree /\ rewrites' = rewrites /\ hub' = hub /\ deploy.at = "container"
      /\ deploy' = [deploy EXCEPT !.at = "ended", !.outcome = outcome, !.direct = direct]
  BY DEF ResolveInContainer, Give
<1> HIDE DEF outcome, direct
<1>2. /\ deploy'.at = "ended" /\ DOMAIN deploy' = DOMAIN deploy /\ deploy'.cli = deploy.cli
      /\ deploy'.steady = deploy.steady /\ deploy'.handed = deploy.handed
      /\ deploy'.profile = deploy.profile /\ deploy'.bundle = deploy.bundle
      /\ deploy'.built = deploy.built /\ deploy'.root = deploy.root
      /\ deploy'.outcome = outcome /\ deploy'.direct = direct
  BY <1>1 DEF ConfigInv, ConfigTypeOK
<1>3. ConfigTypeOK'
  BY <1>1, <1>2 DEF ConfigInv, ConfigTypeOK, Stages
<1>4. ProfileHolds' /\ BundleHolds' /\ HandedHolds'
  BY <1>1, <1>2 DEF ConfigInv, ProfileHolds, BundleHolds, HandedHolds, Component, TopOf
<1> DEFINE id == Component(deploy.built, "policy").set["checkpoint"]
           selector == Component(deploy.built, "registry").set[id]
<1>5. ASSUME deploy.root = deploy.bundle.files
      PROVE  ResolvesTheSame(deploy.built, deploy.cli, deploy.handed, outcome, direct)
  <2>1. DOMAIN deploy.handed = HandedFields
    BY DEF ConfigInv, ConfigTypeOK
  <2>2. /\ IsTree(deploy.built)
        /\ deploy.bundle = BuildBundle(deploy.built, "exp", deploy.cli) /\ Ok(deploy.bundle)
    BY <1>1 DEF ConfigInv, BundleHolds
  <2>3. /\ outcome = Resolve(deploy.bundle.files, "exp", InContainer(deploy.handed))
        /\ direct = Resolve(Overlaid(deploy.built, deploy.bundle.policy, deploy.cli), "exp", deploy.handed)
    BY <1>5 DEF outcome, direct
  <2> QED BY <2>1, <2>2, <2>3, BundleResolves
<1>6. deploy.steady =>
        /\ deploy.profile = ProfileOf(Component(deploy.built, "policy").type)
        /\ deploy.handed.id = id /\ id \in {"c1", "c2"}
        /\ selector \notin Moving => deploy.handed.revision = selector
  BY <1>1 DEF ConfigInv, ProfileHolds, BundleHolds, HandedHolds
<1> HIDE DEF id, selector
<1>7. ContainerResolvesTheSame'
  BY <1>2, <1>5, <1>6 DEF ContainerResolvesTheSame, ResolvesTheSame, id, selector
<1> QED BY <1>3, <1>4, <1>7 DEF ConfigInv

(* A touched document ends what the documents have to say. *)
LEMMA RewriteKeeps == ConfigInv /\ deploy.at \notin {"ended", "failed"} /\ Rewrite => ConfigInv'
<1> SUFFICES ASSUME ConfigInv, deploy.at \notin {"ended", "failed"}, Rewrite PROVE ConfigInv'
  OBVIOUS
<1>1. deploy' = [deploy EXCEPT !.steady = FALSE] /\ rewrites' \in Nat
  BY DEF Rewrite, ConfigInv, ConfigTypeOK
<1>2. /\ deploy'.at = deploy.at /\ DOMAIN deploy' = DOMAIN deploy /\ deploy'.cli = deploy.cli
      /\ deploy'.steady = FALSE /\ deploy'.handed = deploy.handed
      /\ deploy'.bundle = deploy.bundle /\ deploy'.built = deploy.built
  BY <1>1 DEF ConfigInv, ConfigTypeOK
<1>3. IsTree(tree') /\ DOMAIN tree' \subseteq DOMAIN Rewrites
  <2>1. IsTree(tree) /\ DOMAIN tree \subseteq DOMAIN Rewrites
    BY DEF ConfigInv, ConfigTypeOK
  <2>2. PICK d \in DOMAIN tree :
          \/ \E doc \in Rewrites[d] : tree' = [tree EXCEPT ![d] = doc]
          \/ tree' = [e \in DOMAIN tree \ {d} |-> tree[e]]
    BY DEF Rewrite
  <2>3. CASE \E doc \in Rewrites[d] : tree' = [tree EXCEPT ![d] = doc]
    <3>1. PICK doc : IsDocument(doc) /\ tree' = [tree EXCEPT ![d] = doc]
      BY <2>1, <2>3, ConfigAssumption
    <3>2. DOMAIN tree' = DOMAIN tree /\ \A e \in DOMAIN tree : IsDocument(tree'[e])
      BY <2>1, <3>1 DEF IsTree
    <3> QED BY <2>1, <3>2 DEF IsTree
  <2>4. CASE tree' = [e \in DOMAIN tree \ {d} |-> tree[e]]
    <3>1. IsFiniteSet(DOMAIN tree \ {d})
      BY <2>1, FS_RemoveElement DEF IsTree
    <3>2. DOMAIN tree' = DOMAIN tree \ {d} /\ \A e \in DOMAIN tree' : IsDocument(tree'[e])
      BY <2>1, <2>4 DEF IsTree
    <3> QED BY <2>1, <3>1, <3>2 DEF IsTree
  <2> QED BY <2>2, <2>3, <2>4
<1>4. ConfigTypeOK'
  BY <1>1, <1>2, <1>3 DEF ConfigInv, ConfigTypeOK
<1>5. ProfileHolds' /\ HandedHolds' /\ ContainerResolvesTheSame'
  BY <1>2 DEF ProfileHolds, HandedHolds, ContainerResolvesTheSame
<1>6. BundleHolds'
  BY <1>2 DEF ConfigInv, BundleHolds
<1> QED BY <1>4, <1>5, <1>6 DEF ConfigInv

LEMMA ConfigInvKept == ConfigInv /\ [ConfigNext]_configVars => ConfigInv'
<1> SUFFICES ASSUME ConfigInv, [ConfigNext]_configVars PROVE ConfigInv'
  OBVIOUS
<1>1. ASSUME UNCHANGED <<tree, deploy>>, rewrites' \in Nat PROVE ConfigInv'
  BY <1>1 DEF ConfigInv, ConfigTypeOK, ProfileHolds, BundleHolds, HandedHolds,
              ContainerResolvesTheSame, Component, TopOf
<1>2. CASE MoveHub \/ UNCHANGED configVars
  BY <1>1, <1>2 DEF MoveHub, configVars, ConfigInv, ConfigTypeOK
<1> QED
  BY <1>2, PlanKeeps, BuildKeeps, PreflightKeeps, SelectKeeps, MaterializeKeeps,
     ResolvingKeeps, RewriteKeeps
  DEF ConfigNext

\* Whatever the documents, the user's changes to them and the hub's, a container
\* that got the files its bundle recorded resolves what the host would have
\* resolved, with the override and the revision handed over (config_bundle.py
\* and resolver.py agree).
THEOREM ContainersResolveTheSame == ConfigSpec => []ContainerResolvesTheSame
<1>1. ConfigInv => ContainerResolvesTheSame
  BY DEF ConfigInv
<1> QED
  BY <1>1, ConfigInvInitially, ConfigInvKept, PTL DEF ConfigSpec
=============================================================================
