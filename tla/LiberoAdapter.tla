----------------------------- MODULE LiberoAdapter -----------------------------
(***************************************************************************)
(* ovlab_benchmarks.libero: the adapter that drives a native simulator for *)
(* one episode after another, with the lifecycle of BenchmarkAdapter around *)
(* its hooks.  The simulator is outside the repository: each of its calls  *)
(* may raise, a step may end or solve the task, and an observation may     *)
(* lack a key.  MUJOCO_GL selects the renderer and is restored on close.   *)
(***************************************************************************)
EXTENDS Integers, FiniteSets

CONSTANTS
  Simulators,       \* bound: native environments the adapter may create
  MaximumSteps,     \* maximum_episode_steps
  InitialStates,    \* how many initial states a task has
  Profiles,         \* observation profiles to check
  MaxSimFaults      \* bound: native failures and interrupts

ASSUME LiberoAssumption ==
  /\ MaximumSteps \in Nat \ {0}
  /\ InitialStates \in Nat /\ MaxSimFaults \in Nat
  /\ "none" \notin Profiles

VARIABLES
  libero,       \* lifecycle state of the adapter
  profile,      \* its observation profile
  renderer,     \* MUJOCO_GL: its value, what is saved of it, what was there first
  simulator,    \* the environment the adapter holds: none or one
  open,         \* the environments that were created and not closed
  lost,         \* history: those whose close raised or was interrupted, or that
                \* could not be seeded and were never handed over
  nativeStep,   \* _native_step_index
  position,     \* the rollout and the initial state of the episode
  stepOutcome,  \* what the last step returned, or that it raised
  simFaults     \* what is left of the bound

liberoVars == <<libero, profile, renderer, simulator, open, lost, nativeStep,
                position, stepOutcome, simFaults>>

Keys == {"agentview", "wrist", "eef_pos", "eef_quat", "gripper", "state"}
NoOutcome == [raised |-> FALSE, success |-> FALSE, terminated |-> FALSE, truncated |-> FALSE]

LiberoInit ==
  /\ libero = "CREATED"
  /\ profile = "none"
  /\ renderer = [value |-> "unset", saved |-> "none", first |-> "unset"]
  /\ simulator = {}
  /\ open = {}
  /\ lost = {}
  /\ nativeStep = 0
  /\ position = [rollout |-> 0, state |-> 0]
  /\ stepOutcome = NoOutcome
  /\ simFaults = MaxSimFaults

Fault == simFaults > 0 /\ simFaults' = simFaults - 1
NoFault == UNCHANGED simFaults

-----------------------------------------------------------------------------
(* What the adapter makes of an observation and a configuration *)

\* map_observation and map_signals with the simulator's state.
Required(p) ==
  {"agentview", "state"}
    \cup (IF p \in {"dual_rgb", "native_oft"} THEN {"wrist"} ELSE {})
    \cup {"eef_pos", "eef_quat", "gripper"}
Mapped(raw) == Required(profile) \subseteq raw

\* select_initial_state_index with ROLLOUT_INDEX; a seeded choice is any state.
StateIndex(rollout) == {rollout % InitialStates} \cup 0..InitialStates - 1

\* resolve_renderer_settings: an override in MUJOCO_GL wins over the configuration.
Resolved(requested) == IF renderer.value = "unset" THEN requested ELSE renderer.value

-----------------------------------------------------------------------------
(* initialize *)

\* The environment variable as the shell left it; nothing has run yet.
Override(v) ==
  /\ libero = "CREATED" /\ profile = "none" /\ renderer.value = "unset"
  /\ renderer' = [renderer EXCEPT !.value = v, !.first = v]
  /\ UNCHANGED <<libero, profile, simulator, open, lost, nativeStep, position, stepOutcome, simFaults>>

\* The renderer is activated before LIBERO is imported; without LIBERO it is
\* closed again.  A suite or a task index that is not there raises later, with
\* the renderer active and the adapter still CREATED.
Initialize(p, requested, fails) ==
  /\ libero = "CREATED" /\ profile = "none"
  /\ profile' = p
  /\ IF fails = "import"
     THEN UNCHANGED renderer
     ELSE renderer' = [renderer EXCEPT !.value = Resolved(requested), !.saved = renderer.value]
  /\ libero' = IF fails = "nothing" THEN "READY" ELSE "CREATED"
  /\ IF fails = "nothing" THEN NoFault ELSE Fault
  /\ UNCHANGED <<simulator, open, lost, nativeStep, position, stepOutcome>>

-----------------------------------------------------------------------------
(* reset_episode *)

\* _release_environment forgets the environment before it closes it.
Released(closes) ==
  /\ simulator' = {}
  /\ IF closes THEN open' = open \ simulator /\ UNCHANGED lost
     ELSE UNCHANGED open /\ lost' = lost \cup simulator

\* The old environment does not close: the reset raises before it creates one.
ResetReleaseFails ==
  /\ libero = "READY" /\ simulator # {}
  /\ Fault
  /\ Released(FALSE)
  /\ UNCHANGED <<libero, profile, renderer, nativeStep, position, stepOutcome>>

\* The constructor of the environment raises.
CreateFails ==
  /\ libero = "READY"
  /\ Fault
  /\ Released(TRUE)
  /\ UNCHANGED <<libero, profile, renderer, nativeStep, position, stepOutcome>>

\* Seeding raises inside create_environment: the environment is there, but the
\* adapter never gets it and so cannot close it.
SeedFails(s) ==
  /\ libero = "READY"
  /\ Fault
  /\ s \in Simulators \ (open \cup lost)
  /\ simulator' = {}
  /\ open' = (open \ simulator) \cup {s}
  /\ lost' = lost \cup {s}
  /\ UNCHANGED <<libero, profile, renderer, nativeStep, position, stepOutcome>>

\* Mutant: an error leaves the new environment open and unknown.
PrepareFailsOpen(s, interrupted, closes) ==
  /\ libero = "READY"
  /\ Fault
  /\ s \in Simulators \ (open \cup lost)
  /\ simulator' = {}
  /\ open' = (open \ simulator) \cup {s}
  /\ UNCHANGED <<libero, profile, renderer, lost, nativeStep, position, stepOutcome>>

\* The action bounds, the reset, the initial state, a settling step or the
\* renderer query raises: the new environment is closed again, and an error of
\* that close is swallowed.  An interrupt closes nothing.
PrepareFails(s, interrupted, closes) ==
  /\ libero = "READY"
  /\ Fault
  /\ s \in Simulators \ (open \cup lost)
  /\ simulator' = {}
  /\ IF closes /\ ~interrupted
     THEN open' = open \ simulator /\ UNCHANGED lost
     ELSE open' = (open \ simulator) \cup {s} /\ lost' = lost \cup {s}
  /\ UNCHANGED <<libero, profile, renderer, nativeStep, position, stepOutcome>>

\* The environment is held from here on, also when mapping the observation raises.
ResetEpisode(s, rollout, raw) ==
  /\ libero = "READY"
  /\ InitialStates > 0
  /\ s \in Simulators \ (open \cup lost)
  /\ simulator' = {s}
  /\ open' = (open \ simulator) \cup {s}
  /\ nativeStep' = 0
  /\ \E i \in StateIndex(rollout) : position' = [rollout |-> rollout, state |-> i]
  /\ libero' = IF Mapped(raw) THEN "EPISODE_ACTIVE" ELSE "READY"
  /\ stepOutcome' = NoOutcome
  /\ IF Mapped(raw) THEN NoFault ELSE Fault
  /\ UNCHANGED <<profile, renderer, lost>>

-----------------------------------------------------------------------------
(* step, abort_episode, close *)

\* The action is refused, the simulator raises, or its observation lacks a key:
\* the episode stays active, and a step the simulator made is counted.  The
\* runner's loop takes no step after one that raised: it aborts the episode.
StepFails(made) ==
  /\ libero = "EPISODE_ACTIVE" /\ simulator # {} /\ ~stepOutcome.raised
  /\ Fault
  /\ nativeStep' = IF made THEN nativeStep + 1 ELSE nativeStep
  /\ stepOutcome' = [NoOutcome EXCEPT !.raised = TRUE]
  /\ UNCHANGED <<libero, profile, renderer, simulator, open, lost, position>>

Terminated(done, success) == done \/ success
Truncated(steps, done, success) == steps >= MaximumSteps /\ ~Terminated(done, success)

\* The last step closes the simulator; when that raises, the step raises too.
Step(done, success, closes) ==
  /\ libero = "EPISODE_ACTIVE" /\ simulator # {} /\ ~stepOutcome.raised
  /\ LET terminated == Terminated(done, success)
         truncated == Truncated(nativeStep + 1, done, success)
         ends == terminated \/ truncated
     IN /\ IF ends
           THEN Released(closes)
           ELSE closes /\ UNCHANGED <<simulator, open, lost>>
        /\ libero' = IF ends /\ closes THEN "READY" ELSE "EPISODE_ACTIVE"
        /\ stepOutcome' = [raised |-> ~closes, success |-> success,
                           terminated |-> terminated, truncated |-> truncated]
  /\ nativeStep' = nativeStep + 1
  /\ IF closes THEN NoFault ELSE Fault
  /\ UNCHANGED <<profile, renderer, position>>

\* After a failed step the runner aborts; without an environment there is
\* nothing to release.
AbortEpisode(closes) ==
  /\ libero = "EPISODE_ACTIVE"
  /\ Released(closes)
  /\ closes \/ simulator # {}
  /\ libero' = IF closes THEN "READY" ELSE "EPISODE_ACTIVE"
  /\ IF closes THEN NoFault ELSE Fault
  /\ UNCHANGED <<profile, renderer, nativeStep, position, stepOutcome>>

\* The renderer is restored whether or not the simulator closes.
CloseAdapter(closes) ==
  /\ libero # "CLOSED"
  /\ Released(closes)
  /\ closes \/ simulator # {}
  /\ IF closes THEN NoFault ELSE Fault
  /\ renderer' = IF renderer.saved = "none" THEN renderer
                 ELSE [renderer EXCEPT !.value = renderer.saved, !.saved = "none"]
  /\ libero' = IF closes THEN "CLOSED" ELSE libero
  /\ UNCHANGED <<profile, nativeStep, position, stepOutcome>>

\* All keys, or all but one.
Observations == {Keys} \cup {Keys \ {k} : k \in Keys}

LiberoNext ==
  \/ \E v \in {"egl", "glfw"} : Override(v)
  \/ \E p \in Profiles, b \in {"egl", "glfw"}, f \in {"nothing", "import", "suite"} : Initialize(p, b, f)
  \/ ResetReleaseFails \/ CreateFails
  \/ \E s \in Simulators : SeedFails(s)
  \/ \E s \in Simulators, i, c \in BOOLEAN : PrepareFails(s, i, c)
  \/ \E s \in Simulators, r \in 0..InitialStates, raw \in Observations : ResetEpisode(s, r, raw)
  \/ \E d, s, c \in BOOLEAN : Step(d, s, c)
  \/ \E made \in BOOLEAN : StepFails(made)
  \/ \E c \in BOOLEAN : AbortEpisode(c) \/ CloseAdapter(c)

LiberoSpec == LiberoInit /\ [][LiberoNext]_liberoVars

-----------------------------------------------------------------------------
(* Properties *)

\* At most one simulator is held.  One that is open and not held could not be
\* closed: its close failed, an interrupt came, or it could not be seeded.  Each
\* failure leaves at most one behind, and without a failure there is none.  A
\* closed adapter holds none and has restored MUJOCO_GL (adapter.py,
\* _reset_episode, _release_environment and _close; environment.py,
\* create_environment).
NoSimulatorIsLeft ==
  /\ Cardinality(simulator) <= 1
  /\ open \subseteq simulator \cup lost
  /\ Cardinality(open \ simulator) <= MaxSimFaults - simFaults
  /\ libero = "CLOSED" => simulator = {} /\ renderer.value = renderer.first

\* An active episode whose last step returned can take another one: it has its
\* simulator and is below the limit.  It takes at most the declared number of
\* steps, and a step that ends it is either terminated, as every success is, or
\* truncated at the limit (adapter.py, _step).
EpisodesEndInTime ==
  /\ libero = "EPISODE_ACTIVE" /\ ~stepOutcome.raised =>
        (simulator # {} \/ lost # {}) /\ nativeStep < MaximumSteps
  /\ nativeStep <= MaximumSteps
  /\ ~(stepOutcome.terminated /\ stepOutcome.truncated)
  /\ stepOutcome.success => stepOutcome.terminated
  /\ stepOutcome.truncated => nativeStep = MaximumSteps

\* The adapter under a simulator that fails anywhere (libero/adapter.py).
AdapterIsSound == NoSimulatorIsLeft /\ EpisodesEndInTime
=============================================================================
