--------------------------- MODULE EpisodeContract ---------------------------
(***************************************************************************)
(* What ExperimentRunner.run may rely on when it calls execute_episode     *)
(* (code/apps/runner/src/ovlab_runner/execution.py): the call ends with    *)
(* one outcome, the outcome pairs a terminal status with an error, and the *)
(* two adapters are left in a state that depends on the outcome.           *)
(* EpisodeExecution is shown to implement this module; ExperimentRun uses  *)
(* it in place of the episode loop.                                        *)
(***************************************************************************)

VARIABLES
  phase,      \* "idle" between calls of execute_episode, "running" inside one
  outcome,    \* result of the last finished call, NoOutcome before the first
  policy,     \* AdapterState of the PolicyAdapter: "ready" or "episode_active"
  benchmark   \* AdapterState of the BenchmarkAdapter

contractVars == <<phase, outcome, policy, benchmark>>

AdapterStates == {"ready", "episode_active"}

\* Terminal statuses of an episode the benchmark itself brought to an end.
CleanStatus == {"success", "failure", "time_limit"}

NoOutcome == [status |-> "none", error |-> "none"]

Clean == [status: CleanStatus, error: {"none"}]

\* (trace, exc): the trace is finalized and the exception is handed back.
Failed == [status: {"policy_error", "benchmark_error"}, error: {"exception"}]

\* (trace, KeyboardInterrupt()) is handed back for the runner to re-raise.
Aborted == [status: {"aborted"}, error: {"interrupt"}]

\* A second signal inside an except block: no trace, the interrupt propagates.
Escaped == [status: {"none"}, error: {"interrupt"}]

Outcomes == Clean \union Failed \union Aborted \union Escaped

(***************************************************************************)
(* The outcomes, with the adapter states they leave, of a call made while  *)
(* the adapters are in states p and b.  A call that starts on a policy     *)
(* still active from an earlier episode cannot end cleanly and leaves it   *)
(* active: reset_episode is refused before policy_active is set, so        *)
(* nothing in the call ends that episode.                                  *)
(***************************************************************************)
Results(p, b) ==
  { r \in [outcome: Outcomes, policy: AdapterStates, benchmark: AdapterStates] :
      /\ r.outcome \in Clean =>
           /\ p = "ready" /\ b = "ready"
           /\ r.policy = "ready" /\ r.benchmark = "ready"
      /\ p = "episode_active" =>
           /\ r.policy = "episode_active"
           /\ r.outcome.status # "benchmark_error" }

ContractInit ==
  /\ phase = "idle"
  /\ outcome = NoOutcome
  /\ policy = "ready"
  /\ benchmark = "ready"

\* After an interrupt the runner re-raises: it starts no further episode.
ContractBegin ==
  /\ phase = "idle"
  /\ outcome.error # "interrupt"
  /\ phase' = "running"
  /\ UNCHANGED <<outcome, policy, benchmark>>

ContractEnd ==
  /\ phase = "running"
  /\ phase' = "idle"
  /\ \E r \in Results(policy, benchmark) :
       /\ outcome' = r.outcome
       /\ policy' = r.policy
       /\ benchmark' = r.benchmark

ContractNext == ContractBegin \/ ContractEnd

ContractSpec == ContractInit /\ [][ContractNext]_contractVars
=============================================================================
