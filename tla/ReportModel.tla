------------------------------ MODULE ReportModel ------------------------------
(***************************************************************************)
(* derived.py: what a report says of a run.  build_report_model looks at   *)
(* the episodes finalized so far, at any moment of the run: the outcome of *)
(* each task and of the run with its denominators, the status of a task,   *)
(* and the samples of a trace as a chart and its statistics show them.     *)
(*                                                                         *)
(* Samples are small integers and NonFinite stands for inf and nan; the    *)
(* statistics are scaled by 20, the denominator of the quantiles, so the   *)
(* interpolation between two samples is exact.                             *)
(***************************************************************************)
EXTENDS Integers, Sequences, FiniteSetsExt, SequencesExt

CONSTANTS
  ReportTasks,    \* the tasks of the plan
  Rollouts,       \* rollouts per task
  Endings,        \* terminal statuses the run's episodes may have
  Samples,        \* what the trace may record: integers
  NonFinite,      \* inf and nan, as an integer that is no sample
  MaxSamples,     \* bound: samples of the trace
  ShownSamples    \* most points of a series (400 in a chart)

ASSUME ReportModelAssumption ==
  /\ Rollouts \in Nat /\ MaxSamples \in Nat
  /\ ShownSamples \in Nat \ {0, 1}
  /\ Samples \subseteq Int /\ NonFinite \in Int \ Samples
  /\ IsFiniteSet(ReportTasks) /\ IsFiniteSet(Endings)

VARIABLES
  recorded,     \* how many episodes of each task ended each way
  finalStatus,  \* the status in the run's final manifest, "none" without one
  samples       \* the samples of the trace that is shown

reportModelVars == <<recorded, finalStatus, samples>>

-----------------------------------------------------------------------------
(* Outcomes *)

FailedEndings == {"benchmark_error", "policy_error", "failure"}
Interrupting == {"aborted", "policy_error", "benchmark_error"}

Total(f) == MapThenSumSet(LAMBDA x : f[x], DOMAIN f)

\* The episodes of a set of tasks that ended in one of some ways.
Ended(tasks, endings) ==
  Total([t \in tasks |-> Total([s \in endings \cap Endings |-> recorded[t][s]])])

\* Mutant: what is missing to the expected successes.
OutcomeOfSuccesses(tasks, expected) ==
  LET n == Ended(tasks, Endings)
      successful == Ended(tasks, {"success"})
  IN [eligible |-> n, successful |-> successful, nonSuccess |-> n - successful,
      failed |-> Ended(tasks, {"failure"}),
      interrupted |-> Ended(tasks, Interrupting),
      missing |-> expected - successful,
      presentation |-> IF n = 0 THEN "unavailable"
                       ELSE IF n = 1 THEN "binary_success" ELSE "success_rate"]

\* _success_summary
Outcome(tasks, expected) ==
  LET n == Ended(tasks, Endings)
      successful == Ended(tasks, {"success"})
  IN [eligible |-> n, successful |-> successful, nonSuccess |-> n - successful,
      failed |-> Ended(tasks, {"failure"}),
      interrupted |-> Ended(tasks, Interrupting),
      missing |-> IF expected > n THEN expected - n ELSE 0,
      presentation |-> IF n = 0 THEN "unavailable"
                       ELSE IF n = 1 THEN "binary_success" ELSE "success_rate"]

TaskOutcome(t) == Outcome({t}, Rollouts)

\* A task has a directory from its first finalized episode on, and only then a view.
Viewed == {t \in ReportTasks : Ended({t}, Endings) > 0}
RunOutcome == Outcome(Viewed, Cardinality(Viewed) * Rollouts)

TaskStatus(t) ==
  IF Ended({t}, FailedEndings) > 0 THEN "failed"
  ELSE IF Ended({t}, {"aborted"}) > 0 \/ Ended({t}, Endings) < Rollouts
       THEN IF finalStatus = "aborted" THEN "interrupted" ELSE "partial"
       ELSE "completed"

-----------------------------------------------------------------------------
(* Series *)

FiniteAt(s) == {i \in DOMAIN s : s[i] # NonFinite}
FiniteValues(s) == {s[i] : i \in FiniteAt(s)}

\* numpy.sort: the k-th of the finite samples, the smallest that k do not exceed.
NotAbove(s, x) == Cardinality({i \in FiniteAt(s) : s[i] <= x})
Ranked(s, k) == Min({x \in FiniteValues(s) : NotAbove(s, x) >= k})

\* numpy's linear interpolation at p/20, times 20.
Quantile(s, p) ==
  LET at == p * (Cardinality(FiniteAt(s)) - 1)
      i == at \div 20
      rest == at % 20
  IN IF rest = 0 THEN 20 * Ranked(s, i + 1)
     ELSE Ranked(s, i + 1) * (20 - rest) + Ranked(s, i + 2) * rest

\* _descriptive_statistics; none of them but the counts without a finite sample.
Statistics(s) ==
  LET n == Cardinality(FiniteAt(s)) IN
  [n |-> n, nonFinite |-> Len(s) - n,
   values |-> IF n = 0 THEN <<>>
              ELSE <<20 * Min(FiniteValues(s)), Quantile(s, 1), Quantile(s, 10),
                     Quantile(s, 19), 20 * Max(FiniteValues(s))>>,
   deviation |-> n >= 2]

\* _downsample and _sampled_points: numpy.linspace with integer indices.
Shown(s) ==
  IF Len(s) <= ShownSamples THEN [k \in 1..Len(s) |-> k]
  ELSE [k \in 1..ShownSamples |-> 1 + ((k - 1) * (Len(s) - 1)) \div (ShownSamples - 1)]

\* The axis of a chart: the finite points with a margin (20ths: 5 per cent).
YRange(s) ==
  LET drawn == {s[Shown(s)[k]] : k \in DOMAIN Shown(s)} \ {NonFinite}
      low == IF drawn = {} THEN 0 ELSE Min(drawn)
      high == IF drawn = {} THEN 1 ELSE Max(drawn)
      margin == IF low # high THEN high - low
                ELSE IF low \in -10..10 THEN 10 ELSE IF low > 0 THEN low ELSE -low
  IN <<20 * low - margin, 20 * high + margin>>

-----------------------------------------------------------------------------
ReportModelInit ==
  /\ recorded = [t \in ReportTasks |-> [s \in Endings |-> 0]]
  /\ finalStatus = "none"
  /\ samples = <<>>

\* The run goes on: one more episode of a task is finalized.
EpisodeRecorded(t, s) ==
  /\ finalStatus = "none"
  /\ Ended({t}, Endings) < Rollouts
  /\ recorded' = [recorded EXCEPT ![t][s] = @ + 1]
  /\ UNCHANGED <<finalStatus, samples>>

RunEnded(status) ==
  /\ finalStatus = "none"
  /\ status = "completed" => Ended(ReportTasks, Endings) = Cardinality(ReportTasks) * Rollouts
  /\ finalStatus' = status
  /\ UNCHANGED <<recorded, samples>>

\* The trace of another episode, here grown sample by sample.
SampleRecorded(x) ==
  /\ Len(samples) < MaxSamples
  /\ \A t \in ReportTasks : Ended({t}, Endings) = 0   \* bound: traces apart from outcomes
  /\ finalStatus = "none"
  /\ samples' = Append(samples, x)
  /\ UNCHANGED <<recorded, finalStatus>>

ReportModelNext ==
  \/ \E t \in ReportTasks, s \in Endings : samples = <<>> /\ EpisodeRecorded(t, s)
  \/ \E s \in {"completed", "failed", "aborted"} : samples = <<>> /\ RunEnded(s)
  \/ \E x \in Samples \cup {NonFinite} : SampleRecorded(x)

ReportModelSpec == ReportModelInit /\ [][ReportModelNext]_reportModelVars

-----------------------------------------------------------------------------
(* Properties *)

\* The denominators of a report: every finalized episode of a task or a run is
\* counted once as a success, a failure, an interruption or none of these, what
\* is missing completes the expected number, a rate has at least two episodes,
\* and a task without failures is completed exactly when nothing of it is
\* missing or aborted (derived.py, _success_summary and the task's status).
OutcomesAddUp ==
  Viewed # {} =>
    /\ \A o \in {TaskOutcome(t) : t \in Viewed} \cup {RunOutcome} :
         /\ o.eligible = o.successful + o.nonSuccess
         /\ o.failed + o.interrupted <= o.nonSuccess
         /\ o.presentation = "success_rate" <=> o.eligible > 1
    /\ RunOutcome.eligible = Total([t \in Viewed |-> TaskOutcome(t).eligible])
    /\ RunOutcome.missing = Total([t \in Viewed |-> TaskOutcome(t).missing])
    /\ \A t \in Viewed :
         /\ TaskOutcome(t).eligible + TaskOutcome(t).missing = Rollouts
         /\ TaskStatus(t) = "completed" =>
              TaskOutcome(t).missing = 0 /\ TaskOutcome(t).interrupted + TaskOutcome(t).failed = 0
         /\ finalStatus = "completed" => TaskStatus(t) \in {"completed", "failed", "partial"}

\* A series keeps its first and last sample and its order, at most as many points
\* as allowed; its statistics are ordered and count every sample; every finite
\* point that is drawn lies inside the axis, which is never empty.
SeriesAreSound ==
  LET shown == Shown(samples)
      stats == Statistics(samples)
      range == YRange(samples)
  IN /\ Len(shown) <= ShownSamples \/ Len(shown) = Len(samples)
     /\ samples # <<>> => shown[1] = 1 /\ shown[Len(shown)] = Len(samples)
     /\ \A k \in 1..Len(shown) - 1 : shown[k] < shown[k + 1]
     /\ stats.n + stats.nonFinite = Len(samples)
     /\ \A k \in 1..Len(stats.values) - 1 : stats.values[k] <= stats.values[k + 1]
     /\ stats.deviation => stats.values # <<>>
     /\ range[1] < range[2]
     /\ \A k \in DOMAIN shown : samples[shown[k]] # NonFinite =>
          range[1] < 20 * samples[shown[k]] /\ 20 * samples[shown[k]] < range[2]

\* A report tells what was recorded, in numbers and in charts (derived.py).
ReportsAreFaithful == OutcomesAddUp /\ SeriesAreSound
=============================================================================
