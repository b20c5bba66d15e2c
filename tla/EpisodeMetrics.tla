---------------------------- MODULE EpisodeMetrics ----------------------------
(***************************************************************************)
(* The package ovlab-metrics as the runner uses it: the preflight of the   *)
(* enabled metrics, what is evaluated of each episode of a task, which     *)
(* failures of an episode reach the aggregation, and the results of the    *)
(* task.                                                                   *)
(*                                                                         *)
(* An action is whether its pose stands still and the value of its         *)
(* gripper, in tenths.  All predictions of a run have one action           *)
(* specification (the SDK compares them), so results of one metric differ  *)
(* in identity only when some describe their actions and others do not.    *)
(* Means, variances and norms are left out.                                *)
(***************************************************************************)
EXTENDS Integers, Sequences, FiniteSetsExt, SequencesExt

CONSTANTS
  MetricPlans,       \* what a plan, the action interface and the benchmark declare
  ActionKinds,       \* actions of an episode: still, gripper
  MaxActions,        \* maximum steps of the task
  MaxRollouts        \* rollouts of the task

ActionMetrics == {"action.variance", "action.smoothness_1", "action.smoothness_2"}
MetricIds == ActionMetrics \cup
  {"task.success", "task.success_rate", "failure.invalid_prediction_rate",
   "failure.action_modification_rate", "failure.repeated_no_op_rate",
   "failure.gripper_flicker_rate", "failure.collision_rate", "system.inference_latency",
   "system.control_frequency", "episode.length"}
GripperConventions == {"no_gripper", "none", "closed_positive", "open_positive",
                "binary_closed_one", "binary_open_one"}

ASSUME MetricsAssumption ==
  /\ MaxActions \in Nat \ {0} /\ MaxRollouts \in Nat \ {0}
  /\ ActionKinds \subseteq [still : BOOLEAN, gripper : Int]
  /\ \A p \in MetricPlans :
       /\ p.enabled \subseteq MetricIds /\ p.required \subseteq p.enabled
       /\ p.requireSelected \in BOOLEAN /\ p.recordSignals \in BOOLEAN
       /\ p.collisions \in BOOLEAN /\ p.frequency \in BOOLEAN /\ p.eligible \in BOOLEAN
       /\ p.attributable \in BOOLEAN
       /\ p.convention \in GripperConventions
       /\ p.onError \in {"stop_run", "continue_task", "continue_run"}
       /\ p.threshold \in Nat /\ p.deadband \in Nat
       /\ p.stable \in Nat \ {0} /\ p.minimumRun \in Nat \ {0, 1}

VARIABLES
  metricPlan,
  metricPhase,   \* connecting, running, refused, stopped, aggregated, raised
  trace,         \* of the current episode
  evaluated,     \* per finished episode: its status, its results and facts of its trace
  taskResults    \* metric -> result of the task
metricVars == <<metricPlan, metricPhase, trace, evaluated, taskResults>>

(***************************************************************************)
(* Traces and requirements.                                                *)
(***************************************************************************)
EmptyTrace == [reset |-> FALSE, predicted |-> FALSE, actions |-> << >>, ending |-> "none"]

(* The signals of the reset and of every step, unless recording drops them. *)
SignalsShown(t) ==
  IF ~metricPlan.recordSignals \/ ~t.reset THEN {}
  ELSE {"benchmark.task_success"}
         \cup (IF metricPlan.collisions THEN {"safety.collision_event"} ELSE {})

RequiredSignals(m) ==
  CASE m = "task.success" -> {"benchmark.task_success"}
    [] m = "failure.collision_rate" -> {"safety.collision_event"}
    [] OTHER -> {}
NeedsActions == ActionMetrics \cup {"failure.action_modification_rate",
  "failure.repeated_no_op_rate", "failure.gripper_flicker_rate"}
NeedsPredictions == {"failure.invalid_prediction_rate", "system.inference_latency"}
MinimumSamples(m) ==
  CASE m = "action.smoothness_2" -> 3
    [] m \in ActionMetrics \ {"action.smoothness_2"} -> 2
    [] OTHER -> 0

MissingEvidence(m, t) ==
  \/ m \in NeedsActions /\ t.actions = << >>
  \/ m \in NeedsPredictions /\ ~t.predicted
  \/ ~(RequiredSignals(m) \subseteq SignalsShown(t))
Insufficient(m, t) == Len(t.actions) < MinimumSamples(m)

(***************************************************************************)
(* Repeated no-ops and gripper flicker.                                    *)
(***************************************************************************)
(* The loop over the flags and a final FALSE: where a stretch of still steps *)
(* began, or 0, and the steps of the stretches that were long enough.        *)
Scan(scanned, i, flag, minimum) ==
  LET length == i - scanned.start
  IN IF flag THEN [start |-> IF scanned.start = 0 THEN i ELSE scanned.start, steps |-> scanned.steps]
     ELSE [start |-> 0,
           steps |-> scanned.steps
                       + (IF scanned.start # 0 /\ length >= minimum THEN length ELSE 0)]
RepeatedSteps(flags, minimum) ==
  LET scanned[i \in 0 .. Len(flags) + 1] ==
        IF i = 0 THEN [start |-> 0, steps |-> 0]
        ELSE Scan(scanned[i - 1], i, i <= Len(flags) /\ flags[i], minimum)
  IN scanned[Len(flags) + 1].steps

PositiveClosed(convention) == convention \in {"closed_positive", "binary_closed_one"}
Binary(convention) == convention \in {"binary_open_one", "binary_closed_one"}
GripperState(v, convention) ==
  LET p == metricPlan
      high == IF Binary(convention) THEN v >= p.threshold + p.deadband ELSE v >= p.threshold
      low == IF Binary(convention) THEN v <= p.threshold - p.deadband ELSE v <= 0 - p.threshold
  IN IF high THEN (IF PositiveClosed(convention) THEN "closed" ELSE "open")
     ELSE IF low THEN (IF PositiveClosed(convention) THEN "open" ELSE "closed")
     ELSE "unknown"

(* Steps whose state is known; those whose state is not the one last known;  *)
(* and of these the ones soon after the one before.                          *)
KnownSteps(values, convention) ==
  {i \in DOMAIN values : GripperState(values[i], convention) # "unknown"}
Successive(S, i, j) == i < j /\ \A k \in S : k <= i \/ j <= k
Changes(values, convention, i, j) ==
  GripperState(values[i], convention) # GripperState(values[j], convention)
Transitions(values, convention) ==
  LET known == KnownSteps(values, convention)
  IN {j \in known : \E i \in known : Successive(known, i, j) /\ Changes(values, convention, i, j)}
FlickerSteps(values, convention) ==
  LET moved == Transitions(values, convention)
  IN {j \in moved : \E i \in moved :
        /\ Successive(moved, i, j) /\ Changes(values, convention, i, j)
        /\ j - i <= metricPlan.stable}
Flickers(values, convention) == Cardinality(FlickerSteps(values, convention))
Grippers(t) == [i \in DOMAIN t.actions |-> t.actions[i].gripper]
Stills(t) == [i \in DOMAIN t.actions |-> t.actions[i].still]

(***************************************************************************)
(* Evaluation of an episode.                                               *)
(***************************************************************************)
Result(status) == [status |-> status, described |-> FALSE, terminal |-> "unknown", value |-> 0]

SuccessResult(t, terminal) ==
  LET success == t.ending = "success"
      told == [Result("available") EXCEPT !.terminal = terminal]
  IN IF success # (terminal = "success") THEN [told EXCEPT !.status = "error"]
     ELSE [told EXCEPT !.value = IF success THEN 1 ELSE 0]
DescribedResult == [Result("available") EXCEPT !.described = TRUE]
NoOpResult == IF metricPlan.eligible THEN DescribedResult ELSE Result("not_applicable")
FrequencyResult(t) ==
  Result(IF t.predicted /\ metricPlan.frequency THEN "available" ELSE "unavailable")
FlickerResult(t) ==
  CASE metricPlan.convention = "no_gripper" -> Result("not_applicable")
    [] metricPlan.convention = "none" -> Result("unavailable")
    [] OTHER -> [Result("available") EXCEPT
                   !.described = Cardinality(KnownSteps(Grippers(t), metricPlan.convention)) > 1]
MetricValue(m, t, terminal) ==
  CASE m = "task.success" -> SuccessResult(t, terminal)
    [] m = "failure.gripper_flicker_rate" -> FlickerResult(t)
    [] m = "failure.repeated_no_op_rate" -> NoOpResult
    [] m = "system.control_frequency" -> FrequencyResult(t)
    [] m \in ActionMetrics -> DescribedResult
    [] OTHER -> Result("available")

(* MetricEvaluator.evaluate for one metric. *)
Evaluate(m, t, terminal) ==
  IF MissingEvidence(m, t) THEN Result("unavailable")
  ELSE IF Insufficient(m, t) THEN Result("insufficient_data")
  ELSE MetricValue(m, t, terminal)

(* The success rate needs task.success, enabled or not. *)
EvaluatedMetrics ==
  (metricPlan.enabled \ {"task.success_rate"})
    \cup (IF "task.success_rate" \in metricPlan.enabled THEN {"task.success"} ELSE {})
EpisodeResults(t, terminal) == [m \in EvaluatedMetrics |-> Evaluate(m, t, terminal)]

(***************************************************************************)
(* Aggregation of a task.                                                  *)
(***************************************************************************)
Counted(results, statuses) ==
  Cardinality({i \in DOMAIN results : results[i].status \in statuses})
AggregationRaises(results) ==
  \/ \E i \in DOMAIN results : results[i].described # results[1].described
  \/ \E i \in DOMAIN results : results[i].status = "error"
(* Mutant: episodes that are too short are in no denominator. *)
AggregateForgettingShort(results) ==
  [valid |-> Counted(results, {"available"}), unavailable |-> Counted(results, {"unavailable"}),
   excluded |-> Counted(results, {"not_applicable"}), numerator |-> 0]

(* MetricSummary: its denominators. *)
Aggregate(results) ==
  [valid |-> Counted(results, {"available"}),
   unavailable |-> Counted(results, {"unavailable", "insufficient_data"}),
   excluded |-> Counted(results, {"not_applicable"}),
   numerator |-> 0]

SuccessExcluded(r) ==
  \/ r.terminal = "benchmark_error"
  \/ r.terminal = "aborted" /\ ~metricPlan.attributable
SuccessRateRaises(results) == Counted(results, {"error"}) > 0
SuccessRate(results) ==
  LET kept == {i \in DOMAIN results : ~SuccessExcluded(results[i])}
      eligible == {i \in kept : results[i].status = "available"}
  IN [valid |-> Cardinality(eligible),
      unavailable |-> Cardinality(kept \ eligible),
      excluded |-> Len(results) - Cardinality(kept),
      numerator |-> MapThenSumSet(LAMBDA i : results[i].value, eligible)]

ResultsOf(m) ==
  [i \in DOMAIN evaluated |-> evaluated[i].results[IF m = "task.success_rate" THEN "task.success" ELSE m]]
TaskAggregate(m) ==
  IF m = "task.success_rate" THEN SuccessRate(ResultsOf(m)) ELSE Aggregate(ResultsOf(m))
Drops(m) == m # "task.success_rate" /\ AggregationRaises(ResultsOf(m))
AggregateTaskRaises ==
  \E m \in metricPlan.enabled :
    \/ m = "task.success_rate" /\ SuccessRateRaises(ResultsOf(m))
    \/ m \in metricPlan.required /\ Drops(m)

(***************************************************************************)
(* The runner.                                                             *)
(***************************************************************************)
MetricsInit ==
  /\ metricPlan \in MetricPlans
  /\ metricPhase = "connecting"
  /\ trace = EmptyTrace /\ evaluated = << >> /\ taskResults = << >>

(* A required metric whose signals are not declared, or not recorded. *)
StaticallyMissing(m) ==
  ~(RequiredSignals(m) \subseteq SignalsShown([EmptyTrace EXCEPT !.reset = TRUE]))
Connect ==
  /\ metricPhase = "connecting"
  /\ metricPhase' = IF metricPlan.requireSelected
                       /\ \E m \in metricPlan.required : StaticallyMissing(m)
                    THEN "refused" ELSE "running"
  /\ UNCHANGED <<metricPlan, trace, evaluated, taskResults>>

RecordReset ==
  /\ metricPhase = "running" /\ ~trace.reset
  /\ trace' = [trace EXCEPT !.reset = TRUE]
  /\ UNCHANGED <<metricPlan, metricPhase, evaluated, taskResults>>

RecordPrediction ==
  /\ metricPhase = "running" /\ trace.reset /\ trace.ending = "none" /\ ~trace.predicted
  /\ trace' = [trace EXCEPT !.predicted = TRUE]
  /\ UNCHANGED <<metricPlan, metricPhase, evaluated, taskResults>>

(* A step of the benchmark; the last one it admits ends the episode. *)
Act(kind) ==
  /\ metricPhase = "running" /\ trace.predicted /\ trace.ending = "none"
  /\ Len(trace.actions) < MaxActions
  /\ \E ending \in {"none", "success", "failure", "time_limit"} :
       /\ (ending = "time_limit") <=> (Len(trace.actions) + 1 = MaxActions /\ ending # "success")
       /\ trace' = [trace EXCEPT !.actions = Append(@, kind), !.ending = ending]
  /\ UNCHANGED <<metricPlan, metricPhase, evaluated, taskResults>>

(* What the properties need of an episode that is over. *)
TraceFacts(t) ==
  [shown |-> SignalsShown(t) # {}, solved |-> t.ending = "success", acted |-> Len(t.actions),
   grips |-> Cardinality(KnownSteps(Grippers(t), metricPlan.convention))]

(* After an episode: its results, then the error policy. *)
FinishEpisode(terminal, failed) ==
  LET results == EpisodeResults(trace, terminal)
      troubled == \/ failed
                  \/ \E m \in metricPlan.required \cap DOMAIN results : results[m].status = "error"
      last == \/ Len(evaluated) + 1 = MaxRollouts
              \/ (troubled /\ metricPlan.onError = "continue_run")
  IN /\ evaluated' = Append(evaluated, [terminal |-> terminal, results |-> results,
                                        trace |-> TraceFacts(trace)])
     /\ trace' = EmptyTrace
     /\ metricPhase' =
          IF terminal = "aborted" \/ (troubled /\ metricPlan.onError = "stop_run")
          THEN "stopped"
          ELSE IF last THEN "aggregating" ELSE "running"
     /\ UNCHANGED <<metricPlan, taskResults>>

EpisodeEnds ==
  /\ metricPhase = "running" /\ trace.ending # "none"
  /\ FinishEpisode(trace.ending, FALSE)
(* Any hook of the policy or of the benchmark, end_episode included. *)
EpisodeFails ==
  /\ metricPhase = "running"
  /\ \E terminal \in {"policy_error", "benchmark_error"} :
       /\ terminal = "benchmark_error" => trace.ending = "none"
       /\ FinishEpisode(terminal, TRUE)
EpisodeInterrupted ==
  /\ metricPhase = "running"
  /\ FinishEpisode("aborted", TRUE)

AggregateTask ==
  /\ metricPhase = "aggregating"
  /\ IF AggregateTaskRaises
     THEN metricPhase' = "raised" /\ UNCHANGED taskResults
     ELSE /\ metricPhase' = "aggregated"
          /\ taskResults' = [m \in {m \in metricPlan.enabled : ~Drops(m)} |-> TaskAggregate(m)]
  /\ UNCHANGED <<metricPlan, trace, evaluated>>

MetricsNext ==
  \/ Connect \/ RecordReset \/ RecordPrediction
  \/ \E kind \in ActionKinds : Act(kind)
  \/ EpisodeEnds \/ EpisodeFails \/ EpisodeInterrupted \/ AggregateTask
MetricsSpec == MetricsInit /\ [][MetricsNext]_metricVars

(***************************************************************************)
(* Properties.                                                             *)
(***************************************************************************)
Holding(P(_)) == Cardinality({i \in DOMAIN evaluated : P(evaluated[i])})

(* Every result of a task accounts for every episode of the task, as valid, *)
(* unavailable or excluded (MetricSummary, TaskSuccessRateMetric).          *)
EveryEpisodeAccounted ==
  \A m \in DOMAIN taskResults :
    taskResults[m].valid + taskResults[m].unavailable + taskResults[m].excluded = Len(evaluated)

(* The success rate counts the successes of the task over the episodes that *)
(* showed its signal and were not the benchmark's fault.                    *)
SuccessRateCounts ==
  "task.success_rate" \in DOMAIN taskResults =>
    LET r == taskResults["task.success_rate"]
    IN /\ r.valid = Holding(LAMBDA e : e.trace.shown /\ e.terminal # "benchmark_error")
       /\ r.numerator = Holding(LAMBDA e : e.trace.shown /\ e.terminal = "success")

(* An action metric is left out of a task's results only if some episodes   *)
(* of the task had enough to describe and others had not.                   *)
Describable(m, e) ==
  CASE m \in ActionMetrics -> e.trace.acted >= MinimumSamples(m)
    [] m = "failure.repeated_no_op_rate" -> e.trace.acted > 0 /\ metricPlan.eligible
    [] m = "failure.gripper_flicker_rate" ->
         e.trace.acted > 0 /\ e.trace.grips > 1
           /\ metricPlan.convention \notin {"none", "no_gripper"}
    [] OTHER -> FALSE
Contradicts(e) == e.trace.shown /\ e.trace.solved /\ e.terminal # "success"
Incomparable(m) ==
  \/ Holding(LAMBDA e : Describable(m, e)) \notin {0, Len(evaluated)}
  \/ m = "task.success" /\ Holding(Contradicts) > 0
OnlyIncomparableDropped ==
  metricPhase = "aggregated" =>
    \A m \in metricPlan.enabled :
      (m \notin DOMAIN taskResults) <=> (m # "task.success_rate" /\ Incomparable(m))

(* Aggregation ends a run only over a success that was followed by a        *)
(* failure, or over a required metric of incomparable episodes; and then a  *)
(* success rate is never reported.                                          *)
RaisedOverEvidence ==
  /\ metricPhase = "raised" =>
       \/ "task.success_rate" \in metricPlan.enabled /\ Holding(Contradicts) > 0
       \/ \E m \in metricPlan.required : Incomparable(m)
  /\ "task.success_rate" \in DOMAIN taskResults => Holding(Contradicts) = 0

(* A repeated no-op is a step inside a stretch of still steps that is long  *)
(* enough.                                                                  *)
NoOpsAreStretches ==
  LET flags == Stills(trace)
      n == metricPlan.minimumRun
  IN RepeatedSteps(flags, n) =
       Cardinality({i \in DOMAIN flags :
         \E first \in 1 .. i : \E final \in i .. Len(flags) :
           final - first + 1 >= n /\ \A k \in first .. final : flags[k]})

(* Flicker does not depend on which end of the scale means closed, nor on    *)
(* the direction of the scale where the thresholds keep the two states       *)
(* apart; and its rate is a rate.                                            *)
Opposite(convention) ==
  CASE convention = "closed_positive" -> "open_positive"
    [] convention = "open_positive" -> "closed_positive"
    [] convention = "binary_closed_one" -> "binary_open_one"
    [] OTHER -> "binary_closed_one"
Mirrored(values) ==
  [i \in DOMAIN values |->
     (IF Binary(metricPlan.convention) THEN 2 * metricPlan.threshold ELSE 0) - values[i]]
KeepsApart ==
  IF Binary(metricPlan.convention) THEN metricPlan.deadband > 0 ELSE metricPlan.threshold > 0
FlickerIsARate ==
  metricPlan.convention \notin {"no_gripper", "none"} =>
    LET values == Grippers(trace)
        c == metricPlan.convention
        known == Cardinality(KnownSteps(values, c))
    IN /\ KeepsApart => Flickers(values, c) = Flickers(Mirrored(values), c)
       /\ Flickers(values, c) = Flickers(values, Opposite(c))
       /\ Flickers(values, c) <= IF known = 0 THEN 0 ELSE known - 1

(* What a task reports of its episodes is complete, right and comparable.   *)
MetricsAreSound ==
  /\ EveryEpisodeAccounted /\ SuccessRateCounts /\ OnlyIncomparableDropped
  /\ RaisedOverEvidence /\ NoOpsAreStretches /\ FlickerIsARate

(* "Success-rate eligibility includes success, failure, time limit, policy  *)
(* error" (ovlab-metrics README): what the package says of its denominator. *)
PolicyErrorsAreEligible ==
  "task.success_rate" \in DOMAIN taskResults /\ metricPlan.recordSignals =>
    taskResults["task.success_rate"].valid =
      Holding(LAMBDA e : e.terminal \in {"success", "failure", "time_limit", "policy_error"})
=============================================================================
