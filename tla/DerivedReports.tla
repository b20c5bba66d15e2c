---------------------------- MODULE DerivedReports ----------------------------
(***************************************************************************)
(* derived.py and interactive.py: the report engine, run by any number of  *)
(* commands beside the evaluation that still writes the source run.  An    *)
(* engine reads the run (manifest first, then the episodes), then the      *)
(* checksums that name the build, then stages, renames, points latest.json *)
(* to the build and publishes the dashboard of the build.                  *)
(*                                                                         *)
(* The content of a run is abstracted to how many episodes are finalized   *)
(* and whether its final manifest is there; checksums are those facts.     *)
(***************************************************************************)
EXTENDS Naturals

CONSTANTS
  Engines,             \* report commands
  MaxSourceEpisodes,   \* bound: episodes the source run records
  MaxGenerations,      \* bound: reports asked for
  MaxReportFaults      \* bound: raised errors and kills together

ASSUME ReportAssumption ==
  MaxSourceEpisodes \in Nat /\ MaxGenerations \in Nat /\ MaxReportFaults \in Nat

VARIABLES
  sourceRun,     \* the canonical run: its episodes and how far its finalization is
  reportAt,      \* where each engine is
  model,         \* what the engine read of the run
  identity,      \* the scope and the checksums that name its build
  staged,        \* the engines whose hidden stage is there
  builds,        \* published builds: their identity and the model they show
  latestBuild,   \* latest.json: none or one identity
  dashboards,    \* the builds whose dashboard is published
  generations, reportFaults  \* what is left of the bounds

reportVars == <<sourceRun, reportAt, model, identity, staged, builds, latestBuild,
                dashboards, generations, reportFaults>>

Scopes == {"run", "task"}
ReportModels == [complete : BOOLEAN, episodes : 0..MaxSourceEpisodes]
ReportIdentities ==
  [scope : Scopes, final : {"none", "integrity", "manifest"}, episodes : 0..MaxSourceEpisodes]
NoModel == [complete |-> FALSE, episodes |-> 0]
NoIdentity == [scope |-> "run", final |-> "none", episodes |-> 0]

DerivedReportsInit ==
  /\ sourceRun = [episodes |-> 0, at |-> "running"]
  /\ reportAt = [e \in Engines |-> "idle"]
  /\ model = [e \in Engines |-> NoModel]
  /\ identity = [e \in Engines |-> NoIdentity]
  /\ staged = {}
  /\ builds = {}
  /\ latestBuild = {}
  /\ dashboards = {}
  /\ generations = MaxGenerations
  /\ reportFaults = MaxReportFaults

ReportStep(e, from, to) == reportAt[e] = from /\ reportAt' = [reportAt EXCEPT ![e] = to]
Store == <<staged, builds, latestBuild, dashboards>>
Bounds == <<generations, reportFaults>>
Published(id) == \E b \in builds : b.identity = id

-----------------------------------------------------------------------------
(* The evaluation that writes the run: integrity.json comes before the final
   manifest, and is removed again when the finalization fails. *)

RecordEpisode ==
  /\ sourceRun.at = "running"
  /\ sourceRun.episodes < MaxSourceEpisodes
  /\ sourceRun' = [sourceRun EXCEPT !.episodes = @ + 1]

SealSource == sourceRun.at = "running" /\ sourceRun' = [sourceRun EXCEPT !.at = "sealed"]
FinishSource == sourceRun.at = "sealed" /\ sourceRun' = [sourceRun EXCEPT !.at = "final"]
WithdrawSource == sourceRun.at = "sealed" /\ sourceRun' = [sourceRun EXCEPT !.at = "withdrawn"]

SourceStep ==
  /\ RecordEpisode \/ SealSource \/ FinishSource \/ WithdrawSource
  /\ UNCHANGED <<reportAt, model, identity, Store, Bounds>>

-----------------------------------------------------------------------------
(* Reading the run *)

\* _canonical_inputs: integrity.json alone stands for a whole sealed run; else,
\* and for a task, the listing, in which the final manifest counts.
CanonicalInputs(scope) ==
  [scope |-> scope, episodes |-> sourceRun.episodes,
   final |-> IF scope = "run" /\ sourceRun.at \in {"sealed", "final"} THEN "integrity"
             ELSE IF sourceRun.at = "final" THEN "manifest" ELSE "none"]

\* build_report_model looks for the final manifest before it lists the episodes.
ReadFinalManifest(e, scope) ==
  /\ generations > 0
  /\ ReportStep(e, "idle", "episodes")
  /\ generations' = generations - 1
  /\ model' = [model EXCEPT ![e] = [complete |-> sourceRun.at = "final", episodes |-> 0]]
  /\ identity' = [identity EXCEPT ![e] = [NoIdentity EXCEPT !.scope = scope]]
  /\ UNCHANGED <<sourceRun, Store, reportFaults>>

\* A task without a finalized episode is not in the run.
ReadEpisodes(e) ==
  /\ reportAt[e] = "episodes"
  /\ LET missing == identity[e].scope = "task" /\ sourceRun.episodes = 0
     IN reportAt' = [reportAt EXCEPT ![e] = IF missing THEN "idle" ELSE "inputs"]
  /\ model' = [model EXCEPT ![e].episodes = sourceRun.episodes]
  /\ UNCHANGED <<sourceRun, identity, Store, Bounds>>

\* Mutant: the final manifest is looked for after the episodes were read.
ReadInputsAndManifest(e) ==
  /\ ReportStep(e, "inputs", "target")
  /\ identity' = [identity EXCEPT ![e] = CanonicalInputs(identity[e].scope)]
  /\ model' = [model EXCEPT ![e].complete = sourceRun.at = "final"]
  /\ UNCHANGED <<sourceRun, Store, Bounds>>

\* The checksums are taken after the run was read.
ReadInputs(e) ==
  /\ ReportStep(e, "inputs", "target")
  /\ identity' = [identity EXCEPT ![e] = CanonicalInputs(identity[e].scope)]
  /\ UNCHANGED <<sourceRun, model, Store, Bounds>>

-----------------------------------------------------------------------------
(* generate *)

BuildHolds(e) == Published(identity[e]) /\ identity[e] = CanonicalInputs(identity[e].scope)

\* A build of the same identity is verified and reused, latest.json is left alone.
Reuse(e) ==
  /\ reportAt[e] = "target"
  /\ Published(identity[e])
  /\ reportAt' = [reportAt EXCEPT ![e] = IF BuildHolds(e) THEN "dashboard" ELSE "idle"]
  /\ UNCHANGED <<sourceRun, model, identity, Store, Bounds>>

Stage(e) ==
  /\ ~Published(identity[e])
  /\ ReportStep(e, "target", "publish")
  /\ staged' = staged \cup {e}
  /\ UNCHANGED <<sourceRun, model, identity, builds, latestBuild, dashboards, Bounds>>

\* Mutant: the rename replaces the build of another engine.
PublishOver(e) ==
  /\ ReportStep(e, "publish", "latest")
  /\ staged' = staged \ {e}
  /\ builds' = {b \in builds : b.identity # identity[e]}
                 \cup {[identity |-> identity[e], model |-> model[e]]}
  /\ UNCHANGED <<sourceRun, model, identity, latestBuild, dashboards, Bounds>>

\* The rename fails when another engine was faster: the stage is removed.
Publish(e) ==
  /\ reportAt[e] = "publish"
  /\ staged' = staged \ {e}
  /\ IF Published(identity[e])
     THEN /\ reportAt' = [reportAt EXCEPT ![e] = "idle"]
          /\ UNCHANGED builds
     ELSE /\ reportAt' = [reportAt EXCEPT ![e] = "latest"]
          /\ builds' = builds \cup {[identity |-> identity[e], model |-> model[e]]}
  /\ UNCHANGED <<sourceRun, model, identity, latestBuild, dashboards, Bounds>>

PointLatest(e) ==
  /\ ReportStep(e, "latest", "finalize")
  /\ latestBuild' = {identity[e]}
  /\ UNCHANGED <<sourceRun, model, identity, staged, builds, dashboards, Bounds>>

\* finalize_managed_tree walks the whole report root of the run: the files of
\* another engine's stage may vanish under it.
Finalize(e) ==
  /\ reportAt[e] = "finalize"
  /\ \/ reportAt' = [reportAt EXCEPT ![e] = "dashboard"]
     \/ staged \ {e} # {} /\ reportAt' = [reportAt EXCEPT ![e] = "idle"]
  /\ UNCHANGED <<sourceRun, model, identity, Store, Bounds>>

\* publish_dashboard: made of report.json and named by it.
CheckDashboard(e) ==
  /\ reportAt[e] = "dashboard"
  /\ IF identity[e] \in dashboards
     THEN /\ reportAt' = [reportAt EXCEPT ![e] = "verify"]
          /\ UNCHANGED staged
     ELSE /\ reportAt' = [reportAt EXCEPT ![e] = "publish dashboard"]
          /\ staged' = staged \cup {e}
  /\ UNCHANGED <<sourceRun, model, identity, builds, latestBuild, dashboards, Bounds>>

PublishDashboard(e) ==
  /\ reportAt[e] = "publish dashboard"
  /\ staged' = staged \ {e}
  /\ IF identity[e] \in dashboards
     THEN reportAt' = [reportAt EXCEPT ![e] = "idle"]
     ELSE reportAt' = [reportAt EXCEPT ![e] = "verify"]
  /\ dashboards' = dashboards \cup {identity[e]}
  /\ UNCHANGED <<sourceRun, model, identity, builds, latestBuild, Bounds>>

\* The last verification compares the checksums with the run as it is now.
VerifyBuild(e) ==
  /\ reportAt[e] = "verify"
  /\ reportAt' = [reportAt EXCEPT ![e] = IF BuildHolds(e) THEN "reported" ELSE "idle"]
  /\ UNCHANGED <<sourceRun, model, identity, Store, Bounds>>

\* The command ends; what it printed is no longer its claim.
EndReport(e) == ReportStep(e, "reported", "idle") /\ UNCHANGED <<sourceRun, model, identity, Store, Bounds>>

\* An exception removes the stage, a kill leaves it.
ReportFault(e) ==
  /\ reportFaults > 0
  /\ reportFaults' = reportFaults - 1
  /\ reportAt[e] \notin {"idle", "reported", "killed"}
  /\ \/ reportAt' = [reportAt EXCEPT ![e] = "idle"] /\ staged' = staged \ {e}
     \/ reportAt' = [reportAt EXCEPT ![e] = "killed"] /\ UNCHANGED staged
  /\ UNCHANGED <<sourceRun, model, identity, builds, latestBuild, dashboards, generations>>

DerivedReportsNext ==
  \/ SourceStep
  \/ \E e \in Engines :
       \/ \E s \in Scopes : ReadFinalManifest(e, s)
       \/ ReadEpisodes(e) \/ ReadInputs(e) \/ Reuse(e) \/ Stage(e) \/ Publish(e)
       \/ PointLatest(e) \/ Finalize(e) \/ CheckDashboard(e) \/ PublishDashboard(e)
       \/ VerifyBuild(e) \/ EndReport(e) \/ ReportFault(e)

DerivedReportsSpec == DerivedReportsInit /\ [][DerivedReportsNext]_reportVars

-----------------------------------------------------------------------------
(* Properties *)

\* A report marked complete shows every episode of its run and is named by the
\* checksums of the finalized run, although the run was written while it was
\* read: derived.py looks for the final manifest before it lists the episodes,
\* and for the checksums after both.
CompleteReportsAreComplete ==
  \A b \in builds : b.model.complete =>
    /\ b.identity.final = (IF b.identity.scope = "run" THEN "integrity" ELSE "manifest")
    /\ sourceRun.at = "final"
    /\ b.model.episodes = sourceRun.episodes
    /\ b.identity.episodes = sourceRun.episodes

\* latest.json and the dashboards name builds that are there, an identity has
\* one build, and only a running or a killed engine has a stage.
DerivedStoreIsConsistent ==
  /\ latestBuild \cup dashboards \subseteq {b.identity : b \in builds}
  /\ \A b, c \in builds : b.identity = c.identity => b = c
  /\ \A e \in staged : reportAt[e] \in {"publish", "publish dashboard", "killed"}

\* What generate returns has been published with its dashboard (derived.py:1223).
ReportedIsPublished ==
  \A e \in Engines : reportAt[e] = "reported" =>
    Published(identity[e]) /\ identity[e] \in dashboards

\* What generate and verify promise of a report (derived.py, interactive.py).
ReportsHold == CompleteReportsAreComplete /\ DerivedStoreIsConsistent /\ ReportedIsPublished

BuildRegistry == INSTANCE PublicationRegistry WITH
  Identities <- ReportIdentities,
  Entries <- ReportModels,
  Readers <- ReportIdentities,
  published <- {<<b.identity, b.model>> : b \in builds},
  relied <- {<<i, i>> : i \in dashboards}

\* What a build shows never changes once it is published, also where engines
\* that read the run at different moments meet at one identity, and a dashboard
\* is published after the build it is made of (derived.py, interactive.py).
BuildsImplementRegistry == BuildRegistry!RegistrySpec

\* "the canonical run or task checksums used to build the report"
\* (REPORTING.md, Verify a report): a build shows the run its checksums name.
ReportsDescribeTheirInputs ==
  \A b \in builds : b.model.complete <=> b.identity.final # "none"
=============================================================================
