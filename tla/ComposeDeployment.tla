-------------------------- MODULE ComposeDeployment --------------------------
(***************************************************************************)
(* deployment.py: ComposeDeployment.run, any number of times at once over  *)
(* one runs directory.  A command looks at the runs directory, brings the  *)
(* project's services up until the benchmark exits, reads their status,    *)
(* always takes the project down, looks again and reports on the one new   *)
(* run.  Runs that are started without Compose use the same directory.     *)
(*                                                                         *)
(* Preparation (images, bind sources, checkpoint, bundle) succeeds or      *)
(* raises; a service's exit code is zero or not.                           *)
(***************************************************************************)
EXTENDS Naturals, FiniteSets

CONSTANTS
  Deployments,         \* commands, each with its own Compose project
  MaxForeignRuns,      \* bound: runs created by anything else
  MaxComposeFaults     \* bound: errors, interrupts and kills together

ASSUME ComposeAssumption ==
  "direct" \notin Deployments /\ MaxForeignRuns \in Nat /\ MaxComposeFaults \in Nat

VARIABLES
  composeAt,       \* where each command is
  project,         \* its services: "none", "up", "exited"
  snapshot,        \* the run directories it saw before the benchmark
  exitCodes,       \* whether up and the status of the services were good
  runsRoot,        \* run directories: who made them and whether they are complete
  reportedRun,     \* the run a command reports on
  struckBy,        \* history: what struck each command
  composeFaults    \* what is left of the bounds

composeVars == <<composeAt, project, snapshot, exitCodes, runsRoot, reportedRun, struckBy,
                 composeFaults>>

ComposeEnds == {"completed", "raised", "dead"}
Good == [up |-> TRUE, status |-> TRUE]
RunsOf(p) == {r \in runsRoot : r.by = p}

ComposeInit ==
  /\ composeAt = [p \in Deployments |-> "prepare"]
  /\ project = [p \in Deployments |-> "none"]
  /\ snapshot = [p \in Deployments |-> {}]
  /\ exitCodes = [p \in Deployments |-> Good]
  /\ runsRoot = {}
  /\ reportedRun = [p \in Deployments |-> {}]
  /\ struckBy = [p \in Deployments |-> {}]
  /\ composeFaults = [foreign |-> MaxForeignRuns, faults |-> MaxComposeFaults]

ComposeAt(p, from, to) == composeAt[p] = from /\ composeAt' = [composeAt EXCEPT ![p] = to]
Ids == {r.id : r \in runsRoot}

\* Bind sources, dataset root, images, adapter, checkpoint, bundle.
PrepareDeployment(p) ==
  /\ ComposeAt(p, "prepare", "before")
  /\ UNCHANGED <<project, snapshot, exitCodes, runsRoot, reportedRun, struckBy, composeFaults>>

\* runs_before, and docker compose config.
LookBefore(p) ==
  /\ ComposeAt(p, "before", "up")
  /\ snapshot' = [snapshot EXCEPT ![p] = Ids]
  /\ UNCHANGED <<project, exitCodes, runsRoot, reportedRun, struckBy, composeFaults>>

ComposeUp(p) ==
  /\ composeAt[p] = "up" /\ project[p] = "none"
  /\ project' = [project EXCEPT ![p] = "up"]
  /\ UNCHANGED <<composeAt, snapshot, exitCodes, runsRoot, reportedRun, struckBy, composeFaults>>

\* The benchmark service: it makes its run directory at most once, finalizes
\* it, and exits zero only if the run completed (module ExperimentRun).
BenchmarkCreatesRun(p) ==
  /\ project[p] = "up" /\ RunsOf(p) = {}
  /\ runsRoot' = runsRoot \union {[id |-> Cardinality(runsRoot) + 1, by |-> p, complete |-> FALSE]}
  /\ UNCHANGED <<composeAt, project, snapshot, exitCodes, reportedRun, struckBy, composeFaults>>

BenchmarkExits(p) ==
  /\ project[p] = "up"
  /\ project' = [project EXCEPT ![p] = "exited"]
  /\ \/ /\ RunsOf(p) # {}
        /\ runsRoot' = {IF r.by = p THEN [r EXCEPT !.complete = TRUE] ELSE r : r \in runsRoot}
        /\ UNCHANGED <<exitCodes, struckBy>>
     \/ /\ exitCodes' = [exitCodes EXCEPT ![p].up = FALSE]
        /\ struckBy' = [struckBy EXCEPT ![p] = @ \union {"benchmark"}]
        /\ UNCHANGED runsRoot
  /\ UNCHANGED <<composeAt, snapshot, reportedRun, composeFaults>>

UpReturns(p) ==
  /\ project[p] = "exited"
  /\ ComposeAt(p, "up", "status")
  /\ UNCHANGED <<project, snapshot, exitCodes, runsRoot, reportedRun, struckBy, composeFaults>>

\* docker compose ps: also the policy service must have exited with zero.
ReadStatus(p) ==
  /\ ComposeAt(p, "status", "down")
  /\ UNCHANGED <<project, snapshot, exitCodes, runsRoot, reportedRun, struckBy, composeFaults>>

ComposeDown(p) ==
  /\ composeAt[p] = "down"
  /\ composeAt' = [composeAt EXCEPT ![p] =
       IF exitCodes[p] = Good /\ struckBy[p] = {} THEN "after" ELSE "raised"]
  /\ project' = [project EXCEPT ![p] = "none"]
  /\ UNCHANGED <<snapshot, exitCodes, runsRoot, reportedRun, struckBy, composeFaults>>

Appeared(p) == {r \in runsRoot : r.id \notin snapshot[p]}

\* Exactly one directory that was not there before.
NewRun(p) == IF Cardinality(Appeared(p)) = 1 THEN Appeared(p) ELSE {}

LookAfter(p) ==
  /\ composeAt[p] = "after"
  /\ reportedRun' = [reportedRun EXCEPT ![p] = NewRun(p)]
  /\ composeAt' = [composeAt EXCEPT ![p] = IF NewRun(p) = {} THEN "raised" ELSE "report"]
  /\ UNCHANGED <<project, snapshot, exitCodes, runsRoot, struckBy, composeFaults>>

\* The reporting service derives the reports (module DerivedReports).
Postprocess(p) ==
  /\ ComposeAt(p, "report", "completed")
  /\ UNCHANGED <<project, snapshot, exitCodes, runsRoot, reportedRun, struckBy, composeFaults>>

ForeignRun ==
  /\ composeFaults.foreign > 0
  /\ composeFaults' = [composeFaults EXCEPT !.foreign = @ - 1]
  /\ runsRoot' = runsRoot \union
       {[id |-> Cardinality(runsRoot) + 1, by |-> "direct", complete |-> FALSE]}
  /\ UNCHANGED <<composeAt, project, snapshot, exitCodes, reportedRun, struckBy>>

\* Mutant: down is skipped when the status cannot be read.
AfterFailureAtOnce(at) == IF at = "up" THEN "down" ELSE "raised"

\* up and status go on to down.
AfterFailure(at) == IF at \in {"up", "status"} THEN "down" ELSE "raised"

\* A command returned non-zero or raised.
ComposeFails(p) ==
  /\ composeFaults.faults > 0
  /\ composeFaults' = [composeFaults EXCEPT !.faults = @ - 1]
  /\ composeAt[p] \notin ComposeEnds
  /\ LET at == composeAt[p]
     IN /\ composeAt' = [composeAt EXCEPT ![p] = AfterFailure(at)]
        /\ struckBy' = [struckBy EXCEPT ![p] = @ \union {IF at = "down" THEN "down" ELSE "error"}]
        /\ exitCodes' = IF at = "status" THEN [exitCodes EXCEPT ![p].status = FALSE] ELSE exitCodes
  /\ UNCHANGED <<project, snapshot, runsRoot, reportedRun>>

KillDeployment(p) ==
  /\ composeFaults.faults > 0
  /\ composeFaults' = [composeFaults EXCEPT !.faults = @ - 1]
  /\ composeAt[p] \notin ComposeEnds
  /\ composeAt' = [composeAt EXCEPT ![p] = "dead"]
  /\ struckBy' = [struckBy EXCEPT ![p] = @ \union {"kill"}]
  /\ UNCHANGED <<project, snapshot, exitCodes, runsRoot, reportedRun>>

ComposeStep(p) ==
  \/ PrepareDeployment(p) \/ LookBefore(p) \/ ComposeUp(p) \/ BenchmarkCreatesRun(p)
  \/ BenchmarkExits(p) \/ UpReturns(p) \/ ReadStatus(p) \/ ComposeDown(p) \/ LookAfter(p)
  \/ Postprocess(p)

ComposeNext ==
  \/ \E p \in Deployments : ComposeStep(p) \/ ComposeFails(p) \/ KillDeployment(p)
  \/ ForeignRun

ComposeSpec == ComposeInit /\ [][ComposeNext]_composeVars

-----------------------------------------------------------------------------
(* Properties.                                                             *)

\* A report is about the command's own completed run, never another's that
\* appeared in the same directory meanwhile.
ReportsItsOwnRun ==
  \A p \in Deployments : reportedRun[p] # {} =>
    /\ reportedRun[p] = RunsOf(p)
    /\ \A r \in reportedRun[p] : r.complete

\* A command that ended, other than by a kill or in docker compose down itself,
\* left no service of its project; and one that nothing struck fails only
\* because another run appeared between its two looks, its own run complete.
EndedDeploymentsExplained ==
  \A p \in Deployments :
    /\ composeAt[p] \in {"completed", "raised"} /\ "down" \notin struckBy[p] => project[p] = "none"
    /\ composeAt[p] = "raised" /\ struckBy[p] = {} =>
         /\ \E r \in runsRoot : r.by = p /\ r.complete
         /\ \E r \in runsRoot : r.by # p /\ r.id \notin snapshot[p]

\* What a command reports and how it fails (deployment.py, ComposeDeployment.run).
DeploymentsAreExplained == ReportsItsOwnRun /\ EndedDeploymentsExplained
=============================================================================
