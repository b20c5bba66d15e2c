---------------------------- MODULE DerivedExports ----------------------------
(***************************************************************************)
(* exports.py: isolated and grouped exports of canonical runs, made by any *)
(* number of commands at once and published by replacing the directory of  *)
(* the same name.  A publication over an existing directory is two         *)
(* renames, the old one aside and the new one in its place.                *)
(*                                                                         *)
(* A run is its status and the suite, model and metric schema it has.  An  *)
(* export is the runs in its metadata, its scope and the command that made *)
(* it; isolated exports of one run and grouped ones of one name share the  *)
(* constant Exports.                                                       *)
(***************************************************************************)
EXTENDS Naturals, FiniteSets

CONSTANTS
  Exporters,        \* export commands
  ExportRuns,       \* the canonical runs
  SuiteOf,          \* the suite of each
  ModelOf,          \* its model key
  SchemaOf,         \* version, configuration and unit of its metrics
  Exports,          \* names of exports
  IsolatedOf,       \* the run an isolated name is about; {} for a group
  MaxExports,       \* bound: exports asked for
  MaxExportFaults   \* bound: raised errors and kills together

ASSUME ExportAssumption ==
  /\ IsFiniteSet(ExportRuns) /\ IsolatedOf \in [Exports -> SUBSET ExportRuns]
  /\ "nobody" \notin Exporters  \* who holds an aside that nobody will look for
  /\ MaxExports \in Nat /\ MaxExportFaults \in Nat

VARIABLES
  runStatus,      \* "active" until its final manifest, then as that says
  exportAt,       \* where each command is
  exporting,      \* its export: name, runs and scope
  exports,        \* the directory of each name: none or one export
  asides,         \* .previous directories: their name and content
  exportStages,   \* hidden stages
  exportedOnce,   \* history: names that were published
  exportsLeft, exportFaults  \* what is left of the bounds

exportVars == <<runStatus, exportAt, exporting, exports, asides, exportStages,
                exportedOnce, exportsLeft, exportFaults>>

NoExport == [name |-> "none", runs |-> {}, scope |-> "run", by |-> "none"]

DerivedExportsInit ==
  /\ runStatus = [r \in ExportRuns |-> "active"]
  /\ exportAt = [e \in Exporters |-> "idle"]
  /\ exporting = [e \in Exporters |-> NoExport]
  /\ exports = [n \in Exports |-> {}]
  /\ asides = {}
  /\ exportStages = {}
  /\ exportedOnce = {}
  /\ exportsLeft = MaxExports
  /\ exportFaults = MaxExportFaults

Directories == <<exports, asides, exportStages, exportedOnce>>

RunFinished(r, status) ==
  /\ runStatus[r] = "active"
  /\ runStatus' = [runStatus EXCEPT ![r] = status]
  /\ UNCHANGED <<exportAt, exporting, Directories, exportsLeft, exportFaults>>

-----------------------------------------------------------------------------
(* Which runs an export is about *)

\* verify_run: a final manifest and the inventory of integrity.json.
Verifies(r) == runStatus[r] # "active"

\* _group_records and the metric schemas: the completed runs of the suites among
\* the picked ones, those of the same model or all; nothing where the command
\* refuses.  _all_records verifies every run that is there: one that does not
\* verify fails the selection.
Selected(mode, picked, suites) ==
  LET verified == IF mode = "manual" THEN picked ELSE ExportRuns
      meant == CASE mode = "manual" -> picked
                 [] mode = "same-model" -> {r \in ExportRuns : \E q \in picked : ModelOf[r] = ModelOf[q]}
                 [] OTHER -> ExportRuns
      chosen == {r \in meant : runStatus[r] = "completed" /\ SuiteOf[r] \in suites}
      agreed == Cardinality({<<SuiteOf[r], SchemaOf[r]>> : r \in chosen}) <= 1
  IN IF agreed /\ \A r \in verified : Verifies(r) THEN chosen ELSE {}

BeginExport(e, n, runs, scope) ==
  /\ exportAt[e] = "idle"
  /\ exportsLeft > 0
  /\ exportsLeft' = exportsLeft - 1
  /\ runs # {}
  /\ exporting' = [exporting EXCEPT ![e] = [name |-> n, runs |-> runs, scope |-> scope, by |-> e]]
  /\ exportAt' = [exportAt EXCEPT ![e] = "publish"]
  /\ exportStages' = exportStages \cup {e}
  /\ UNCHANGED <<runStatus, exports, asides, exportedOnce, exportFaults>>

\* generate_isolated: any run that verifies, failed ones too; whole or one episode.
GenerateIsolated(e, n, scope) ==
  /\ IsolatedOf[n] # {}
  /\ \A r \in IsolatedOf[n] : Verifies(r)
  /\ BeginExport(e, n, IsolatedOf[n], scope)

GenerateGrouped(e, n) ==
  /\ IsolatedOf[n] = {}
  /\ \E suites \in {{SuiteOf[r]} : r \in ExportRuns} \cup {{SuiteOf[r] : r \in ExportRuns}},
        picked \in (SUBSET ExportRuns) \ {{}} :
       \/ BeginExport(e, n, Selected("manual", picked, suites), "run")
       \/ BeginExport(e, n, Selected("all", picked, suites), "run")
       \/ /\ Cardinality(picked) = 1
          /\ BeginExport(e, n, Selected("same-model", picked, suites), "run")

-----------------------------------------------------------------------------
(* _publish *)

Name(e) == exporting[e].name
ExportGoes(e, to) == exportAt' = [exportAt EXCEPT ![e] = to]
Raised(e) == ExportGoes(e, "idle") /\ exportStages' = exportStages \ {e}
Place(e) ==
  /\ exports' = [exports EXCEPT ![Name(e)] = {exporting[e]}]
  /\ exportedOnce' = exportedOnce \cup {Name(e)}
  /\ exportStages' = exportStages \ {e}
Same == <<runStatus, exporting, exportsLeft, exportFaults>>

CheckTarget(e) ==
  /\ exportAt[e] = "publish"
  /\ ExportGoes(e, IF exports[Name(e)] = {} THEN "place" ELSE "aside")
  /\ UNCHANGED <<Same, Directories>>

\* A rename onto a directory another command placed meanwhile fails.
PlaceNew(e) ==
  /\ exportAt[e] = "place"
  /\ IF exports[Name(e)] = {}
     THEN Place(e) /\ ExportGoes(e, "exported")
     ELSE Raised(e) /\ UNCHANGED <<exports, exportedOnce>>
  /\ UNCHANGED <<Same, asides>>

MoveAside(e) ==
  /\ exportAt[e] = "aside"
  /\ IF exports[Name(e)] = {}
     THEN Raised(e) /\ UNCHANGED <<exports, asides>>
     ELSE /\ ExportGoes(e, "replace")
          /\ exports' = [exports EXCEPT ![Name(e)] = {}]
          /\ asides' = asides \cup {[by |-> e, content |-> c] : c \in exports[Name(e)]}
          /\ UNCHANGED exportStages
  /\ UNCHANGED <<Same, exportedOnce>>

\* The old export is removed after the new one is in place.
ReplaceOld(e) ==
  /\ exportAt[e] = "replace"
  /\ IF exports[Name(e)] = {}
     THEN /\ Place(e) /\ ExportGoes(e, "exported")
          /\ asides' = {a \in asides : a.by # e}
     ELSE /\ ExportGoes(e, "restore")
          /\ UNCHANGED <<exports, exportedOnce, exportStages, asides>>
  /\ UNCHANGED Same

\* Mutant: the old export is removed.
RestoreNothing(e) ==
  /\ exportAt[e] = "restore"
  /\ Raised(e)
  /\ asides' = {a \in asides : a.by # e}
  /\ UNCHANGED <<Same, exports, exportedOnce>>

\* The old export comes back unless something is in its place; then it stays
\* aside, and no command will look for it.
Restore(e) ==
  /\ exportAt[e] = "restore"
  /\ Raised(e)
  /\ IF exports[Name(e)] = {}
     THEN /\ exports' = [exports EXCEPT ![Name(e)] = {a.content : a \in {b \in asides : b.by = e}}]
          /\ asides' = {a \in asides : a.by # e}
     ELSE /\ asides' = {IF a.by = e THEN [a EXCEPT !.by = "nobody"] ELSE a : a \in asides}
          /\ UNCHANGED exports
  /\ UNCHANGED <<Same, exportedOnce>>

EndExport(e) == exportAt[e] = "exported" /\ ExportGoes(e, "idle") /\ UNCHANGED <<Same, Directories>>

\* An exception in a rename: in _publish's try block the old export is restored.
ExportRaises(e) ==
  /\ exportFaults > 0
  /\ exportFaults' = exportFaults - 1
  /\ \/ exportAt[e] \in {"publish", "place", "aside"} /\ Raised(e)
     \/ exportAt[e] = "replace" /\ ExportGoes(e, "restore") /\ UNCHANGED exportStages
  /\ UNCHANGED <<runStatus, exporting, exports, asides, exportedOnce, exportsLeft>>

ExportKilled(e) ==
  /\ exportFaults > 0
  /\ exportFaults' = exportFaults - 1
  /\ exportAt[e] \in {"publish", "place", "aside", "replace", "restore"}
  /\ ExportGoes(e, IF exportAt[e] \in {"replace", "restore"} THEN "killed midway" ELSE "killed")
  /\ UNCHANGED <<runStatus, exporting, Directories, exportsLeft>>

DerivedExportsNext ==
  \/ \E r \in ExportRuns, s \in {"completed", "failed"} : RunFinished(r, s)
  \/ \E e \in Exporters :
       \/ \E n \in Exports, s \in {"run", "episode"} : GenerateIsolated(e, n, s)
       \/ \E n \in Exports : GenerateGrouped(e, n)
       \/ CheckTarget(e) \/ PlaceNew(e) \/ MoveAside(e) \/ ReplaceOld(e) \/ Restore(e)
       \/ EndExport(e) \/ ExportRaises(e) \/ ExportKilled(e)

DerivedExportsSpec == DerivedExportsInit /\ [][DerivedExportsNext]_exportVars

-----------------------------------------------------------------------------
(* Properties *)

\* A name that was published has an export at every moment, unless a command
\* stands, or was killed, between the two renames; and then the old export is
\* aside; a command that is over has left no stage (exports.py, _publish).
PublishedExportsStay ==
  /\ \A n \in exportedOnce : exports[n] = {} =>
       \E e \in Exporters :
         /\ exportAt[e] \in {"replace", "restore", "killed midway"}
         /\ exporting[e].name = n
         /\ \E a \in asides : a.by = e /\ a.content.name = n
  /\ \A e \in exportStages : exportAt[e] \notin {"idle", "exported"}

\* What is exported, and what a command holds back, are finished runs of one
\* suite and one metric schema, and a group holds completed ones only, although
\* runs finish while the command works.
ExportsAreComparable ==
  \A x \in (UNION {exports[n] : n \in Exports}) \cup {a.content : a \in asides} :
    /\ x.runs # {} /\ \A r \in x.runs : runStatus[r] # "active"
    /\ IsolatedOf[x.name] = {} =>
         /\ \A r \in x.runs : runStatus[r] = "completed"
         /\ \A r, q \in x.runs : SuiteOf[r] = SuiteOf[q] /\ SchemaOf[r] = SchemaOf[q]

\* What an export promises and the publication keeps (exports.py).
ExportsHold == PublishedExportsStay /\ ExportsAreComparable
=============================================================================
