----------------------------- MODULE DataCatalog -----------------------------
(***************************************************************************)
(* How data_management.py finds what a command names: run_references.py    *)
(* (exact IDs first, then short hashes) over the typed and the legacy      *)
(* roots, the IDs `data list` shows, and the states that decide whether a  *)
(* run or an artifact may be modified.                                     *)
(*                                                                         *)
(* A directory is the pair of its root and its name.  ShortHash gives each *)
(* name its eight characters; a name that is a hash itself is left out.    *)
(***************************************************************************)
EXTENDS FiniteSets, Sequences

CONSTANTS
  Names,        \* directory names
  Hashes,       \* short hashes
  ShortHash     \* run_hash

ASSUME CatalogAssumption == ShortHash \in [Names -> Hashes] /\ Names \cap Hashes = {}

VARIABLES
  runDirs,       \* run directories, below the active or the archived root
  artifactDirs,  \* directories of one family of reports or exports
  runFiles       \* one run directory: the kind of run, how it ended, its files

catalogVars == <<runDirs, artifactDirs, runFiles>>

RunRoots == {"train", "legacy train", "evaluate", "flat"}
ArtifactRoots == {"typed", "legacy"}
Nowhere == <<"none", "none">>
Ambiguous == <<"none", "ambiguous">>

-----------------------------------------------------------------------------
(* run_references.py.                                                      *)

ExactMatches(dirs, roots, ref) == {d \in dirs : d[1] \in roots /\ d[2] = ref}
HashMatches(dirs, roots, ref) == {d \in dirs : d[1] \in roots /\ ShortHash[d[2]] = ref}
\* Mutant: of several matches the first is taken.
OnlyOneOrFirst(S) == IF S = {} THEN Nowhere ELSE CHOOSE d \in S : TRUE

OnlyOne(S) ==
  IF S = {} THEN Nowhere
  ELSE IF Cardinality(S) = 1 THEN CHOOSE d \in S : TRUE ELSE Ambiguous

\* resolve_run_reference_across; for one root also resolve_run_reference.
ResolveReference(dirs, roots, ref) ==
  IF ref \in Hashes
  THEN OnlyOne(HashMatches(dirs, roots, ref))
  ELSE OnlyOne(ExactMatches(dirs, roots, ref))

-----------------------------------------------------------------------------
(* Targets and lists of data_management.py.                                *)

RunTarget(dirs, type, ref) ==
  ResolveReference(dirs,
    CASE type = "train" -> {"train", "legacy train"}
      [] type = "evaluate" -> {"evaluate"}
      [] OTHER -> RunRoots,
    ref)

\* _list_runs resolves each directory again, by the reference its root gives
\* it; one that is ambiguous makes the whole list fail.
ListedAs(d) ==
  RunTarget(runDirs, CASE d[1] \in {"train", "legacy train"} -> "train"
                       [] d[1] = "evaluate" -> "evaluate"
                       [] OTHER -> "any",
            d[2])
ListFails == \E d \in runDirs : ListedAs(d) = Ambiguous

\* _artifact_reference: of two copies with the same ID the typed one.
ArtifactReference(dirs, roots, ref) ==
  LET across == ResolveReference(dirs, roots, ref)
      typed == ResolveReference(dirs, {"typed"} \cap roots, ref)
      legacy == ResolveReference(dirs, {"legacy"} \cap roots, ref)
  IN IF across # Ambiguous \/ Ambiguous \in {typed, legacy} THEN across
     ELSE IF typed[2] = legacy[2] THEN typed ELSE Ambiguous

\* _report_target and _export_target of an ID, with or without "legacy:".
ArtifactTarget(dirs, legacy, ref) ==
  ArtifactReference(dirs, IF legacy THEN {"legacy"} ELSE ArtifactRoots, ref)

\* _list_reports, _list_exports: the ID shown for a directory.
ShownAsLegacy(dirs, d) == d[1] = "legacy" /\ <<"typed", d[2]>> \in dirs

-----------------------------------------------------------------------------
(* States.                                                                 *)

RunState(files) ==
  IF "manifest.completed" \in files THEN "completed"
  ELSE IF "manifest.failed aborted" \in files THEN "aborted"
  ELSE IF "manifest.failed" \in files THEN "failed"
  ELSE "active-or-incomplete"

\* select without --force.
Selectable(state) == state \notin {"active-or-incomplete", "incomplete"}

\* Files of a run that its own program has finalized: ExperimentRun for an
\* evaluation, TrainingRun for a training.
FinalFiles ==
  {<<"evaluate", {"manifest.started", "integrity", "manifest.completed"}>>,
   <<"evaluate", {"manifest.started", "integrity", "manifest.failed"}>>,
   <<"evaluate", {"manifest.started", "integrity", "manifest.failed aborted"}>>,
   <<"train", {"plan", "events", "result", "manifest"}>>}
OpenFiles ==
  {<<"evaluate", {"manifest.started"}>>, <<"train", {"plan", "events"}>>,
   <<"train", {"plan", "events", "result"}>>}

-----------------------------------------------------------------------------

CatalogInit == runDirs = {} /\ artifactDirs = {} /\ runFiles = <<"none", {}>>

MakeRun(d) ==
  /\ d \notin runDirs
  /\ runDirs' = runDirs \union {d}
  /\ UNCHANGED <<artifactDirs, runFiles>>

MakeArtifact(d) ==
  /\ d \notin artifactDirs
  /\ artifactDirs' = artifactDirs \union {d}
  /\ UNCHANGED <<runDirs, runFiles>>

FillRun(f) ==
  /\ runFiles[1] = "none" \/ (runFiles \in OpenFiles /\ runFiles[1] = f[1])
  /\ runFiles' = f
  /\ UNCHANGED <<runDirs, artifactDirs>>

CatalogNext ==
  \/ \E d \in RunRoots \X Names : MakeRun(d)
  \/ \E d \in ArtifactRoots \X Names : MakeArtifact(d)
  \/ \E f \in OpenFiles \union FinalFiles : FillRun(f)

CatalogSpec == CatalogInit /\ [][CatalogNext]_catalogVars

-----------------------------------------------------------------------------
(* Properties.                                                             *)

\* What a command resolves is what was meant.  A listed artifact's ID selects
\* that very directory, copies in both layouts included.  A run is listed as
\* itself; the list fails only where one ID exists twice among the roots it is
\* looked up in.  A short hash selects a run only if no other directory has
\* it, and never an artifact of one name while another name has it too.
ReferencesAreFaithful ==
  /\ \A d \in artifactDirs :
       ArtifactTarget(artifactDirs, ShownAsLegacy(artifactDirs, d), d[2]) = d
  /\ \A d \in runDirs : ListedAs(d) \in {d, Ambiguous}
  /\ ListFails => \E d, e \in runDirs : d # e /\ d[2] = e[2]
  /\ \A h \in Hashes, d \in runDirs, type \in {"train", "evaluate", "any"} :
       RunTarget(runDirs, type, h) = d =>
         \A e \in runDirs : ShortHash[e[2]] = h /\ RunTarget({e}, type, h) = e => e = d
  /\ \A h \in Hashes, d \in artifactDirs :
       ArtifactTarget(artifactDirs, FALSE, h) = d =>
         /\ \A e \in artifactDirs : ShortHash[e[2]] = h => e[2] = d[2]
         /\ d[1] = "legacy" => <<"typed", d[2]>> \notin artifactDirs

\* DATA_MANAGEMENT.md:124-150 documents archive/runs/train/<training-run-id>:
\* a finalized run of either kind can be archived.
FinalizedRunsAreArchivable == runFiles \in FinalFiles => Selectable(RunState(runFiles[2]))
=============================================================================
