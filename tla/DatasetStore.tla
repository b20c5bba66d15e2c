---------------------------- MODULE DatasetStore ----------------------------
(***************************************************************************)
(* DatasetStore.fetch and import_local of ovlab_benchctl/datasets.py: any  *)
(* number of processes acquire, prepare and publish the resolutions that   *)
(* compete for one publication path provider/name/version.  A resolution   *)
(* has a lock file of its own, so two resolutions of one path meet only in *)
(* the directory itself.                                                   *)
(*                                                                         *)
(* A build is a staging directory; publication renames it to the path.     *)
(* File contents are reduced to whether they are what the resolution       *)
(* names, manifests to their presence; files for which the provider names  *)
(* no digest, which LIBERO downloads again, are left out.  Every write of  *)
(* the code to the store is a step, after which the process may be killed, *)
(* be interrupted (KeyboardInterrupt) or meet an error.                    *)
(***************************************************************************)
EXTENDS Naturals, Sequences

CONSTANTS
  Processes,      \* invocations of the dataset commands
  Resolutions,    \* resolutions whose _publication_path is the same
  Files,          \* payload files of the dataset
  Bridge,         \* the DatasetBridge of the provider
  MaxCalls,       \* bound: calls of fetch or import_local
  MaxErrors,      \* bound: failing operations
  MaxInterrupts,  \* bound: KeyboardInterrupts
  MaxKills        \* bound: killed processes

\* A dataset without files is not modelled: every bridge refuses it.
ASSUME StoreAssumption ==
  /\ Resolutions # {}
  /\ Files # {}
  /\ Bridge \in {"libero", "url", "local"}
  /\ MaxCalls \in Nat
  /\ MaxErrors \in Nat
  /\ MaxInterrupts \in Nat
  /\ MaxKills \in Nat

VARIABLES
  pc,        \* where the call of each process is
  res,       \* the resolution of the call
  work,      \* index of the build the call works on, 0 before it has one
  builds,    \* the staging directories ever created, in order
  exc,       \* what the except clauses of _materialize caught
  outcome,   \* result of the last call: its kind and its build
  disturbed, \* history: an error or an interrupt struck the current call
  budget     \* what is left of the bounds

vars == <<pc, res, work, builds, exc, outcome, disturbed, budget>>

\* "partial": only the .partial file exists; "changed": a local source that
\* changed after it was inventoried.
Status == {"absent", "partial", "good", "changed"}

Build ==
  [res: Resolutions,
   place: {"staging", "path"},
   state: {"none", "downloading", "verifying", "preparing", "failed", "interrupted"},
   rawDir: BOOLEAN,
   raw: [Files -> Status],
   prepared: {"none", "partial", "complete"},
   record: BOOLEAN,      \* dataset.json
   manifest: BOOLEAN]    \* manifest.json, state "ready"

NewBuild(r) ==
  [res |-> r, place |-> "staging", state |-> "none", rawDir |-> FALSE,
   raw |-> [f \in Files |-> "absent"], prepared |-> "none", record |-> FALSE,
   manifest |-> FALSE]

\* Before the try block of _materialize, with and without the lock; inside it.
BeforeTry == {"find", "verify_ready", "slot", "stage", "staged"}
InTry == {"clean", "downloading", "acquire", "verifying", "verify", "preparing", "prepare",
          "prepared", "target", "record", "unstate", "rename", "manifest", "seal"}
Handlers == {"mark"}
Locked == BeforeTry \union InTry \union Handlers

Indices == 1..Len(builds)
AtPath == { b \in Indices : builds[b].place = "path" }
Mine(p) == builds[work[p]]
Complete(b) == \A f \in Files : builds[b].raw[f] = "good"

-----------------------------------------------------------------------------
(* Steps of a call.                                                        *)

Goto(p, l) == pc' = [pc EXCEPT ![p] = l]

\* The call of p returns or raises, and flock is released.
End(p, kind) ==
  /\ Goto(p, "idle")
  /\ outcome' = [outcome EXCEPT ![p] = [kind |-> kind, build |-> work[p]]]
  /\ work' = [work EXCEPT ![p] = 0]
  /\ UNCHANGED <<res, builds, exc, disturbed, budget>>

\* An exception in the try block.
Caught(p, kind) ==
  /\ Goto(p, "mark")
  /\ exc' = [exc EXCEPT ![p] = kind]

\* A check of the code fails.
Refuse(p) ==
  /\ Caught(p, "failed")
  /\ UNCHANGED <<res, work, builds, outcome, disturbed, budget>>

\* A write to the build of p, which becomes b, on the way to l.
Write(p, b, l) ==
  /\ builds' = [builds EXCEPT ![work[p]] = b]
  /\ Goto(p, l)
  /\ UNCHANGED <<res, work, exc, outcome, disturbed, budget>>

Read(p, l) ==
  /\ Goto(p, l)
  /\ UNCHANGED <<res, work, builds, exc, outcome, disturbed, budget>>

\* fetch or import_local resolves its request.
Begin(p, r) ==
  /\ pc[p] = "idle"
  /\ budget.calls > 0
  /\ budget' = [budget EXCEPT !.calls = @ - 1]
  /\ Goto(p, "lock")
  /\ res' = [res EXCEPT ![p] = r]
  /\ work' = [work EXCEPT ![p] = 0]
  /\ exc' = [exc EXCEPT ![p] = "none"]
  /\ disturbed' = [disturbed EXCEPT ![p] = FALSE]
  /\ UNCHANGED <<builds, outcome>>

\* Faulty: a lock that outlives its call.
LockNeverReleased(p) == \A q \in Processes \ {p} : pc[q] # "lock" => res[q] # res[p]

\* flock(LOCK_EX) on the lock file of the resolution: external.
LockFree(p) == \A q \in Processes : pc[q] \in Locked => res[q] # res[p]

Lock(p) ==
  /\ pc[p] = "lock"
  /\ LockFree(p)
  /\ Read(p, "find")

\* find_resolution: a ready manifest of this resolution.
FindResolution(p) ==
  /\ pc[p] = "find"
  /\ IF \E b \in AtPath : builds[b].manifest /\ builds[b].res = res[p]
     THEN Read(p, "verify_ready")
     ELSE Read(p, "slot")

\* verify: every file the manifest names.
VerifyReady(p) ==
  /\ pc[p] = "verify_ready"
  /\ IF \A b \in AtPath : Complete(b) /\ builds[b].prepared = "complete"
     THEN End(p, "reused")
     ELSE End(p, "failed")

\* _assert_version_slot_available: anything at the path is an error.
CheckSlot(p) ==
  /\ pc[p] = "slot"
  /\ IF AtPath = {} THEN Read(p, "stage") ELSE End(p, "failed")

\* _recoverable_staging, which only LIBERO uses.  Of several the code takes the
\* newest: OneRecoverableStaging says that there never are several.
Recoverable(r) ==
  { b \in Indices :
      /\ Bridge = "libero"
      /\ builds[b].place = "staging"
      /\ builds[b].res = r
      /\ builds[b].state \in {"failed", "interrupted"}
      /\ builds[b].rawDir }

\* Faulty: a new staging directory every time.
StageAnew(p) ==
  /\ pc[p] = "stage"
  /\ builds' = Append(builds, NewBuild(res[p]))
  /\ work' = [work EXCEPT ![p] = Len(builds) + 1]
  /\ Goto(p, "staged")
  /\ UNCHANGED <<res, exc, outcome, disturbed, budget>>

\* staging.mkdir
Stage(p) ==
  /\ pc[p] = "stage"
  /\ \/ /\ Recoverable(res[p]) # {}
        /\ \E b \in Recoverable(res[p]) : work' = [work EXCEPT ![p] = b]
        /\ UNCHANGED builds
        /\ Goto(p, "clean")
     \/ /\ Recoverable(res[p]) = {}
        /\ builds' = Append(builds, NewBuild(res[p]))
        /\ work' = [work EXCEPT ![p] = Len(builds) + 1]
        /\ Goto(p, "staged")
  /\ UNCHANGED <<res, exc, outcome, disturbed, budget>>

\* The try block is entered with a new directory.
EnterTry(p) ==
  /\ pc[p] = "staged"
  /\ Read(p, "downloading")

\* A resumed staging loses prepared/, then dataset.json.
Clean(p) ==
  /\ pc[p] = "clean"
  /\ IF Mine(p).prepared # "none"
     THEN Write(p, [Mine(p) EXCEPT !.prepared = "none"], "clean")
     ELSE Write(p, [Mine(p) EXCEPT !.record = FALSE], "downloading")

MarkDownloading(p) ==
  /\ pc[p] = "downloading"
  /\ Write(p, [Mine(p) EXCEPT !.state = "downloading"], "acquire")

\* acquire and import_path create raw/; only LIBERO accepts an existing one.
OpenRaw(p) ==
  /\ pc[p] = "acquire"
  /\ ~Mine(p).rawDir
  /\ Write(p, [Mine(p) EXCEPT !.rawDir = TRUE], "acquire")

\* Faulty: a .partial file counts as a file.
MissingIgnoringPartial(p) == { f \in Files : Mine(p).raw[f] = "absent" }

\* Files the acquisition still has to bring; a complete staged file is reused.
Missing(p) == { f \in Files : Mine(p).raw[f] \in {"absent", "partial"} }

\* A file arrives: first .partial, checked and renamed when complete.  A
\* .partial of an earlier call is removed and begun again, which this reads as
\* the same status.  Copies of a local source bring what the source now holds.
FetchFile(p) ==
  /\ pc[p] = "acquire"
  /\ Mine(p).rawDir
  /\ \E f \in Missing(p) :
       \E s \in IF Bridge = "local" THEN {"good", "changed"}
                ELSE IF Mine(p).raw[f] = "partial" THEN {"good"} ELSE {"partial"} :
         Write(p, [Mine(p) EXCEPT !.raw[f] = s], "acquire")

\* source.json is written: the acquisition has every file.
Acquired(p) ==
  /\ pc[p] = "acquire"
  /\ Mine(p).rawDir
  /\ Missing(p) = {}
  /\ Read(p, "verifying")

MarkVerifying(p) ==
  /\ pc[p] = "verifying"
  /\ Write(p, [Mine(p) EXCEPT !.state = "verifying"], "verify")

\* bridge.verify: files exist, and have the digest the resolution expects.  A
\* LIBERO resolution expects none: its files were checked as they arrived.
DigestMatches(p) ==
  IF Bridge = "libero" THEN \E f \in Files : Mine(p).raw[f] # "absent"
  ELSE Complete(work[p])

VerifyRaw(p) ==
  /\ pc[p] = "verify"
  /\ IF DigestMatches(p) THEN Read(p, "preparing") ELSE Refuse(p)

MarkPreparing(p) ==
  /\ pc[p] = "preparing"
  /\ Write(p, [Mine(p) EXCEPT !.state = "preparing"], "prepare")

\* bridge.prepare: destination.mkdir(exist_ok=False) ...
OpenPrepared(p) ==
  /\ pc[p] = "prepare"
  /\ IF Mine(p).prepared = "none"
     THEN Write(p, [Mine(p) EXCEPT !.prepared = "partial"], "prepared")
     ELSE Refuse(p)

\* ... then every file is linked or extracted.
Prepare(p) ==
  /\ pc[p] = "prepared"
  /\ Write(p, [Mine(p) EXCEPT !.prepared = "complete"], "target")

\* final.exists()
CheckTarget(p) ==
  /\ pc[p] = "target"
  /\ IF AtPath = {} THEN Read(p, "record") ELSE Refuse(p)

WriteRecord(p) ==
  /\ pc[p] = "record"
  /\ Write(p, [Mine(p) EXCEPT !.record = TRUE], "unstate")

RemoveState(p) ==
  /\ pc[p] = "unstate"
  /\ Write(p, [Mine(p) EXCEPT !.state = "none"], "rename")

\* Faulty: the check of final.exists() is all that protects the path.
RenameOver(p) ==
  /\ pc[p] = "rename"
  /\ Write(p, [Mine(p) EXCEPT !.place = "path"], "manifest")

\* os.replace(staging, final): a directory that is not empty is never replaced.
Rename(p) ==
  /\ pc[p] = "rename"
  /\ IF AtPath = {} THEN Write(p, [Mine(p) EXCEPT !.place = "path"], "manifest") ELSE Refuse(p)

WriteManifest(p) ==
  /\ pc[p] = "manifest"
  /\ Write(p, [Mine(p) EXCEPT !.manifest = TRUE], "seal")

\* The files are made read-only and the manifest is returned.
Seal(p) ==
  /\ pc[p] = "seal"
  /\ End(p, "published")

\* The except clauses.  After an interrupt state.json is written where the
\* staging directory was, even if it is gone: the state of a published build is
\* that stub.  After an error it is written only if the directory is there.
Mark(p) ==
  /\ pc[p] = "mark"
  /\ Goto(p, "idle")
  /\ outcome' = [outcome EXCEPT ![p] = [kind |-> exc[p], build |-> work[p]]]
  /\ work' = [work EXCEPT ![p] = 0]
  /\ builds' = IF exc[p] = "interrupted" \/ Mine(p).place = "staging"
               THEN [builds EXCEPT ![work[p]] = [Mine(p) EXCEPT !.state = exc[p]]]
               ELSE builds
  /\ UNCHANGED <<res, exc, disturbed, budget>>

-----------------------------------------------------------------------------
(* What may strike a call at any step.                                     *)

\* An operation fails: inside the try block, outside it, in the except clause.
Error(p) ==
  /\ budget.errors > 0
  /\ budget' = [budget EXCEPT !.errors = @ - 1]
  /\ disturbed' = [disturbed EXCEPT ![p] = TRUE]
  /\ \/ /\ pc[p] \in InTry
        /\ Caught(p, "failed")
        /\ UNCHANGED <<work, outcome>>
     \/ /\ pc[p] \in {"lock"} \union BeforeTry \union Handlers
        /\ Goto(p, "idle")
        /\ outcome' = [outcome EXCEPT ![p] = [kind |-> "failed", build |-> work[p]]]
        /\ work' = [work EXCEPT ![p] = 0]
        /\ UNCHANGED exc
  /\ UNCHANGED <<res, builds>>

\* A KeyboardInterrupt.  _download turns it into a DatasetInterruptedError,
\* which the try block takes for a failure.
Interrupt(p) ==
  /\ budget.interrupts > 0
  /\ budget' = [budget EXCEPT !.interrupts = @ - 1]
  /\ disturbed' = [disturbed EXCEPT ![p] = TRUE]
  /\ \/ /\ pc[p] \in InTry
        /\ Caught(p, "interrupted")
        /\ UNCHANGED <<work, outcome>>
     \/ /\ pc[p] = "acquire" /\ Bridge # "local"
        /\ Caught(p, "failed")
        /\ UNCHANGED <<work, outcome>>
     \/ /\ pc[p] \in {"lock"} \union BeforeTry \union Handlers
        /\ Goto(p, "idle")
        /\ outcome' = [outcome EXCEPT ![p] = [kind |-> "interrupted", build |-> work[p]]]
        /\ work' = [work EXCEPT ![p] = 0]
        /\ UNCHANGED exc
  /\ UNCHANGED <<res, builds>>

\* The process or its container is killed; the kernel releases its lock.
Kill(p) ==
  /\ pc[p] # "idle"
  /\ budget.kills > 0
  /\ budget' = [budget EXCEPT !.kills = @ - 1]
  /\ Goto(p, "idle")
  /\ outcome' = [outcome EXCEPT ![p] = [kind |-> "killed", build |-> work[p]]]
  /\ work' = [work EXCEPT ![p] = 0]
  /\ UNCHANGED <<res, builds, exc, disturbed>>

-----------------------------------------------------------------------------
Init ==
  /\ pc = [p \in Processes |-> "idle"]
  /\ res = [p \in Processes |-> CHOOSE r \in Resolutions : TRUE]
  /\ work = [p \in Processes |-> 0]
  /\ builds = <<>>
  /\ exc = [p \in Processes |-> "none"]
  /\ outcome = [p \in Processes |-> [kind |-> "none", build |-> 0]]
  /\ disturbed = [p \in Processes |-> FALSE]
  /\ budget = [calls |-> MaxCalls, errors |-> MaxErrors, interrupts |-> MaxInterrupts,
               kills |-> MaxKills]

Finding(p) == Lock(p) \/ FindResolution(p) \/ VerifyReady(p) \/ CheckSlot(p)

Acquiring(p) ==
  Stage(p) \/ EnterTry(p) \/ Clean(p) \/ MarkDownloading(p) \/ OpenRaw(p) \/ FetchFile(p) \/ Acquired(p)

Preparing(p) ==
  MarkVerifying(p) \/ VerifyRaw(p) \/ MarkPreparing(p) \/ OpenPrepared(p) \/ Prepare(p)

Publishing(p) ==
  CheckTarget(p) \/ WriteRecord(p) \/ RemoveState(p) \/ Rename(p) \/ WriteManifest(p) \/ Seal(p)

Call(p) == Finding(p) \/ Acquiring(p) \/ Preparing(p) \/ Publishing(p) \/ Mark(p)

Next ==
  \E p \in Processes :
    (\E r \in Resolutions : Begin(p, r)) \/ Call(p) \/ Error(p) \/ Interrupt(p) \/ Kill(p)

\* A command runs on: downloads have timeouts and a bounded number of retries.
\* No call is owed, and no error, interrupt or kill.
Spec == Init /\ [][Next]_vars /\ \A p \in Processes : WF_vars(Call(p))

-----------------------------------------------------------------------------
(* Properties.                                                             *)

Kinds == {"none", "published", "reused", "failed", "interrupted", "killed"}

\* Every variable of the store has its type.
TypeOK ==
  /\ pc \in [Processes -> {"idle", "lock"} \union Locked]
  /\ res \in [Processes -> Resolutions]
  /\ builds \in Seq(Build)
  /\ work \in [Processes -> 0..Len(builds)]
  /\ exc \in [Processes -> {"none", "failed", "interrupted"}]
  /\ outcome \in [Processes -> [kind: Kinds, build: Nat]]
  /\ disturbed \in [Processes -> BOOLEAN]
  /\ budget \in [calls: Nat, errors: Nat, interrupts: Nat, kills: Nat]

\* What the registry lists (_manifests) is published whole: every file is the
\* one the resolution names, and all of them were prepared.
ReadyIsComplete ==
  \A b \in Indices : builds[b].manifest =>
    builds[b].place = "path" /\ Complete(b) /\ builds[b].prepared = "complete" /\ builds[b].record

\* No two calls work in one staging directory: the resolution lock is held from
\* the choice of a recoverable directory until the call has left it.
ExclusiveStaging ==
  \A p \in Processes, q \in Processes : p # q /\ work[p] # 0 => work[p] # work[q]

\* _recoverable_staging never has a choice to make: a new directory is created
\* only when there is none to resume, so max(..., key=st_mtime_ns) is exact.
NothingToChoose ==
  \A r \in Resolutions : \A b, c \in Recoverable(r) : b = c

\* A call that nothing struck fails only for a reason that is still there: the
\* path is taken by another identity or by a publication without a manifest,
\* or the local source changed while it was copied.
FailuresExplained ==
  \A p \in Processes :
    outcome[p].kind = "failed" /\ pc[p] = "idle" /\ ~disturbed[p] =>
      \/ \E b \in AtPath : builds[b].res # res[p] \/ ~builds[b].manifest
      \/ outcome[p].build # 0 /\ ~Complete(outcome[p].build)

\* A retry finds the one directory its predecessors left, and a call fails only
\* for a reason the retry would meet again.
OneRecoverableStaging == NothingToChoose /\ FailuresExplained

\* Nothing of a directory at the publication path changes but its manifest,
\* which appears once; state is the stub left in its former staging directory.
PublishedNeverChanges ==
  [][\A b \in AtPath :
       /\ builds'[b].manifest \/ ~builds[b].manifest
       /\ builds'[b] = [builds[b] EXCEPT !.manifest = builds'[b].manifest,
                                        !.state = builds'[b].state]]_vars

\* A file that was staged whole is never given up: a retry reuses it.
StagedFilesKept ==
  [][\A b \in Indices, f \in Files :
       builds[b].raw[f] = "good" => builds'[b].raw[f] = "good"]_vars

Slot == INSTANCE PublicationSlot WITH
  Identities <- Resolutions,
  owner <- { builds[b].res : b \in AtPath },
  ready <- \E b \in AtPath : builds[b].manifest

\* Competing resolutions, killed and interrupted calls included, the path
\* belongs to the first identity that reaches it, and becomes ready once.
ImplementsSlot == Slot!SlotSpec

\* A call ends, waiting for the lock included.
CallsEnd == \A p \in Processes : pc[p] # "idle" ~> pc[p] = "idle"
=============================================================================
