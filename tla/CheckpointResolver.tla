-------------------------- MODULE CheckpointResolver --------------------------
(***************************************************************************)
(* CheckpointResolver of checkpointing.py: resolve, resolve_latest and     *)
(* resolve_finalized_training_checkpoint for one repository revision.  Any *)
(* number of commands look at the Hugging Face cache, at the path of a     *)
(* local profile and at the managed cache, link or download into a hidden  *)
(* directory and rename it to the managed snapshot.  Linking is guarded by *)
(* .resolve.lock, downloading by .download.lock: two files, one snapshot.  *)
(*                                                                         *)
(* A directory of files is the version of its content; "torn" stands for   *)
(* files that are missing or changed, "empty" for a directory without      *)
(* files.  The two external sources may change at any time (MaxChanges);   *)
(* the managed snapshot is written here only.                              *)
(***************************************************************************)
EXTENDS Naturals

CONSTANTS
  Resolvers,      \* commands that resolve a checkpoint
  Requests,       \* what they are asked: kind, local, offline
  MaxChanges,     \* bound: changes of the external sources
  MaxResolverKills

NoOne == "no one"

ASSUME ResolverAssumption ==
  /\ NoOne \notin Resolvers
  /\ Requests \subseteq [kind: {"pinned", "latest", "trained"}, local: BOOLEAN, offline: BOOLEAN]
  /\ MaxChanges \in Nat
  /\ MaxResolverKills \in Nat

VARIABLES
  resolveAt,     \* where each command is
  request,       \* what it was asked
  spec,          \* the content it verifies against: CheckpointSpec
  candidate,     \* the source it found, and whether the managed one has the same files
  source,        \* content of the two external sources, "absent" if none
  managed,       \* content of the managed snapshot
  linkedFrom,    \* the source whose files the managed snapshot shares
  hidden,        \* content of each command's temporary directory
  locks,         \* holder of the two lock files
  answer,        \* what the call returned or raised
  stirred,       \* history: a source changed between a verification and its linking
  changes        \* what is left of the bounds

resolverVars == <<resolveAt, request, spec, candidate, source, managed, linkedFrom, hidden,
                  locks, answer, stirred, changes>>

Versions == {"pinned", "other", "torn", "empty"}
Sources == {"global", "local"}

ResolverInit ==
  /\ resolveAt = [p \in Resolvers |-> "idle"]
  /\ request = [p \in Resolvers |-> [kind |-> "pinned", local |-> FALSE, offline |-> FALSE]]
  /\ spec = [p \in Resolvers |-> "pinned"]
  /\ candidate = [p \in Resolvers |-> [from |-> "none", same |-> FALSE]]
  /\ source = [s \in Sources |-> "absent"]
  /\ managed = "absent"
  /\ linkedFrom = "none"
  /\ hidden = [p \in Resolvers |-> "absent"]
  /\ locks = [l \in {"resolve", "download"} |-> NoOne]
  /\ answer = [p \in Resolvers |-> "none"]
  /\ stirred = FALSE
  /\ changes = [sources |-> MaxChanges, kills |-> MaxResolverKills]

ResolveAt(p, from, to) == resolveAt[p] = from /\ resolveAt' = [resolveAt EXCEPT ![p] = to]
Answer(p, a) == answer' = [answer EXCEPT ![p] = a]
Release(p) == locks' = [l \in DOMAIN locks |-> IF locks[l] = p THEN NoOne ELSE locks[l]]

\* The existing directories in the order global cache, local profile, managed.
Content(s) == IF s = "managed" THEN managed ELSE source[s]
Found(p) ==
  {s \in Sources \union {"managed"} :
     Content(s) # "absent" /\ (s = "local" => request[p].local)}
First(S) ==
  IF "global" \in S THEN "global" ELSE IF "local" \in S THEN "local" ELSE "managed"

EndResolve(p, why) ==
  /\ resolveAt' = [resolveAt EXCEPT ![p] = "ended"]
  /\ hidden' = [hidden EXCEPT ![p] = "absent"]
  /\ Release(p)
  /\ Answer(p, why)

BeginResolve(p) ==
  /\ ResolveAt(p, "idle", "specify")
  /\ \E q \in Requests : request' = [request EXCEPT ![p] = q]
  /\ UNCHANGED <<spec, candidate, source, managed, linkedFrom, hidden, locks, answer, stirred,
                 changes>>

\* The content to verify against.  A pinned selection names it.
SpecifyPinned(p) ==
  /\ request[p].kind = "pinned"
  /\ ResolveAt(p, "specify", "search")
  /\ spec' = [spec EXCEPT ![p] = "pinned"]
  /\ UNCHANGED <<hidden, locks, answer>>

\* A moving selection takes what the first local snapshot of the newest
\* revision holds, and downloads that revision where there is none.
SpecifyLatest(p) ==
  /\ request[p].kind = "latest"
  /\ resolveAt[p] = "specify"
  /\ LET here == IF Found(p) = {} THEN "absent" ELSE Content(First(Found(p)))
     IN \/ /\ here \notin {"absent", "empty"}
           /\ ResolveAt(p, "specify", "search")
           /\ spec' = [spec EXCEPT ![p] = here]
           /\ UNCHANGED <<hidden, locks, answer>>
        \/ /\ here = "absent" /\ ~request[p].offline
           /\ ResolveAt(p, "specify", "lock_download")
           /\ UNCHANGED <<spec, hidden, locks, answer>>
        \/ /\ here = "empty" \/ (here = "absent" /\ request[p].offline)
           /\ EndResolve(p, "unavailable")
           /\ UNCHANGED spec

\* A trained bundle: any local snapshot with the base it was made from.
SpecifyBase(p) ==
  /\ request[p].kind = "trained"
  /\ resolveAt[p] = "specify"
  /\ IF \E s \in Found(p) : Content(s) = "pinned"
     THEN /\ ResolveAt(p, "specify", "search")
          /\ spec' = [spec EXCEPT ![p] = "pinned"]
          /\ UNCHANGED <<hidden, locks, answer>>
     ELSE EndResolve(p, "unavailable") /\ UNCHANGED spec

Specify(p) ==
  /\ SpecifyPinned(p) \/ SpecifyLatest(p) \/ SpecifyBase(p)
  /\ UNCHANGED <<request, candidate, source, managed, linkedFrom, stirred, changes>>

\* Moving and trained selections resolve offline once they are specified.
MustNotDownload(p) == request[p].offline \/ request[p].kind # "pinned"

\* The first existing candidate is taken, also if a later one would verify.
Search(p) ==
  /\ resolveAt[p] = "search"
  /\ \/ /\ Found(p) # {}
        /\ resolveAt' = [resolveAt EXCEPT ![p] = "verify"]
        /\ LET s == First(Found(p))
           IN candidate' = [candidate EXCEPT ![p] =
                [from |-> s, same |-> managed # "absent" /\ linkedFrom = s]]
        /\ UNCHANGED <<hidden, locks, answer>>
     \/ /\ Found(p) = {}
        /\ ~MustNotDownload(p)
        /\ resolveAt' = [resolveAt EXCEPT ![p] = "lock_download"]
        /\ UNCHANGED <<candidate, hidden, locks, answer>>
     \/ /\ Found(p) = {}
        /\ MustNotDownload(p)
        /\ EndResolve(p, "unavailable")
        /\ UNCHANGED candidate
  /\ UNCHANGED <<request, spec, source, managed, linkedFrom, stirred, changes>>

\* verify_checkpoint of the candidate, or of the managed snapshot if it has
\* the candidate's files; a managed candidate needs no more.
Verified(p) ==
  Content(IF candidate[p].same THEN "managed" ELSE candidate[p].from) = spec[p]
VerifyCandidate(p) ==
  /\ resolveAt[p] = "verify"
  /\ \/ /\ Verified(p)
        /\ resolveAt' = [resolveAt EXCEPT ![p] =
             IF candidate[p].from = "managed" THEN "ended" ELSE "lock_resolve"]
        /\ Answer(p, IF candidate[p].from = "managed" THEN "resolved" ELSE "none")
        /\ UNCHANGED <<hidden, locks>>
     \/ ~Verified(p) /\ EndResolve(p, "mismatch")
  /\ UNCHANGED <<request, spec, candidate, source, managed, linkedFrom, stirred, changes>>

TakeLock(p, l, from, to) ==
  /\ locks[l] = NoOne
  /\ ResolveAt(p, from, to)
  /\ locks' = [locks EXCEPT ![l] = p]
  /\ UNCHANGED <<request, spec, candidate, source, managed, linkedFrom, hidden, answer,
                 stirred, changes>>

\* Mutant: what another command linked meanwhile is taken as it is.
TrustedAnyway(p) == TRUE

\* Under the lock: the files verified before, or verified now.
Trusted(p) == candidate[p].same \/ managed = spec[p]

\* Under .resolve.lock: link what is not there, verify what others put there.
Link(p) ==
  /\ resolveAt[p] = "link"
  /\ \/ /\ managed = "absent"
        /\ resolveAt' = [resolveAt EXCEPT ![p] = "rename"]
        /\ hidden' = [hidden EXCEPT ![p] =
             IF source[candidate[p].from] = "absent" THEN "empty" ELSE source[candidate[p].from]]
        /\ UNCHANGED <<locks, answer>>
     \/ managed = "absent" /\ EndResolve(p, "link")
     \/ /\ managed # "absent"
        /\ EndResolve(p, IF Trusted(p) THEN "resolved" ELSE "mismatch")
  /\ UNCHANGED <<request, spec, candidate, source, managed, linkedFrom, stirred, changes>>

\* A moving selection resolves again what it downloaded or found under the
\* lock, by the content it has now and without the local profile.
ResolveAgain(p, content) ==
  /\ resolveAt' = [resolveAt EXCEPT ![p] = "search"]
  /\ request' = [request EXCEPT ![p].local = FALSE]
  /\ spec' = [spec EXCEPT ![p] = content]
  /\ hidden' = [hidden EXCEPT ![p] = "absent"]
  /\ Release(p)
  /\ UNCHANGED answer

\* Under .download.lock: the tested absence, the download, its verification.
Download(p) ==
  /\ resolveAt[p] = "download"
  /\ \/ /\ managed = "absent"
        /\ resolveAt' = [resolveAt EXCEPT ![p] = "rename"]
        /\ hidden' = [hidden EXCEPT ![p] = "pinned"]
        /\ UNCHANGED <<request, spec, locks, answer>>
     \/ /\ managed = "absent"
        /\ EndResolve(p, "download")
        /\ UNCHANGED <<request, spec>>
     \/ /\ managed # "absent"
        /\ IF request[p].kind = "latest" /\ managed # "empty"
           THEN ResolveAgain(p, managed)
           ELSE /\ EndResolve(p, IF managed = spec[p] THEN "resolved" ELSE "mismatch")
                /\ UNCHANGED <<request, spec>>
  /\ UNCHANGED <<candidate, source, managed, linkedFrom, stirred, changes>>

Occupied == managed \notin {"absent", "empty"}

\* os.rename of a directory: refused where a directory with files is.
RenameSnapshot(p) ==
  /\ resolveAt[p] = "rename"
  /\ \/ /\ ~Occupied
        /\ managed' = hidden[p]
        /\ linkedFrom' = IF locks["resolve"] = p THEN candidate[p].from ELSE "none"
        /\ IF request[p].kind = "latest" /\ locks["download"] = p
           THEN ResolveAgain(p, managed')
           ELSE EndResolve(p, "resolved") /\ UNCHANGED <<request, spec>>
     \/ /\ Occupied
        /\ EndResolve(p, "race")
        /\ UNCHANGED <<request, spec, managed, linkedFrom>>
  /\ UNCHANGED <<candidate, source, stirred, changes>>

ResolveStep(p) ==
  \/ Specify(p) \/ Search(p) \/ VerifyCandidate(p) \/ Link(p) \/ Download(p) \/ RenameSnapshot(p)
  \/ TakeLock(p, "resolve", "lock_resolve", "link")
  \/ TakeLock(p, "download", "lock_download", "download")

\* The user fills, edits or prunes a cache the resolver only reads; hard links
\* keep the files of a managed snapshot, edits in place are left out.
ChangeSource ==
  /\ changes.sources > 0
  /\ changes' = [changes EXCEPT !.sources = @ - 1]
  /\ \E s \in Sources, v \in Versions \union {"absent"} :
       /\ source[s] # v
       /\ source' = [source EXCEPT ![s] = v]
       /\ linkedFrom' = IF linkedFrom = s THEN "none" ELSE linkedFrom
  /\ stirred' = (stirred \/ \E p \in Resolvers : resolveAt[p] \in {"lock_resolve", "link"})
  /\ UNCHANGED <<resolveAt, request, spec, candidate, managed, hidden, locks, answer>>

\* The kernel releases the locks of a killed process; its directory stays.
KillResolver(p) ==
  /\ changes.kills > 0
  /\ resolveAt[p] \notin {"idle", "ended"}
  /\ resolveAt' = [resolveAt EXCEPT ![p] = "ended"]
  /\ Answer(p, "killed")
  /\ Release(p)
  /\ changes' = [changes EXCEPT !.kills = @ - 1]
  /\ UNCHANGED <<request, spec, candidate, source, managed, linkedFrom, hidden, stirred>>

ResolverNext ==
  \/ \E p \in Resolvers : BeginResolve(p) \/ ResolveStep(p) \/ KillResolver(p)
  \/ ChangeSource

ResolverSpec ==
  ResolverInit /\ [][ResolverNext]_resolverVars
    /\ \A p \in Resolvers : WF_resolverVars(ResolveStep(p))

-----------------------------------------------------------------------------
(* Properties.                                                             *)

\* A command returns the managed snapshot with the content it verified, under
\* either lock and whoever put it there, unless the user changed a source
\* between a verification and the linking, which is not verified again.  When
\* a linking and a downloading command meet below the two locks, one of them
\* fails and the other's snapshot stands.
ResolvedIsVerified ==
  \A p \in Resolvers :
    /\ answer[p] = "resolved" /\ ~stirred => managed = spec[p]
    /\ answer[p] = "race" => managed \notin {"absent", "empty"}

\* A snapshot with files is written once, by one rename, and stays.
ManagedSnapshotStays ==
  [][managed \notin {"absent", "empty"} => managed' = managed]_resolverVars
=============================================================================
