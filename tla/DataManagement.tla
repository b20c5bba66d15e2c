---------------------------- MODULE DataManagement ----------------------------
(***************************************************************************)
(* data_management.py: archive and delete of managed targets by any number *)
(* of commands at once; no command takes a lock.  A target is a directory  *)
(* and, for a report, its interactive companion; both are moved one after  *)
(* the other.  Targets on another filesystem than the archive are copied   *)
(* into a hidden stage, verified, renamed and then removed.                *)
(*                                                                         *)
(* A directory is "absent", "whole" or "torn" (a removal or a copy is      *)
(* under way or died).  os.replace and rename refuse a destination that is *)
(* there.                                                                  *)
(***************************************************************************)
EXTENDS Naturals

CONSTANTS
  Managers,        \* data commands
  Targets,         \* selected artifacts
  Remote,          \* those on another filesystem than the archive root
  Paired,          \* those with an interactive companion
  MaxDataFaults    \* bound: raised errors and kills together

ASSUME DataAssumption ==
  /\ Remote \subseteq Targets /\ Paired \subseteq Targets
  /\ MaxDataFaults \in Nat

VARIABLES
  dataAt,      \* where each command is
  task,        \* its action, its target and the part it is about
  active,      \* the directories below runs/ and exports/
  archived,    \* the directories below archive/
  stage,       \* the command's hidden copy, and what the source was when inventoried
  entries,     \* archive/manifests: targets with an archive entry
  removals,    \* history: targets a delete command began to remove
  dataFaults   \* what is left of the bound

dataVars == <<dataAt, task, active, archived, stage, entries, removals, dataFaults>>

Parts(t) == IF t \in Paired THEN {"main", "companion"} ELSE {"main"}
AllParts == {"main", "companion"}
NoTask == [action |-> "none", target |-> "none", part |-> "main", withCompanion |-> FALSE]
NoStage == [copy |-> "absent", inventory |-> "absent"]

DataInit ==
  /\ dataAt = [p \in Managers |-> "idle"]
  /\ task = [p \in Managers |-> NoTask]
  /\ active = [t \in Targets |-> [a \in AllParts |-> IF a \in Parts(t) THEN "whole" ELSE "absent"]]
  /\ archived = [t \in Targets |-> [a \in AllParts |-> "absent"]]
  /\ stage = [p \in Managers |-> NoStage]
  /\ entries = {}
  /\ removals = {}
  /\ dataFaults = MaxDataFaults

DataAt(p, from, to) == dataAt[p] = from /\ dataAt' = [dataAt EXCEPT ![p] = to]
EndData(p, how) == dataAt' = [dataAt EXCEPT ![p] = how]
Here(p) == active[task[p].target][task[p].part]
There(p) == archived[task[p].target][task[p].part]
SetHere(p, d) == active' = [active EXCEPT ![task[p].target][task[p].part] = d]
SetThere(p, d) == archived' = [archived EXCEPT ![task[p].target][task[p].part] = d]

\* select: the target resolves, its state is finalized (its inventory can be
\* taken); for archive no destination exists, for delete the permissions hold.
Select(p, action, t) ==
  /\ dataAt[p] = "idle"
  /\ active[t]["main"] # "absent"
  /\ LET companion == active[t]["companion"] # "absent"
         free == /\ archived[t]["main"] = "absent"
                 /\ companion => archived[t]["companion"] = "absent"
     IN /\ task' = [task EXCEPT ![p] = [action |-> action, target |-> t, part |-> "main",
                                        withCompanion |-> companion]]
        /\ EndData(p, IF action = "delete" THEN "delete"
                      ELSE IF free THEN "check" ELSE "raised")
  /\ UNCHANGED <<active, archived, stage, entries, removals, dataFaults>>

\* The second look at the destination, in _archive_one.
CheckDestination(p) ==
  /\ dataAt[p] = "check"
  /\ LET free == /\ There(p) = "absent"
                 /\ task[p].withCompanion => archived[task[p].target]["companion"] = "absent"
     IN EndData(p, IF free THEN "move" ELSE "raised")
  /\ UNCHANGED <<task, active, archived, stage, entries, removals, dataFaults>>

\* After the main directory the companion, after both the archive entry.
NextPart(p) ==
  IF task[p].part = "main" /\ task[p].withCompanion
  THEN /\ task' = [task EXCEPT ![p].part = "companion"]
       /\ EndData(p, "move")
  ELSE EndData(p, "entry") /\ UNCHANGED task

\* os.replace on one filesystem.
MoveDirectory(p) ==
  /\ dataAt[p] = "move"
  /\ task[p].target \notin Remote
  /\ \/ /\ Here(p) # "absent" /\ There(p) = "absent"
        /\ SetThere(p, Here(p))
        /\ SetHere(p, "absent")
        /\ NextPart(p)
     \/ /\ Here(p) = "absent" \/ There(p) # "absent"
        /\ EndData(p, "raised")
        /\ UNCHANGED <<task, active, archived>>
  /\ UNCHANGED <<stage, entries, removals, dataFaults>>

\* EXDEV: inventory of the source with hashes.
InventorySource(p) ==
  /\ dataAt[p] = "move"
  /\ task[p].target \in Remote
  /\ EndData(p, IF Here(p) = "absent" THEN "raised" ELSE "copy")
  /\ stage' = [stage EXCEPT ![p] = [copy |-> "torn", inventory |-> Here(p)]]
  /\ UNCHANGED <<task, active, archived, entries, removals, dataFaults>>

\* copytree; a source that is being removed gives a torn copy or an error.
CopyToStage(p) ==
  /\ DataAt(p, "copy", "compare")
  /\ Here(p) # "absent"
  /\ stage' = [stage EXCEPT ![p].copy = Here(p)]
  /\ UNCHANGED <<task, active, archived, entries, removals, dataFaults>>

\* Two torn inventories may be equal or not.
CompareCopy(p) ==
  /\ DataAt(p, "compare", "publish")
  /\ stage[p].copy = stage[p].inventory
  /\ UNCHANGED <<task, active, archived, stage, entries, removals, dataFaults>>

\* Mutant: the rename replaces what is at the destination.
DestinationFreeAlways(p) == TRUE

DestinationFree(p) == There(p) = "absent"

PublishStage(p) ==
  /\ DataAt(p, "publish", "remove")
  /\ DestinationFree(p)
  /\ SetThere(p, stage[p].copy)
  /\ stage' = [stage EXCEPT ![p] = NoStage]
  /\ UNCHANGED <<task, active, entries, removals, dataFaults>>

\* A vanished source, unequal inventories, an occupied destination.
ArchiveRefuses(p) ==
  /\ \/ dataAt[p] = "copy" /\ Here(p) # "whole"
     \/ dataAt[p] = "compare" /\ (stage[p].copy = "torn" \/ stage[p].inventory = "torn")
     \/ dataAt[p] = "publish" /\ ~DestinationFree(p)
  /\ EndData(p, "raised")
  /\ stage' = [stage EXCEPT ![p] = NoStage]
  /\ UNCHANGED <<task, active, archived, entries, removals, dataFaults>>

\* shutil.rmtree of the copied source: first torn, then gone; a source that
\* another command removes at the same time may make it raise.
RemoveSource(p) ==
  /\ dataAt[p] \in {"remove", "removing"}
  /\ \/ /\ Here(p) # "absent"
        /\ SetHere(p, IF dataAt[p] = "remove" THEN "torn" ELSE "absent")
        /\ IF dataAt[p] = "remove" THEN EndData(p, "removing") /\ UNCHANGED task ELSE NextPart(p)
     \/ /\ Here(p) = "absent"
        /\ EndData(p, "raised")
        /\ UNCHANGED <<task, active>>
  /\ UNCHANGED <<archived, stage, entries, removals, dataFaults>>

WriteEntry(p) ==
  /\ DataAt(p, "entry", "done")
  /\ entries' = entries \union {task[p].target}
  /\ UNCHANGED <<task, active, archived, stage, removals, dataFaults>>

\* delete: rmtree of the directory, then of the companion.  rmtree walks open
\* directories, so it goes on in a directory that was moved to the archive.
DeleteDirectory(p) ==
  /\ dataAt[p] \in {"delete", "deleting"}
  /\ removals' = removals \union {task[p].target}
  /\ IF dataAt[p] = "delete"
     THEN /\ EndData(p, IF Here(p) = "absent" THEN "raised" ELSE "deleting")
          /\ IF Here(p) = "absent" THEN UNCHANGED active ELSE SetHere(p, "torn")
          /\ UNCHANGED <<task, archived>>
     ELSE /\ IF Here(p) = "absent"
             THEN /\ EndData(p, "raised")
                  /\ \/ There(p) # "absent" /\ SetThere(p, "torn")
                     \/ UNCHANGED archived
                  /\ UNCHANGED <<task, active>>
             ELSE /\ SetHere(p, "absent")
                  /\ UNCHANGED archived
                  /\ IF task[p].part = "main" /\ active[task[p].target]["companion"] # "absent"
                     THEN /\ task' = [task EXCEPT ![p].part = "companion"]
                          /\ EndData(p, "delete")
                     ELSE EndData(p, "done") /\ UNCHANGED task
  /\ UNCHANGED <<stage, entries, dataFaults>>

DataRaises(p) ==
  /\ dataFaults > 0
  /\ dataFaults' = dataFaults - 1
  /\ dataAt[p] \notin {"idle", "done", "raised", "dead"}
  /\ EndData(p, "raised")
  /\ stage' = [stage EXCEPT ![p] = NoStage]
  /\ UNCHANGED <<task, active, archived, entries, removals>>

\* A killed command leaves its stage behind under a name of its own.
KillManager(p) ==
  /\ dataFaults > 0
  /\ dataFaults' = dataFaults - 1
  /\ dataAt[p] \notin {"idle", "done", "raised", "dead"}
  /\ EndData(p, "dead")
  /\ UNCHANGED <<task, active, archived, stage, entries, removals>>

DataStep(p) ==
  \/ CheckDestination(p) \/ MoveDirectory(p) \/ InventorySource(p) \/ CopyToStage(p)
  \/ CompareCopy(p) \/ PublishStage(p) \/ ArchiveRefuses(p) \/ RemoveSource(p)
  \/ WriteEntry(p) \/ DeleteDirectory(p)

DataNext ==
  \E p \in Managers :
    \/ \E t \in Targets, action \in {"archive", "delete"} : Select(p, action, t)
    \/ DataStep(p) \/ DataRaises(p) \/ KillManager(p)

DataSpec == DataInit /\ [][DataNext]_dataVars

-----------------------------------------------------------------------------
(* Properties.                                                             *)

\* Archiving never loses data: every part of a target nobody asked to delete
\* is whole in the active tree or in the archive, whatever raised, died or
\* raced, and a torn source only stands next to a whole archived copy.
ArchivingLosesNothing ==
  \A t \in Targets \ removals : \A a \in Parts(t) :
    "whole" \in {active[t][a], archived[t][a]}

\* An archive entry says that every part of its target was moved: nothing is
\* left in the active tree, and what the archive holds is whole.
EntriesAreComplete ==
  \A t \in entries \ removals : \A a \in Parts(t) :
    active[t][a] = "absent" /\ archived[t][a] = "whole"

\* archive and delete under failures, kills and each other (data_management.py).
ArchivingIsSafe == ArchivingLosesNothing /\ EntriesAreComplete
=============================================================================
