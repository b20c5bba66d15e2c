----------------------------- MODULE Storage_proofs -----------------------------
(***************************************************************************)
(* Theorems about the components that keep their state in directories and  *)
(* are worked on by any number of commands: the archive (DataManagement),  *)
(* the references of runs and artifacts (DataCatalog), managed checkpoint  *)
(* snapshots (CheckpointResolver), derived reports (DerivedReports) and    *)
(* exports (DerivedExports).  The components share no variable; each has a *)
(* part of its own below.                                                  *)
(***************************************************************************)
EXTENDS DataManagement, DataCatalog, CheckpointResolver, DerivedReports, DerivedExports,
        FiniteSetTheorems, TLAPS

-----------------------------------------------------------------------------
(* Archive and delete commands, for every number of commands, targets and    *)
(* faults.                                                                   *)

Contents == {"absent", "whole", "torn"}
Archiving == {"check", "move", "copy", "compare", "publish", "remove", "removing", "entry"}
DataLabels == Archiving \union {"idle", "delete", "deleting", "done", "raised", "dead"}
Tasks == [action : {"none", "archive", "delete"}, target : Targets \union {"none"},
          part : AllParts, withCompanion : BOOLEAN]
Stages == [copy : Contents, inventory : Contents]
Trees == [Targets -> [AllParts -> Contents]]

DataTypeOK ==
  /\ dataAt \in [Managers -> DataLabels]
  /\ task \in [Managers -> Tasks]
  /\ \A p \in Managers : dataAt[p] # "idle" => task[p].target \in Targets
  /\ active \in Trees /\ archived \in Trees
  /\ stage \in [Managers -> Stages]
  /\ entries \subseteq Targets

Unpaired == \A t \in Targets \ Paired : active[t]["companion"] = "absent"

Settled(t, a) == active[t][a] = "absent" /\ archived[t][a] = "whole"

\* What an archiving command may rely on unless a delete command meddles: parts
\* it is through with are settled, its copy is whole or somebody archived a whole
\* one before, and it removes a source only after that.
Knows(p) ==
  dataAt[p] \in Archiving /\ task[p].target \notin removals =>
    /\ task[p].withCompanion => task[p].target \in Paired
    /\ ~task[p].withCompanion => active[task[p].target]["companion"] = "absent"
    /\ task[p].part = "companion" => task[p].withCompanion /\ Settled(task[p].target, "main")
    /\ dataAt[p] \in {"compare", "publish"} => stage[p].copy = "whole" \/ There(p) = "whole"
    /\ dataAt[p] \in {"remove", "removing"} => There(p) = "whole"
    /\ dataAt[p] = "entry" =>
         /\ Settled(task[p].target, task[p].part)
         /\ task[p].withCompanion => task[p].part = "companion"

DataInv == DataTypeOK /\ Unpaired /\ ArchivingIsSafe /\ \A p \in Managers : Knows(p)

LEMMA DataInvInitially == DataInit => DataInv
<1> SUFFICES ASSUME DataInit PROVE DataInv
  OBVIOUS
<1>1. DataTypeOK
  BY DEF DataInit, DataTypeOK, DataLabels, Archiving, Tasks, Stages, Trees, Contents, NoTask, NoStage,
         AllParts
<1>2. Unpaired /\ ArchivingIsSafe
  BY DEF DataInit, Unpaired, ArchivingIsSafe, ArchivingLosesNothing, EntriesAreComplete, Parts,
         AllParts
<1>3. \A p \in Managers : Knows(p)
  BY DEF DataInit, Knows, Archiving
<1> QED BY <1>1, <1>2, <1>3 DEF DataInv

(* What is gone stays gone, and of a target that nobody deletes what is      *)
(* archived whole stays whole.                                               *)
WorldGrows ==
  /\ removals \subseteq removals'
  /\ \A t \in Targets, a \in AllParts :
       /\ active[t][a] = "absent" => active'[t][a] = "absent"
       /\ archived[t][a] = "whole" /\ t \notin removals' => archived'[t][a] = "whole"

OnlyItself(p) ==
  \A q \in Managers \ {p} :
    dataAt'[q] = dataAt[q] /\ task'[q] = task[q] /\ stage'[q] = stage[q]

LEMMA PartsAreParts == \A t : "main" \in Parts(t) /\ Parts(t) \subseteq AllParts
BY DEF Parts, AllParts

(* What a command knows of a target survives while the world grows.          *)
LEMMA KnowledgeLasts ==
  ASSUME DataInv, NEW q \in Managers, WorldGrows,
         dataAt'[q] = dataAt[q], task'[q] = task[q], stage'[q] = stage[q]
  PROVE  Knows(q)'
<1> SUFFICES ASSUME dataAt[q] \in Archiving, task[q].target \notin removals'
             PROVE  Knows(q)'
  BY DEF Knows
<1>1. task[q].target \in Targets \ removals /\ task[q].part \in AllParts
  BY DEF DataInv, DataTypeOK, Archiving, Tasks, WorldGrows
<1>2. Knows(q)
  BY DEF DataInv
<1> QED BY <1>1, <1>2 DEF Knows, Settled, There, WorldGrows, AllParts

(* A step of one command that lets the world grow: of the others and of the  *)
(* archive entries nothing has to be shown.                                  *)
LEMMA StepKeeps ==
  ASSUME DataInv, NEW p \in Managers, DataTypeOK', OnlyItself(p), WorldGrows, Knows(p)',
         ArchivingLosesNothing', entries' = entries
  PROVE  DataInv'
<1>1. Unpaired'
  BY DEF DataInv, Unpaired, WorldGrows, AllParts
<1>2. EntriesAreComplete'
  <2> SUFFICES ASSUME NEW t \in entries \ removals', NEW a \in Parts(t)
               PROVE  active'[t][a] = "absent" /\ archived'[t][a] = "whole"
    BY DEF EntriesAreComplete
  <2>1. CASE t \in Targets
    BY <2>1, PartsAreParts DEF WorldGrows, DataInv, ArchivingIsSafe, EntriesAreComplete
  <2> QED BY <2>1 DEF DataInv, DataTypeOK
<1>3. \A q \in Managers \ {p} : Knows(q)'
  BY KnowledgeLasts DEF OnlyItself
<1> QED BY <1>1, <1>2, <1>3 DEF DataInv, ArchivingIsSafe

(* A step that leaves targets and archive alone.                             *)
LEMMA QuietStepKeeps ==
  ASSUME DataInv, NEW p \in Managers, DataTypeOK', OnlyItself(p), Knows(p)',
         UNCHANGED <<active, archived, entries, removals>>
  PROVE  DataInv'
<1>1. WorldGrows
  BY DEF WorldGrows
<1>2. ArchivingLosesNothing'
  BY DEF DataInv, ArchivingIsSafe, ArchivingLosesNothing
<1> QED BY <1>1, <1>2, StepKeeps

LEMMA SelectKeeps ==
  ASSUME DataInv, NEW p \in Managers, NEW t \in Targets, NEW action \in {"archive", "delete"},
         Select(p, action, t)
  PROVE  DataInv'
<1> DEFINE companion == active[t]["companion"] # "absent"
           chosen == [action |-> action, target |-> t, part |-> "main", withCompanion |-> companion]
<1>1. PICK to \in {"delete", "check", "raised"} :
        /\ dataAt' = [dataAt EXCEPT ![p] = to] /\ task' = [task EXCEPT ![p] = chosen]
        /\ UNCHANGED <<active, archived, stage, entries, removals>>
  BY DEF Select, EndData
<1>2. chosen \in Tasks
  BY DEF Tasks, AllParts
<1>3. /\ DataTypeOK' /\ OnlyItself(p)
      /\ dataAt'[p] = to /\ task'[p] = chosen
  <2> HIDE DEF chosen
  <2>1. chosen.target \in Targets
    BY DEF chosen
  <2> QED BY <1>1, <1>2, <2>1 DEF DataInv, DataTypeOK, OnlyItself, DataLabels, Archiving
<1>4. companion => t \in Paired
  BY DEF DataInv, Unpaired
<1>5. /\ task'[p].target = t /\ task'[p].part = "main"
      /\ task'[p].withCompanion <=> companion
  <2>1. companion \in BOOLEAN
    OBVIOUS
  <2> HIDE DEF companion
  <2>2. chosen.target = t /\ chosen.part = "main" /\ chosen.withCompanion = companion
    OBVIOUS
  <2> HIDE DEF chosen
  <2> QED BY <1>3, <2>1, <2>2
<1>6. active'[t]["companion"] = "absent" <=> ~companion
  BY <1>1
<1>7. Knows(p)'
  <2> HIDE DEF companion, chosen
  <2> QED BY <1>1, <1>3, <1>4, <1>5, <1>6 DEF Knows, Archiving
<1> QED BY <1>1, <1>3, <1>7, QuietStepKeeps

(* A step that changes where a command is and perhaps its stage.             *)
LEMMA GoingOn ==
  ASSUME DataInv, NEW p \in Managers, dataAt[p] # "idle",
         NEW to \in DataLabels, dataAt' = [dataAt EXCEPT ![p] = to],
         NEW made \in Stages, stage' = [stage EXCEPT ![p] = made],
         task' = task
  PROVE  /\ dataAt'[p] = to /\ stage'[p] = made
         /\ OnlyItself(p)
         /\ active' = active /\ archived' = archived /\ entries' = entries => DataTypeOK'
BY DEF DataInv, DataTypeOK, OnlyItself

LEMMA PreparingKeeps ==
  ASSUME DataInv, NEW p \in Managers,
         \/ CheckDestination(p) \/ InventorySource(p) \/ CopyToStage(p) \/ CompareCopy(p)
         \/ ArchiveRefuses(p) \/ DataRaises(p) \/ KillManager(p)
  PROVE  DataInv'
<1> DEFINE t == task[p].target
           a == task[p].part
<1>1. UNCHANGED <<task, active, archived, entries, removals>>
  BY DEF CheckDestination, InventorySource, CopyToStage, CompareCopy, ArchiveRefuses, DataRaises,
         KillManager
<1>2. stage[p] \in Stages /\ NoStage \in Stages
  BY DEF DataInv, DataTypeOK, NoStage, Stages, Contents
<1>3. dataAt[p] # "idle" => Here(p) \in Contents /\ There(p) \in Contents
  BY DEF DataInv, DataTypeOK, Here, There, Trees, Tasks
<1>4. PICK to \in DataLabels, made \in Stages :
        /\ dataAt[p] # "idle"
        /\ dataAt' = [dataAt EXCEPT ![p] = to] /\ stage' = [stage EXCEPT ![p] = made]
        /\ \/ to \in {"raised", "dead"}
           \/ dataAt[p] \in Archiving /\ to \in {"move", "copy"} /\ dataAt[p] \in {"check", "move"}
           \/ dataAt[p] = "copy" /\ to = "compare" /\ Here(p) # "absent" /\ made.copy = Here(p)
           \/ dataAt[p] = "compare" /\ to = "publish" /\ made.copy = stage[p].copy
  <2>1. stage = [stage EXCEPT ![p] = stage[p]]
    BY DEF DataInv, DataTypeOK
  <2>2. CASE CheckDestination(p)
    BY <1>2, <2>1, <2>2 DEF CheckDestination, EndData, DataLabels, Archiving
  <2>3. CASE InventorySource(p)
    <3>1. [copy |-> "torn", inventory |-> Here(p)] \in Stages
      BY <1>3, <2>3 DEF InventorySource, Stages, Contents
    <3> QED BY <2>3, <3>1 DEF InventorySource, EndData, DataLabels, Archiving
  <2>4. CASE CopyToStage(p)
    <3>1. stage' = [stage EXCEPT ![p] = [stage[p] EXCEPT !.copy = Here(p)]]
      BY <2>4 DEF CopyToStage
    <3>2. /\ [stage[p] EXCEPT !.copy = Here(p)] \in Stages
          /\ [stage[p] EXCEPT !.copy = Here(p)].copy = Here(p)
      BY <1>2, <1>3, <2>4 DEF CopyToStage, DataAt, Stages
    <3> QED BY <2>4, <3>1, <3>2 DEF CopyToStage, DataAt, DataLabels, Archiving
  <2>5. CASE CompareCopy(p)
    BY <1>2, <2>1, <2>5 DEF CompareCopy, DataAt, DataLabels, Archiving
  <2>6. CASE ArchiveRefuses(p) \/ DataRaises(p)
    BY <1>2, <2>6 DEF ArchiveRefuses, DataRaises, EndData, DataLabels, Archiving
  <2>7. CASE KillManager(p)
    BY <1>2, <2>1, <2>7 DEF KillManager, EndData, DataLabels, Archiving
  <2> QED BY <2>2, <2>3, <2>4, <2>5, <2>6, <2>7
<1>5. /\ dataAt'[p] = to /\ stage'[p] = made /\ OnlyItself(p) /\ DataTypeOK'
  BY <1>1, <1>4, GoingOn
<1>6. Knows(p)'
  <2> SUFFICES ASSUME to \in Archiving, t \notin removals PROVE Knows(p)'
    BY <1>1, <1>5 DEF Knows
  <2>1. dataAt[p] \in {"check", "move", "copy", "compare"} /\ to \in {"move", "copy", "compare", "publish"}
    BY <1>4 DEF Archiving
  <2>2. Knows(p) /\ dataAt[p] \in Archiving
    BY <2>1 DEF DataInv, Archiving
  <2>3. to \in {"compare", "publish"} => made.copy = "whole" \/ There(p) = "whole"
    <3>1. CASE to = "compare"
      <4>1. Here(p) # "absent" /\ made.copy = Here(p)
        BY <1>4, <3>1
      <4>2. a \in Parts(t) /\ t \in Targets
        BY <1>4, <2>2 DEF Knows, Parts, AllParts, DataInv, DataTypeOK, Tasks
      <4>3. "whole" \in {Here(p), There(p)}
        BY <4>2 DEF DataInv, ArchivingIsSafe, ArchivingLosesNothing, Here, There
      <4> QED BY <4>1, <4>3
    <3>2. CASE to = "publish"
      BY <1>4, <2>2, <3>2 DEF Knows
    <3> QED BY <3>1, <3>2
  <2> QED BY <1>1, <1>5, <2>1, <2>2, <2>3 DEF Knows, Settled, There
<1> QED BY <1>1, <1>5, <1>6, QuietStepKeeps

(* What NextPart makes of a command that is through with a part.             *)
LEMMA NextPartGoesOn ==
  ASSUME DataInv, NEW p \in Managers, dataAt[p] \in Archiving, NextPart(p), stage' = stage
  PROVE  /\ \/ /\ task[p].part = "main" /\ task[p].withCompanion
               /\ task'[p].part = "companion" /\ dataAt'[p] = "move"
            \/ /\ ~(task[p].part = "main" /\ task[p].withCompanion)
               /\ task'[p].part = task[p].part /\ dataAt'[p] = "entry"
         /\ task'[p].target = task[p].target
         /\ task'[p].withCompanion <=> task[p].withCompanion
         /\ task' \in [Managers -> Tasks] /\ dataAt' \in [Managers -> DataLabels]
         /\ OnlyItself(p)
<1>1. task[p] \in Tasks /\ dataAt \in [Managers -> DataLabels] /\ task \in [Managers -> Tasks]
  BY DEF DataInv, DataTypeOK
<1>2. CASE task[p].part = "main" /\ task[p].withCompanion
  <2>1. /\ task' = [task EXCEPT ![p] = [task[p] EXCEPT !.part = "companion"]]
        /\ dataAt' = [dataAt EXCEPT ![p] = "move"]
    BY <1>2 DEF NextPart, EndData
  <2>2. /\ [task[p] EXCEPT !.part = "companion"] \in Tasks
        /\ [task[p] EXCEPT !.part = "companion"].part = "companion"
        /\ [task[p] EXCEPT !.part = "companion"].target = task[p].target
        /\ [task[p] EXCEPT !.part = "companion"].withCompanion = task[p].withCompanion
    BY <1>1 DEF Tasks, AllParts
  <2> QED BY <1>1, <1>2, <2>1, <2>2 DEF OnlyItself, DataLabels, Archiving
<1>3. CASE ~(task[p].part = "main" /\ task[p].withCompanion)
  <2>1. dataAt' = [dataAt EXCEPT ![p] = "entry"] /\ task' = task
    BY <1>3 DEF NextPart, EndData
  <2> QED BY <1>1, <1>3, <2>1 DEF OnlyItself, DataLabels, Archiving
<1> QED BY <1>2, <1>3

(* A command that settled a part knows what it needs for the next one or for *)
(* the archive entry.                                                        *)
LEMMA NextPartKnows ==
  ASSUME DataInv, NEW p \in Managers, dataAt[p] \in Archiving, NextPart(p), stage' = stage,
         WorldGrows,
         task[p].target \notin removals' =>
           /\ active'[task[p].target][task[p].part] = "absent"
           /\ archived'[task[p].target][task[p].part] = "whole"
  PROVE  Knows(p)'
<1> SUFFICES ASSUME task'[p].target \notin removals' PROVE Knows(p)'
  BY DEF Knows
<1>1. task[p].target \in Targets \ removals /\ task[p].part \in AllParts
  BY NextPartGoesOn DEF DataInv, DataTypeOK, Archiving, Tasks, WorldGrows
<1>2. Knows(p)
  BY DEF DataInv
<1>3. /\ active'[task[p].target][task[p].part] = "absent"
      /\ archived'[task[p].target][task[p].part] = "whole"
  BY NextPartGoesOn
<1>4. CASE task[p].part = "main" /\ task[p].withCompanion
  BY <1>1, <1>2, <1>3, <1>4, NextPartGoesOn DEF Knows, Settled, WorldGrows, AllParts
<1>5. CASE ~(task[p].part = "main" /\ task[p].withCompanion)
  BY <1>1, <1>2, <1>3, <1>5, NextPartGoesOn DEF Knows, Settled, WorldGrows, AllParts
<1> QED BY <1>4, <1>5

LEMMA MoveKeeps ==
  ASSUME DataInv, NEW p \in Managers, MoveDirectory(p)
  PROVE  DataInv'
<1> DEFINE t == task[p].target
           a == task[p].part
<1>1. /\ dataAt[p] = "move" /\ UNCHANGED <<stage, entries, removals>>
      /\ t \in Targets /\ a \in AllParts /\ active \in Trees /\ archived \in Trees
      /\ dataAt[p] \in Archiving
  BY DEF MoveDirectory, DataInv, DataTypeOK, Tasks, Archiving
<1>2. Here(p) = active[t][a] /\ There(p) = archived[t][a]
  BY DEF Here, There
<1>3. CASE Here(p) # "absent" /\ There(p) = "absent"
  <2>1. /\ archived' = [archived EXCEPT ![t][a] = Here(p)]
        /\ active' = [active EXCEPT ![t][a] = "absent"]
        /\ NextPart(p)
    BY <1>3 DEF MoveDirectory, SetHere, SetThere
  <2>2. Here(p) \in Contents /\ "absent" \in Contents
    BY <1>1, <1>2 DEF Trees, Contents
  <2>3. /\ active' \in Trees /\ active'[t][a] = "absent"
        /\ \A u \in Targets, b \in AllParts : u # t \/ b # a => active'[u][b] = active[u][b]
    BY <1>1, <2>1, <2>2 DEF Trees
  <2>4. /\ archived' \in Trees /\ archived'[t][a] = active[t][a]
        /\ \A u \in Targets, b \in AllParts : u # t \/ b # a => archived'[u][b] = archived[u][b]
    BY <1>1, <1>2, <2>1, <2>2 DEF Trees
  <2>5. WorldGrows
    BY <1>1, <1>2, <1>3, <2>3, <2>4 DEF WorldGrows
  <2>6. t \notin removals => active[t][a] = "whole"
    <3>1. t \notin removals => a \in Parts(t)
      BY <1>1 DEF DataInv, Knows, Parts, AllParts
    <3> QED BY <1>1, <1>2, <1>3, <3>1 DEF DataInv, ArchivingIsSafe, ArchivingLosesNothing
  <2>7. Knows(p)'
    BY <1>1, <2>1, <2>3, <2>4, <2>5, <2>6, NextPartKnows
  <2>8. ArchivingLosesNothing'
    <3> SUFFICES ASSUME NEW u \in Targets \ removals, NEW b \in Parts(u)
                 PROVE  "whole" \in {active'[u][b], archived'[u][b]}
      BY <1>1 DEF ArchivingLosesNothing
    <3>1. b \in AllParts /\ "whole" \in {active[u][b], archived[u][b]}
      BY PartsAreParts DEF DataInv, ArchivingIsSafe, ArchivingLosesNothing
    <3>2. CASE u = t /\ b = a
      BY <2>4, <2>6, <3>2
    <3>3. CASE u # t \/ b # a
      BY <2>3, <2>4, <3>1, <3>3
    <3> QED BY <3>2, <3>3
  <2>9. DataTypeOK' /\ OnlyItself(p)
    BY <1>1, <2>1, <2>3, <2>4, NextPartGoesOn DEF DataInv, DataTypeOK, OnlyItself
  <2> QED BY <1>1, <2>5, <2>7, <2>8, <2>9, StepKeeps
<1>4. CASE ~(Here(p) # "absent" /\ There(p) = "absent")
  <2>1. dataAt' = [dataAt EXCEPT ![p] = "raised"] /\ UNCHANGED <<task, active, archived>>
    BY <1>4 DEF MoveDirectory, EndData
  <2>2. DataTypeOK' /\ OnlyItself(p) /\ dataAt'[p] = "raised"
    BY <1>1, <2>1 DEF DataInv, DataTypeOK, OnlyItself, DataLabels
  <2>3. Knows(p)'
    BY <2>2 DEF Knows, Archiving
  <2> QED BY <1>1, <2>1, <2>2, <2>3, QuietStepKeeps
<1> QED BY <1>3, <1>4

LEMMA PublishKeeps ==
  ASSUME DataInv, NEW p \in Managers, PublishStage(p)
  PROVE  DataInv'
<1> DEFINE t == task[p].target
           a == task[p].part
<1>1. /\ dataAt[p] = "publish" /\ dataAt' = [dataAt EXCEPT ![p] = "remove"]
      /\ archived[t][a] = "absent" /\ archived' = [archived EXCEPT ![t][a] = stage[p].copy]
      /\ stage' = [stage EXCEPT ![p] = NoStage]
      /\ UNCHANGED <<task, active, entries, removals>>
  BY DEF PublishStage, DataAt, DestinationFree, There, SetThere
<1>2. /\ t \in Targets /\ a \in AllParts /\ archived \in Trees /\ stage[p].copy \in Contents
      /\ NoStage \in Stages /\ dataAt[p] \in Archiving
  BY <1>1 DEF DataInv, DataTypeOK, Tasks, Stages, NoStage, Contents, Archiving
<1>3. /\ archived' \in Trees /\ archived'[t][a] = stage[p].copy
      /\ \A u \in Targets, b \in AllParts : u # t \/ b # a => archived'[u][b] = archived[u][b]
  BY <1>1, <1>2 DEF Trees
<1>4. t \notin removals => stage[p].copy = "whole"
  BY <1>1, <1>2 DEF DataInv, Knows, There
<1>5. WorldGrows
  BY <1>1, <1>3 DEF WorldGrows
<1>6. ArchivingLosesNothing'
  <2> SUFFICES ASSUME NEW u \in Targets \ removals, NEW b \in Parts(u)
               PROVE  "whole" \in {active'[u][b], archived'[u][b]}
    BY <1>1 DEF ArchivingLosesNothing
  <2>1. b \in AllParts /\ "whole" \in {active[u][b], archived[u][b]}
    BY PartsAreParts DEF DataInv, ArchivingIsSafe, ArchivingLosesNothing
  <2> QED BY <1>1, <1>3, <1>4, <2>1
<1>7. DataTypeOK' /\ OnlyItself(p) /\ dataAt'[p] = "remove"
  BY <1>1, <1>2, <1>3 DEF DataInv, DataTypeOK, OnlyItself, DataLabels, Archiving
<1>8. Knows(p)'
  BY SMTT(30), <1>1, <1>2, <1>3, <1>4, <1>5, <1>7 DEF DataInv, Knows, Settled, There, WorldGrows, AllParts
<1> QED BY <1>1, <1>5, <1>6, <1>7, <1>8, StepKeeps

LEMMA RemoveKeeps ==
  ASSUME DataInv, NEW p \in Managers, RemoveSource(p)
  PROVE  DataInv'
<1> DEFINE t == task[p].target
           a == task[p].part
<1>1. /\ dataAt[p] \in {"remove", "removing"} /\ UNCHANGED <<archived, stage, entries, removals>>
      /\ t \in Targets /\ a \in AllParts /\ active \in Trees /\ archived \in Trees
      /\ dataAt[p] \in Archiving
  BY DEF RemoveSource, DataInv, DataTypeOK, Tasks, Archiving
<1>2. t \notin removals => archived[t][a] = "whole" /\ a \in Parts(t)
  BY <1>1 DEF DataInv, Knows, There, Parts, AllParts
<1>3. CASE active[t][a] # "absent"
  <2>1. PICK d \in {"torn", "absent"} :
          /\ active' = [active EXCEPT ![t][a] = d]
          /\ \/ d = "torn" /\ dataAt' = [dataAt EXCEPT ![p] = "removing"] /\ UNCHANGED task
             \/ d = "absent" /\ NextPart(p)
    BY <1>1, <1>3 DEF RemoveSource, Here, SetHere, EndData
  <2>2. /\ active' \in Trees /\ active'[t][a] = d
        /\ \A u \in Targets, b \in AllParts : u # t \/ b # a => active'[u][b] = active[u][b]
    BY <1>1, <2>1 DEF Trees, Contents
  <2>3. WorldGrows
    BY <1>1, <1>3, <2>2 DEF WorldGrows
  <2>4. ArchivingLosesNothing'
    <3> SUFFICES ASSUME NEW u \in Targets \ removals, NEW b \in Parts(u)
                 PROVE  "whole" \in {active'[u][b], archived'[u][b]}
      BY <1>1 DEF ArchivingLosesNothing
    <3>1. b \in AllParts /\ "whole" \in {active[u][b], archived[u][b]}
      BY PartsAreParts DEF DataInv, ArchivingIsSafe, ArchivingLosesNothing
    <3> QED BY <1>1, <1>2, <2>2, <3>1
  <2>5. CASE d = "torn"
    <3>1. DataTypeOK' /\ OnlyItself(p) /\ dataAt'[p] = "removing"
      BY <1>1, <2>1, <2>2, <2>5 DEF DataInv, DataTypeOK, OnlyItself, DataLabels, Archiving
    <3>2. Knows(p)'
      BY <1>1, <1>2, <2>1, <2>2, <2>3, <2>5, <3>1
      DEF DataInv, Knows, Settled, There, WorldGrows, AllParts
    <3> QED BY <1>1, <2>3, <2>4, <3>1, <3>2, StepKeeps
  <2>6. CASE d = "absent"
    <3>1. NextPart(p)
      BY <2>1, <2>6
    <3>2. DataTypeOK' /\ OnlyItself(p)
      BY <1>1, <2>2, <3>1, NextPartGoesOn DEF DataInv, DataTypeOK, OnlyItself
    <3>3. Knows(p)'
      BY <1>1, <1>2, <2>2, <2>3, <2>6, <3>1, NextPartKnows
    <3> QED BY <1>1, <2>3, <2>4, <3>2, <3>3, StepKeeps
  <2> QED BY <2>5, <2>6
<1>4. CASE active[t][a] = "absent"
  <2>1. dataAt' = [dataAt EXCEPT ![p] = "raised"] /\ UNCHANGED <<task, active>>
    BY <1>4 DEF RemoveSource, EndData, Here
  <2>2. DataTypeOK' /\ OnlyItself(p) /\ dataAt'[p] = "raised"
    BY <1>1, <2>1 DEF DataInv, DataTypeOK, OnlyItself, DataLabels
  <2>3. Knows(p)'
    BY <2>2 DEF Knows, Archiving
  <2> QED BY <1>1, <2>1, <2>2, <2>3, QuietStepKeeps
<1> QED BY <1>3, <1>4

LEMMA EntryKeeps ==
  ASSUME DataInv, NEW p \in Managers, WriteEntry(p)
  PROVE  DataInv'
<1> DEFINE t == task[p].target
<1>1. /\ dataAt[p] = "entry" /\ dataAt' = [dataAt EXCEPT ![p] = "done"]
      /\ entries' = entries \union {t}
      /\ UNCHANGED <<task, active, archived, stage, removals>>
  BY DEF WriteEntry, DataAt
<1>2. DataTypeOK' /\ OnlyItself(p) /\ dataAt'[p] = "done"
  BY <1>1 DEF DataInv, DataTypeOK, OnlyItself, DataLabels
<1>3. WorldGrows /\ Unpaired' /\ ArchivingLosesNothing'
  BY <1>1 DEF WorldGrows, DataInv, Unpaired, ArchivingIsSafe, ArchivingLosesNothing
<1>4. \A q \in Managers : Knows(q)'
  <2>1. Knows(p)'
    BY <1>2 DEF Knows, Archiving
  <2> QED BY <1>2, <1>3, <2>1, KnowledgeLasts DEF OnlyItself
<1>5. ASSUME t \notin removals, NEW a \in Parts(t)
      PROVE  active[t][a] = "absent" /\ archived[t][a] = "whole"
  <2>1. /\ t \in Targets /\ dataAt[p] \in Archiving /\ Knows(p) /\ task[p].part \in AllParts
    BY <1>1 DEF DataInv, DataTypeOK, Archiving, Tasks
  <2>2. CASE a = task[p].part
    BY <1>1, <1>5, <2>1, <2>2 DEF Knows, Settled
  <2>3. CASE a # task[p].part /\ a = "main"
    BY <1>1, <1>5, <2>1, <2>3 DEF Knows, Settled, AllParts
  <2>4. CASE a # task[p].part /\ a = "companion"
    <3>1. active[t]["companion"] = "absent"
      BY <1>1, <1>5, <2>1, <2>4 DEF Knows
    <3> QED BY <1>5, <2>1, <2>4, <3>1 DEF DataInv, ArchivingIsSafe, ArchivingLosesNothing
  <2> QED BY <2>2, <2>3, <2>4, PartsAreParts DEF AllParts
<1>6. EntriesAreComplete'
  BY <1>1, <1>5 DEF DataInv, ArchivingIsSafe, EntriesAreComplete
<1> QED BY <1>2, <1>3, <1>4, <1>6 DEF DataInv, ArchivingIsSafe

(* Whatever a delete command touches belongs to a target it put into         *)
(* `removals`, and about those nothing is claimed.                           *)
LEMMA DeleteKeeps ==
  ASSUME DataInv, NEW p \in Managers, DeleteDirectory(p)
  PROVE  DataInv'
<1> DEFINE t == task[p].target
           a == task[p].part
<1>1. /\ dataAt[p] \in {"delete", "deleting"} /\ removals' = removals \union {t}
      /\ UNCHANGED <<stage, entries>>
      /\ t \in Targets /\ a \in AllParts /\ active \in Trees /\ archived \in Trees
      /\ task[p] \in Tasks /\ task \in [Managers -> Tasks] /\ dataAt \in [Managers -> DataLabels]
  BY DEF DeleteDirectory, DataInv, DataTypeOK, Tasks
<1>2. PICK to \in {"raised", "deleting", "delete", "done"} : dataAt' = [dataAt EXCEPT ![p] = to]
  BY DEF DeleteDirectory, EndData
<1>3. task' = task \/ task' = [task EXCEPT ![p] = [task[p] EXCEPT !.part = "companion"]]
  BY DEF DeleteDirectory
<1>4. [task[p] EXCEPT !.part = "companion"] \in Tasks
      /\ [task[p] EXCEPT !.part = "companion"].target = t
  BY <1>1 DEF Tasks, AllParts
<1>5. \/ active' = active
      \/ active[t][a] # "absent" /\ active' = [active EXCEPT ![t][a] = "torn"]
      \/ active[t][a] # "absent" /\ active' = [active EXCEPT ![t][a] = "absent"]
  BY DEF DeleteDirectory, Here, SetHere
<1>6. archived' = archived \/ archived' = [archived EXCEPT ![t][a] = "torn"]
  BY DEF DeleteDirectory, SetThere
<1>7. /\ active' \in Trees
      /\ \A u \in Targets, b \in AllParts : active[u][b] = "absent" => active'[u][b] = "absent"
      /\ \A u \in Targets \ {t}, b \in AllParts : active'[u][b] = active[u][b]
  <2>1. "torn" \in Contents /\ "absent" \in Contents
    BY DEF Contents
  <2> HIDE DEF t, a
  <2>2. CASE active' = active
    BY <1>1, <2>2
  <2>3. CASE active[t][a] # "absent" /\ active' = [active EXCEPT ![t][a] = "torn"]
    <3>1. active \in Trees /\ t \in Targets /\ a \in AllParts
      BY <1>1
    <3>2. active' \in Trees
      BY <2>1, <2>3, <3>1 DEF Trees
    <3>3. \A u \in Targets, b \in AllParts :
            active'[u][b] = IF u = t /\ b = a THEN "torn" ELSE active[u][b]
      BY <2>3, <3>1 DEF Trees
    <3> QED BY <2>3, <3>2, <3>3
  <2>4. CASE active[t][a] # "absent" /\ active' = [active EXCEPT ![t][a] = "absent"]
    <3>1. active \in Trees /\ t \in Targets /\ a \in AllParts
      BY <1>1
    <3>2. active' \in Trees
      BY <2>1, <2>4, <3>1 DEF Trees
    <3>3. \A u \in Targets, b \in AllParts :
            active'[u][b] = IF u = t /\ b = a THEN "absent" ELSE active[u][b]
      BY <2>4, <3>1 DEF Trees
    <3> QED BY <2>4, <3>2, <3>3
  <2> QED BY <1>5, <2>2, <2>3, <2>4 DEF t, a
<1>8. /\ archived' \in Trees
       /\ \A u \in Targets \ {t}, b \in AllParts : archived'[u][b] = archived[u][b]
  <2>1. "torn" \in Contents
    BY DEF Contents
  <2> HIDE DEF t, a
  <2>2. CASE archived' = archived
    BY <1>1, <2>2
  <2>3. CASE archived' = [archived EXCEPT ![t][a] = "torn"]
    <3>1. archived \in Trees /\ t \in Targets /\ a \in AllParts
      BY <1>1
    <3>2. archived' \in Trees
      BY <2>1, <2>3, <3>1 DEF Trees
    <3>3. \A u \in Targets, b \in AllParts :
            archived'[u][b] = IF u = t /\ b = a THEN "torn" ELSE archived[u][b]
      BY <2>3, <3>1 DEF Trees
    <3> QED BY <3>2, <3>3
  <2> QED BY <1>6, <2>2, <2>3 DEF t, a
<1>9. WorldGrows
  BY <1>1, <1>7, <1>8 DEF WorldGrows
<1>10. ArchivingLosesNothing'
  BY <1>1, <1>7, <1>8, PartsAreParts DEF DataInv, ArchivingIsSafe, ArchivingLosesNothing
<1>11. DataTypeOK' /\ OnlyItself(p) /\ dataAt'[p] = to
  BY <1>1, <1>2, <1>3, <1>4, <1>7, <1>8 DEF DataInv, DataTypeOK, OnlyItself, DataLabels
<1>12. Knows(p)'
  BY <1>11 DEF Knows, Archiving
<1> QED BY <1>1, <1>9, <1>10, <1>11, <1>12, StepKeeps

LEMMA DataInvKept == DataInv /\ [DataNext]_dataVars => DataInv'
<1> SUFFICES ASSUME DataInv, [DataNext]_dataVars PROVE DataInv'
  OBVIOUS
<1>1. CASE UNCHANGED dataVars
  BY <1>1
  DEF dataVars, DataInv, DataTypeOK, Unpaired, ArchivingIsSafe, ArchivingLosesNothing,
      EntriesAreComplete, Knows, Settled, There
<1>2. CASE DataNext
  <2>1. ASSUME NEW p \in Managers, DataStep(p) PROVE DataInv'
    BY <2>1, PreparingKeeps, MoveKeeps, PublishKeeps, RemoveKeeps, EntryKeeps, DeleteKeeps
    DEF DataStep
  <2> QED BY <1>2, <2>1, SelectKeeps, PreparingKeeps DEF DataNext
<1> QED BY <1>1, <1>2

\* Archiving loses nothing that nobody asked to delete, and an archive entry says
\* the truth, however many commands archive and delete the same targets without
\* a lock and whatever raises or dies (data_management.py).
THEOREM ArchivingStaysSafe == DataSpec => []ArchivingIsSafe
<1>1. DataInv => ArchivingIsSafe
  BY DEF DataInv
<1> QED BY <1>1, DataInvInitially, DataInvKept, PTL DEF DataSpec

-----------------------------------------------------------------------------
(* Managed checkpoint snapshots, for every number of commands, changes of    *)
(* the sources and kills.                                                    *)

Asked == [kind : {"pinned", "latest", "trained"}, local : BOOLEAN, offline : BOOLEAN]

ResolverTypeOK ==
  /\ resolveAt \in [Resolvers -> {"idle", "specify", "search", "verify", "lock_resolve", "link",
                                  "lock_download", "download", "rename", "ended"}]
  /\ request \in [Resolvers -> Asked]
  /\ spec \in [Resolvers -> Versions \ {"empty"}]
  /\ candidate \in [Resolvers -> [from : Sources \union {"managed", "none"}, same : BOOLEAN]]
  /\ source \in [Sources -> Versions \union {"absent"}]
  /\ managed \in Versions \union {"absent"}
  /\ hidden \in [Resolvers -> Versions \union {"absent"}]
  /\ locks \in [{"resolve", "download"} -> Resolvers \union {NoOne}]
  /\ DOMAIN answer = Resolvers
  /\ stirred \in BOOLEAN

\* A command holds the lock of the way it goes and no other.
HoldsItsLock(p) ==
  /\ locks["resolve"] = p => resolveAt[p] \in {"link", "rename"}
  /\ locks["download"] = p => resolveAt[p] \in {"download", "rename"}
  /\ resolveAt[p] = "link" => locks["resolve"] = p
  /\ resolveAt[p] = "download" => locks["download"] = p
  /\ resolveAt[p] = "rename" => locks["resolve"] = p \/ locks["download"] = p
  /\ ~(locks["resolve"] = p /\ locks["download"] = p)

\* Where content is taken over without another look, it is what was verified:
\* between the verification and the rename of a link, and in a download, which
\* only a pinned or a moving selection makes.
KnowsItsContent(p) ==
  /\ resolveAt[p] = "idle" \/ request[p].kind = "pinned" => spec[p] = "pinned"
  /\ resolveAt[p] \in {"lock_download", "download"} => request[p].kind # "trained"
  /\ resolveAt[p] = "verify" => candidate[p].from # "none"
  /\ resolveAt[p] \in {"lock_resolve", "link"} =>
       /\ candidate[p].from \in Sources
       /\ candidate[p].same => managed = spec[p]
       /\ ~candidate[p].same /\ ~stirred => source[candidate[p].from] = spec[p]
  /\ resolveAt[p] = "rename" /\ locks["resolve"] = p /\ ~stirred => hidden[p] = spec[p]
  /\ resolveAt[p] = "rename" /\ locks["download"] = p =>
       hidden[p] = "pinned" /\ request[p].kind # "trained"

\* What a call answered stays true.
AnswerStands(p) ==
  /\ resolveAt[p] # "ended" => answer[p] = "none"
  /\ answer[p] = "resolved" /\ ~stirred => managed = spec[p]
  /\ answer[p] = "race" => Occupied

ResolverInv ==
  /\ ResolverTypeOK
  /\ \A p \in Resolvers : HoldsItsLock(p) /\ KnowsItsContent(p) /\ AnswerStands(p)

LEMMA ResolverInvInitially == ResolverInit => ResolverInv
<1> SUFFICES ASSUME ResolverInit PROVE ResolverInv
  OBVIOUS
<1>1. ResolverTypeOK
  BY DEF ResolverInit, ResolverTypeOK, Asked, Versions, Sources
<1>2. \A p \in Resolvers : HoldsItsLock(p) /\ KnowsItsContent(p) /\ AnswerStands(p)
  BY ResolverAssumption DEF ResolverInit, HoldsItsLock, KnowsItsContent, AnswerStands
<1> QED BY <1>1, <1>2 DEF ResolverInv

(* A step of one command leaves the others as they are: the snapshot changes *)
(* only where there is none, and nobody takes another's lock.                *)
LEMMA OtherResolversKept ==
  ASSUME ResolverInv, NEW q \in Resolvers,
         resolveAt'[q] = resolveAt[q], request'[q] = request[q], spec'[q] = spec[q],
         candidate'[q] = candidate[q], hidden'[q] = hidden[q], answer'[q] = answer[q],
         locks'["resolve"] = q <=> locks["resolve"] = q,
         locks'["download"] = q <=> locks["download"] = q,
         UNCHANGED <<source, stirred>>, Occupied => UNCHANGED managed
  PROVE  HoldsItsLock(q)' /\ KnowsItsContent(q)' /\ AnswerStands(q)'
<1>1. HoldsItsLock(q) /\ KnowsItsContent(q) /\ AnswerStands(q) /\ spec[q] \in Versions \ {"empty"}
  BY DEF ResolverInv, ResolverTypeOK
<1>2. spec[q] \notin {"absent", "empty"}
  BY <1>1 DEF Versions
<1>3. HoldsItsLock(q)'
  BY <1>1 DEF HoldsItsLock
<1>4. managed = spec[q] => managed' = spec[q]
  BY <1>2 DEF Occupied
<1>5. KnowsItsContent(q)'
  BY <1>1, <1>4 DEF KnowsItsContent
<1>6. AnswerStands(q)'
  BY <1>1, <1>4 DEF AnswerStands, Occupied
<1> QED BY <1>3, <1>5, <1>6

\* What a step of a command leaves of the other commands.
OnlyThisResolver(p) ==
  \A q \in Resolvers \ {p} :
    /\ resolveAt'[q] = resolveAt[q] /\ request'[q] = request[q] /\ spec'[q] = spec[q]
    /\ candidate'[q] = candidate[q] /\ hidden'[q] = hidden[q] /\ answer'[q] = answer[q]
    /\ locks'["resolve"] = q <=> locks["resolve"] = q
    /\ locks'["download"] = q <=> locks["download"] = q

LEMMA LocksReleased ==
  ASSUME ResolverInv, NEW p \in Resolvers, Release(p)
  PROVE  /\ locks' \in [{"resolve", "download"} -> Resolvers \union {NoOne}]
         /\ locks'["resolve"] # p /\ locks'["download"] # p
         /\ \A q \in Resolvers \ {p} : /\ locks'["resolve"] = q <=> locks["resolve"] = q
                                       /\ locks'["download"] = q <=> locks["download"] = q
<1>1. locks \in [{"resolve", "download"} -> Resolvers \union {NoOne}] /\ p # NoOne
  BY ResolverAssumption DEF ResolverInv, ResolverTypeOK
<1>2. locks' = [l \in {"resolve", "download"} |-> IF locks[l] = p THEN NoOne ELSE locks[l]]
  BY <1>1 DEF Release
<1>3. \A q \in Resolvers \ {p} : q # NoOne
  BY ResolverAssumption
<1> QED BY <1>1, <1>2, <1>3

(* A call that ends holds nothing; what is left to show is its answer.       *)
LEMMA EndingKeeps ==
  ASSUME ResolverInv, NEW p \in Resolvers, NEW why, EndResolve(p, why),
         UNCHANGED <<request, spec, source, stirred>>,
         candidate' = candidate, Occupied => UNCHANGED managed,
         managed' \in Versions \union {"absent"},
         why = "resolved" /\ ~stirred => managed' = spec[p],
         why = "race" => Occupied'
  PROVE  ResolverInv'
<1>1. ResolverTypeOK /\ KnowsItsContent(p)
  BY DEF ResolverInv
<1>2. /\ resolveAt' = [resolveAt EXCEPT ![p] = "ended"] /\ hidden' = [hidden EXCEPT ![p] = "absent"]
      /\ answer' = [answer EXCEPT ![p] = why] /\ Release(p)
  BY DEF EndResolve, Answer
<1>3. /\ locks' \in [{"resolve", "download"} -> Resolvers \union {NoOne}]
      /\ locks'["resolve"] # p /\ locks'["download"] # p
  BY <1>2, LocksReleased
<1>4. ResolverTypeOK'
  BY <1>1, <1>2, <1>3 DEF ResolverTypeOK
<1>5. OnlyThisResolver(p)
  <2>1. \A q \in Resolvers \ {p} : /\ locks'["resolve"] = q <=> locks["resolve"] = q
                                   /\ locks'["download"] = q <=> locks["download"] = q
    BY <1>2, LocksReleased
  <2> QED BY <1>1, <1>2, <2>1 DEF OnlyThisResolver, ResolverTypeOK
<1>6. resolveAt'[p] = "ended" /\ answer'[p] = why
  BY <1>1, <1>2 DEF ResolverTypeOK
<1>7. HoldsItsLock(p)' /\ KnowsItsContent(p)' /\ AnswerStands(p)'
  BY <1>1, <1>3, <1>6 DEF HoldsItsLock, KnowsItsContent, AnswerStands
<1>8. \A q \in Resolvers \ {p} : HoldsItsLock(q)' /\ KnowsItsContent(q)' /\ AnswerStands(q)'
  BY <1>5, OtherResolversKept DEF OnlyThisResolver
<1> QED BY <1>4, <1>7, <1>8 DEF ResolverInv

(* A step that leaves the snapshot and the sources alone and goes on.        *)
LEMMA GoingOnKeeps ==
  ASSUME ResolverInv, NEW p \in Resolvers, ResolverTypeOK', OnlyThisResolver(p),
         HoldsItsLock(p)', KnowsItsContent(p)', resolveAt'[p] # "ended", answer'[p] = "none",
         UNCHANGED <<source, stirred>>, Occupied => UNCHANGED managed
  PROVE  ResolverInv'
<1>1. AnswerStands(p)'
  BY DEF AnswerStands
<1>2. \A q \in Resolvers \ {p} : HoldsItsLock(q)' /\ KnowsItsContent(q)' /\ AnswerStands(q)'
  BY OtherResolversKept DEF OnlyThisResolver
<1> QED BY <1>1, <1>2 DEF ResolverInv

LEMMA SpecifyingKeeps ==
  ASSUME ResolverInv, NEW p \in Resolvers, BeginResolve(p) \/ Specify(p)
  PROVE  ResolverInv'
<1>1. ResolverTypeOK /\ HoldsItsLock(p) /\ KnowsItsContent(p) /\ AnswerStands(p)
  BY DEF ResolverInv
<1>2. CASE BeginResolve(p)
  <2>1. PICK q \in Asked : request' = [request EXCEPT ![p] = q]
    BY <1>2, ResolverAssumption DEF BeginResolve, Asked
  <2>2. /\ resolveAt[p] = "idle" /\ resolveAt' = [resolveAt EXCEPT ![p] = "specify"]
        /\ UNCHANGED <<spec, candidate, source, managed, hidden, locks, answer, stirred>>
    BY <1>2 DEF BeginResolve, ResolveAt
  <2>3. ResolverTypeOK' /\ OnlyThisResolver(p)
    BY <1>1, <2>1, <2>2 DEF ResolverTypeOK, OnlyThisResolver
  <2>4. spec[p] = "pinned"
    BY <1>1, <2>2 DEF KnowsItsContent
  <2>5. HoldsItsLock(p)' /\ KnowsItsContent(p)'
    BY <1>1, <2>1, <2>2, <2>4 DEF ResolverTypeOK, HoldsItsLock, KnowsItsContent
  <2>6. resolveAt'[p] # "ended" /\ answer'[p] = "none"
    BY <1>1, <2>2 DEF ResolverTypeOK, AnswerStands
  <2> QED BY <2>2, <2>3, <2>5, <2>6, GoingOnKeeps
<1>3. CASE Specify(p)
  <2>1. /\ resolveAt[p] = "specify"
        /\ UNCHANGED <<request, candidate, source, managed, linkedFrom, stirred>>
    BY <1>3 DEF Specify, SpecifyPinned, SpecifyLatest, SpecifyBase, ResolveAt
  <2>2. CASE EndResolve(p, "unavailable") /\ UNCHANGED spec
    BY <1>1, <2>1, <2>2, EndingKeeps DEF ResolverTypeOK
  <2>3. CASE /\ UNCHANGED <<hidden, locks, answer>>
             /\ \/ /\ resolveAt' = [resolveAt EXCEPT ![p] = "search"]
                   /\ \E v \in Versions \ {"empty"} :
                        /\ spec' = [spec EXCEPT ![p] = v]
                        /\ request[p].kind = "pinned" => v = "pinned"
                \/ /\ resolveAt' = [resolveAt EXCEPT ![p] = "lock_download"]
                   /\ request[p].kind = "latest" /\ UNCHANGED spec
    <3>1. ResolverTypeOK' /\ OnlyThisResolver(p)
      <4>1. \E at \in {"search", "lock_download"} : resolveAt' = [resolveAt EXCEPT ![p] = at]
        BY <2>3
      <4>2. \E v \in Versions \ {"empty"} : spec' = [spec EXCEPT ![p] = v]
        <5>1. spec = [spec EXCEPT ![p] = spec[p]] /\ spec[p] \in Versions \ {"empty"}
          BY <1>1 DEF ResolverTypeOK
        <5> QED BY <2>3, <5>1
      <4> QED BY <1>1, <2>1, <2>3, <4>1, <4>2 DEF ResolverTypeOK, OnlyThisResolver
    <3>2. HoldsItsLock(p)' /\ KnowsItsContent(p)'
      BY <1>1, <2>1, <2>3 DEF ResolverTypeOK, HoldsItsLock, KnowsItsContent
    <3>3. resolveAt'[p] # "ended" /\ answer'[p] = "none"
      BY <1>1, <2>1, <2>3 DEF ResolverTypeOK, AnswerStands
    <3> QED BY <2>1, <2>3, <3>1, <3>2, <3>3, GoingOnKeeps
  <2>4. CASE SpecifyPinned(p)
    <3>1. "pinned" \in Versions \ {"empty"}
      BY DEF Versions
    <3> QED BY <2>3, <2>4, <3>1 DEF SpecifyPinned, ResolveAt
  <2>5. CASE SpecifyLatest(p)
    <3> PICK here : here = IF Found(p) = {} THEN "absent" ELSE Content(First(Found(p)))
      OBVIOUS
    <3>1. here \in Versions \union {"absent"}
      BY <1>1 DEF ResolverTypeOK, Content, First, Sources
    <3>2. request[p].kind = "latest"
      BY <2>5 DEF SpecifyLatest
    <3>3. \/ /\ here \notin {"absent", "empty"}
             /\ resolveAt' = [resolveAt EXCEPT ![p] = "search"]
             /\ spec' = [spec EXCEPT ![p] = here]
             /\ UNCHANGED <<hidden, locks, answer>>
          \/ /\ resolveAt' = [resolveAt EXCEPT ![p] = "lock_download"]
             /\ UNCHANGED <<spec, hidden, locks, answer>>
          \/ EndResolve(p, "unavailable") /\ UNCHANGED spec
      BY <2>5 DEF SpecifyLatest, ResolveAt
    <3> QED BY <2>2, <2>3, <3>1, <3>2, <3>3
  <2>6. CASE SpecifyBase(p)
    <3>1. "pinned" \in Versions \ {"empty"}
      BY DEF Versions
    <3> QED BY <2>2, <2>3, <2>6, <3>1 DEF SpecifyBase, ResolveAt
  <2> QED BY <1>3, <2>4, <2>5, <2>6 DEF Specify
<1> QED BY <1>2, <1>3

LEMMA SearchKeeps ==
  ASSUME ResolverInv, NEW p \in Resolvers, Search(p)
  PROVE  ResolverInv'
<1>1. ResolverTypeOK /\ HoldsItsLock(p) /\ KnowsItsContent(p) /\ AnswerStands(p)
  BY DEF ResolverInv
<1>2. resolveAt[p] = "search" /\ UNCHANGED <<request, spec, source, managed, linkedFrom, stirred>>
  BY DEF Search
<1>3. CASE EndResolve(p, "unavailable") /\ UNCHANGED candidate
  BY <1>1, <1>2, <1>3, EndingKeeps DEF ResolverTypeOK
<1>4. CASE /\ UNCHANGED <<hidden, locks, answer>>
           /\ \/ /\ resolveAt' = [resolveAt EXCEPT ![p] = "verify"]
                 /\ \E s \in Sources \union {"managed"} :
                      candidate' = [candidate EXCEPT ![p] =
                        [from |-> s, same |-> managed # "absent" /\ linkedFrom = s]]
              \/ /\ ~MustNotDownload(p)
                 /\ resolveAt' = [resolveAt EXCEPT ![p] = "lock_download"]
                 /\ UNCHANGED candidate
  <2>1. CASE /\ resolveAt' = [resolveAt EXCEPT ![p] = "verify"]
             /\ \E s \in Sources \union {"managed"} :
                  candidate' = [candidate EXCEPT ![p] =
                    [from |-> s, same |-> managed # "absent" /\ linkedFrom = s]]
    <3>1. PICK s \in Sources \union {"managed"}, same \in BOOLEAN :
            candidate' = [candidate EXCEPT ![p] = [from |-> s, same |-> same]]
      BY <2>1
    <3> PICK c : c = [from |-> s, same |-> same]
      OBVIOUS
    <3>2. c \in [from : Sources \union {"managed", "none"}, same : BOOLEAN] /\ c.from # "none"
      BY DEF Sources
    <3>3. candidate' = [candidate EXCEPT ![p] = c]
      BY <3>1
    <3>4. ResolverTypeOK' /\ OnlyThisResolver(p)
      BY <1>1, <1>2, <1>4, <2>1, <3>2, <3>3 DEF ResolverTypeOK, OnlyThisResolver
    <3>5. HoldsItsLock(p)' /\ KnowsItsContent(p)'
      BY <1>1, <1>2, <1>4, <2>1, <3>2, <3>3 DEF ResolverTypeOK, HoldsItsLock, KnowsItsContent
    <3>6. resolveAt'[p] # "ended" /\ answer'[p] = "none"
      BY <1>1, <1>2, <1>4, <2>1 DEF ResolverTypeOK, AnswerStands
    <3> QED BY <1>2, <3>4, <3>5, <3>6, GoingOnKeeps
  <2>2. CASE /\ ~MustNotDownload(p)
             /\ resolveAt' = [resolveAt EXCEPT ![p] = "lock_download"]
             /\ UNCHANGED candidate
    <3>1. ResolverTypeOK' /\ OnlyThisResolver(p)
      BY <1>1, <1>2, <1>4, <2>2 DEF ResolverTypeOK, OnlyThisResolver
    <3>2. HoldsItsLock(p)' /\ KnowsItsContent(p)'
      BY <1>1, <1>2, <1>4, <2>2
      DEF ResolverTypeOK, HoldsItsLock, KnowsItsContent, MustNotDownload
    <3>3. resolveAt'[p] # "ended" /\ answer'[p] = "none"
      BY <1>1, <1>2, <1>4, <2>2 DEF ResolverTypeOK, AnswerStands
    <3> QED BY <1>2, <3>1, <3>2, <3>3, GoingOnKeeps
  <2> QED BY <1>4, <2>1, <2>2
<1>5. First(Found(p)) \in Sources \union {"managed"}
  BY DEF First, Sources
<1> QED BY <1>3, <1>4, <1>5 DEF Search

LEMMA VerifyKeeps ==
  ASSUME ResolverInv, NEW p \in Resolvers, VerifyCandidate(p)
  PROVE  ResolverInv'
<1>1. ResolverTypeOK /\ HoldsItsLock(p) /\ KnowsItsContent(p) /\ AnswerStands(p)
  BY DEF ResolverInv
<1>2. /\ resolveAt[p] = "verify"
      /\ UNCHANGED <<request, spec, candidate, source, managed, linkedFrom, stirred>>
  BY DEF VerifyCandidate
<1>3. CASE EndResolve(p, "mismatch")
  BY <1>1, <1>2, <1>3, EndingKeeps DEF ResolverTypeOK
<1>4. CASE /\ Verified(p)
           /\ resolveAt' = [resolveAt EXCEPT ![p] =
                IF candidate[p].from = "managed" THEN "ended" ELSE "lock_resolve"]
           /\ Answer(p, IF candidate[p].from = "managed" THEN "resolved" ELSE "none")
           /\ UNCHANGED <<hidden, locks>>
  <2>1. ResolverTypeOK' /\ OnlyThisResolver(p)
    BY <1>1, <1>2, <1>4 DEF ResolverTypeOK, OnlyThisResolver, Answer
  <2>2. candidate[p] \in [from : Sources \union {"managed", "none"}, same : BOOLEAN]
          /\ candidate[p].from # "none"
    BY <1>1, <1>2 DEF ResolverTypeOK, KnowsItsContent
  <2>3. CASE candidate[p].from = "managed"
    <3>1. managed = spec[p] /\ resolveAt'[p] = "ended" /\ answer'[p] = "resolved"
      BY <1>1, <1>4, <2>3 DEF ResolverTypeOK, Verified, Content, Answer
    <3>2. HoldsItsLock(p)' /\ KnowsItsContent(p)' /\ AnswerStands(p)'
      BY <1>1, <1>2, <1>4, <3>1 DEF HoldsItsLock, KnowsItsContent, AnswerStands
    <3>3. \A q \in Resolvers \ {p} : HoldsItsLock(q)' /\ KnowsItsContent(q)' /\ AnswerStands(q)'
      BY <1>2, <2>1, OtherResolversKept DEF OnlyThisResolver
    <3> QED BY <2>1, <3>2, <3>3 DEF ResolverInv
  <2>4. CASE candidate[p].from # "managed"
    <3>1. candidate[p].from \in Sources /\ resolveAt'[p] = "lock_resolve" /\ answer'[p] = "none"
      BY <1>1, <1>4, <2>2, <2>4 DEF ResolverTypeOK, Answer
    <3>2. /\ candidate[p].same => managed = spec[p]
          /\ ~candidate[p].same => source[candidate[p].from] = spec[p]
      BY <1>4, <2>4 DEF Verified, Content
    <3>3. HoldsItsLock(p)' /\ KnowsItsContent(p)'
      BY <1>1, <1>2, <1>4, <3>1, <3>2 DEF HoldsItsLock, KnowsItsContent
    <3> QED BY <1>2, <2>1, <3>1, <3>3, GoingOnKeeps
  <2> QED BY <2>3, <2>4
<1> QED BY <1>3, <1>4 DEF VerifyCandidate

LEMMA LockingKeeps ==
  ASSUME ResolverInv, NEW p \in Resolvers,
         \/ TakeLock(p, "resolve", "lock_resolve", "link")
         \/ TakeLock(p, "download", "lock_download", "download")
  PROVE  ResolverInv'
<1>1. ResolverTypeOK /\ HoldsItsLock(p) /\ KnowsItsContent(p) /\ AnswerStands(p)
  BY DEF ResolverInv
<1>2. PICK l \in {"resolve", "download"} :
        /\ locks[l] = NoOne /\ locks' = [locks EXCEPT ![l] = p]
        /\ IF l = "resolve"
           THEN resolveAt[p] = "lock_resolve" /\ resolveAt' = [resolveAt EXCEPT ![p] = "link"]
           ELSE resolveAt[p] = "lock_download" /\ resolveAt' = [resolveAt EXCEPT ![p] = "download"]
        /\ UNCHANGED <<request, spec, candidate, source, managed, hidden, answer, stirred>>
  BY DEF TakeLock, ResolveAt
<1>3. ResolverTypeOK'
  BY <1>1, <1>2 DEF ResolverTypeOK
<1>4. \A q \in Resolvers \ {p} : /\ locks'["resolve"] = q <=> locks["resolve"] = q
                                 /\ locks'["download"] = q <=> locks["download"] = q
  <2>1. NoOne \notin Resolvers
    BY ResolverAssumption
  <2> QED BY <1>1, <1>2, <2>1 DEF ResolverTypeOK
<1>5. OnlyThisResolver(p)
  BY <1>1, <1>2, <1>4 DEF OnlyThisResolver, ResolverTypeOK
<1>6. HoldsItsLock(p)' /\ KnowsItsContent(p)'
  BY <1>1, <1>2 DEF ResolverTypeOK, HoldsItsLock, KnowsItsContent
<1>7. resolveAt'[p] # "ended" /\ answer'[p] = "none"
  BY <1>1, <1>2 DEF ResolverTypeOK, AnswerStands
<1> QED BY <1>2, <1>3, <1>5, <1>6, <1>7, GoingOnKeeps

LEMMA LinkKeeps ==
  ASSUME ResolverInv, NEW p \in Resolvers, Link(p)
  PROVE  ResolverInv'
<1>1. ResolverTypeOK /\ HoldsItsLock(p) /\ KnowsItsContent(p) /\ AnswerStands(p)
  BY DEF ResolverInv
<1>2. /\ resolveAt[p] = "link"
      /\ UNCHANGED <<request, spec, candidate, source, managed, linkedFrom, stirred>>
  BY DEF Link
<1>3. ASSUME NEW why \in {"link", "mismatch"}, EndResolve(p, why) PROVE ResolverInv'
  BY <1>1, <1>2, <1>3, EndingKeeps DEF ResolverTypeOK
<1>4. CASE EndResolve(p, "resolved") /\ Trusted(p)
  <2>1. managed = spec[p]
    BY <1>1, <1>2, <1>4 DEF Trusted, KnowsItsContent
  <2> QED BY <1>1, <1>2, <1>4, <2>1, EndingKeeps DEF ResolverTypeOK
<1>5. CASE /\ managed = "absent"
           /\ resolveAt' = [resolveAt EXCEPT ![p] = "rename"]
           /\ hidden' = [hidden EXCEPT ![p] =
                IF source[candidate[p].from] = "absent" THEN "empty" ELSE source[candidate[p].from]]
           /\ UNCHANGED <<locks, answer>>
  <2>1. candidate[p].from \in Sources
    BY <1>1, <1>2 DEF KnowsItsContent
  <2> PICK here : here = IF source[candidate[p].from] = "absent" THEN "empty"
                         ELSE source[candidate[p].from]
    OBVIOUS
  <2>2. here \in Versions \union {"absent"} /\ hidden' = [hidden EXCEPT ![p] = here]
    BY <1>1, <1>5, <2>1 DEF ResolverTypeOK, Versions
  <2>3. ResolverTypeOK' /\ OnlyThisResolver(p)
    BY <1>1, <1>2, <1>5, <2>2 DEF ResolverTypeOK, OnlyThisResolver
  <2>4. spec[p] \notin {"absent", "empty"}
    BY <1>1 DEF ResolverTypeOK, Versions
  <2>5. ~stirred => here = spec[p]
    BY <1>1, <1>2, <1>5, <2>4 DEF KnowsItsContent
  <2>6. HoldsItsLock(p)' /\ KnowsItsContent(p)'
    BY <1>1, <1>2, <1>5, <2>2, <2>5 DEF ResolverTypeOK, HoldsItsLock, KnowsItsContent
  <2>7. resolveAt'[p] # "ended" /\ answer'[p] = "none"
    BY <1>1, <1>2, <1>5 DEF ResolverTypeOK, AnswerStands
  <2> QED BY <1>2, <2>3, <2>6, <2>7, GoingOnKeeps
<1> QED BY <1>3, <1>4, <1>5 DEF Link

(* A moving selection starts over with content it has seen.                  *)
LEMMA AgainKeeps ==
  ASSUME ResolverInv, NEW p \in Resolvers, NEW content \in Versions \ {"empty"},
         ResolveAgain(p, content), request[p].kind = "latest", resolveAt[p] # "ended",
         UNCHANGED <<candidate, source, stirred>>, Occupied => UNCHANGED managed,
         managed' \in Versions \union {"absent"}
  PROVE  ResolverInv'
<1>1. ResolverTypeOK /\ AnswerStands(p) /\ request[p] \in Asked
  BY DEF ResolverInv, ResolverTypeOK
<1>2. /\ resolveAt' = [resolveAt EXCEPT ![p] = "search"]
      /\ spec' = [spec EXCEPT ![p] = content] /\ hidden' = [hidden EXCEPT ![p] = "absent"]
      /\ Release(p) /\ UNCHANGED answer
  BY DEF ResolveAgain
<1> PICK asked : asked = [request[p] EXCEPT !.local = FALSE]
  OBVIOUS
<1>3. asked \in Asked /\ asked.kind = "latest" /\ request' = [request EXCEPT ![p] = asked]
  BY <1>1 DEF ResolveAgain, Asked
<1>4. /\ locks' \in [{"resolve", "download"} -> Resolvers \union {NoOne}]
      /\ locks'["resolve"] # p /\ locks'["download"] # p
      /\ \A q \in Resolvers \ {p} : /\ locks'["resolve"] = q <=> locks["resolve"] = q
                                    /\ locks'["download"] = q <=> locks["download"] = q
  BY <1>2, LocksReleased
<1>5. ResolverTypeOK' /\ OnlyThisResolver(p)
  BY <1>1, <1>2, <1>3, <1>4 DEF ResolverTypeOK, OnlyThisResolver
<1>6. HoldsItsLock(p)' /\ KnowsItsContent(p)'
  BY <1>1, <1>2, <1>3, <1>4 DEF ResolverTypeOK, HoldsItsLock, KnowsItsContent
<1>7. resolveAt'[p] # "ended" /\ answer'[p] = "none"
  BY <1>1, <1>2 DEF ResolverTypeOK, AnswerStands
<1> QED BY <1>5, <1>6, <1>7, GoingOnKeeps

LEMMA DownloadKeeps ==
  ASSUME ResolverInv, NEW p \in Resolvers, Download(p)
  PROVE  ResolverInv'
<1>1. ResolverTypeOK /\ HoldsItsLock(p) /\ KnowsItsContent(p) /\ AnswerStands(p)
  BY DEF ResolverInv
<1>2. resolveAt[p] = "download" /\ UNCHANGED <<candidate, source, managed, linkedFrom, stirred>>
  BY DEF Download
<1>3. ASSUME NEW why \in {"download", "mismatch"}, EndResolve(p, why), UNCHANGED <<request, spec>>
      PROVE  ResolverInv'
  BY <1>1, <1>2, <1>3, EndingKeeps DEF ResolverTypeOK
<1>4. CASE EndResolve(p, "resolved") /\ managed = spec[p] /\ UNCHANGED <<request, spec>>
  BY <1>1, <1>2, <1>4, EndingKeeps DEF ResolverTypeOK
<1>5. CASE /\ managed \notin {"absent", "empty"} /\ request[p].kind = "latest"
           /\ ResolveAgain(p, managed)
  <2>1. managed \in Versions \ {"empty"} /\ managed' = managed
    BY <1>1, <1>2, <1>5 DEF ResolverTypeOK
  <2>2. managed' \in Versions \union {"absent"}
    BY <2>1
  <2> QED BY <1>2, <1>5, <2>1, <2>2, AgainKeeps
<1>6. CASE /\ resolveAt' = [resolveAt EXCEPT ![p] = "rename"]
           /\ hidden' = [hidden EXCEPT ![p] = "pinned"]
           /\ UNCHANGED <<request, spec, locks, answer>>
  <2>1. ResolverTypeOK' /\ OnlyThisResolver(p)
    BY <1>1, <1>2, <1>6 DEF ResolverTypeOK, OnlyThisResolver, Versions
  <2>2. HoldsItsLock(p)' /\ KnowsItsContent(p)'
    BY <1>1, <1>2, <1>6 DEF ResolverTypeOK, HoldsItsLock, KnowsItsContent
  <2>3. resolveAt'[p] # "ended" /\ answer'[p] = "none"
    BY <1>1, <1>2, <1>6 DEF ResolverTypeOK, AnswerStands
  <2> QED BY <1>2, <2>1, <2>2, <2>3, GoingOnKeeps
<1> QED BY <1>3, <1>4, <1>5, <1>6 DEF Download

LEMMA RenameKeeps ==
  ASSUME ResolverInv, NEW p \in Resolvers, RenameSnapshot(p)
  PROVE  ResolverInv'
<1>1. ResolverTypeOK /\ HoldsItsLock(p) /\ KnowsItsContent(p) /\ AnswerStands(p)
  BY DEF ResolverInv
<1>2. resolveAt[p] = "rename" /\ UNCHANGED <<candidate, source, stirred>>
  BY DEF RenameSnapshot
<1>3. CASE Occupied /\ EndResolve(p, "race") /\ UNCHANGED <<request, spec, managed>>
  <2>1. Occupied' /\ managed' \in Versions \union {"absent"}
    BY <1>1, <1>3 DEF Occupied, ResolverTypeOK
  <2> QED BY <1>2, <1>3, <2>1, EndingKeeps
<1>4. CASE /\ ~Occupied /\ managed' = hidden[p]
           /\ request[p].kind = "latest" /\ locks["download"] = p /\ ResolveAgain(p, managed')
  <2>1. managed' = "pinned" /\ managed' \in Versions \ {"empty"}
    BY <1>1, <1>2, <1>4 DEF KnowsItsContent, Versions
  <2>2. "pinned" \in Versions \ {"empty"} /\ ResolveAgain(p, "pinned")
    BY <1>4, <2>1
  <2> QED BY <1>2, <1>4, <2>1, <2>2, AgainKeeps
<1>5. CASE /\ ~Occupied /\ managed' = hidden[p]
           /\ ~(request[p].kind = "latest" /\ locks["download"] = p)
           /\ EndResolve(p, "resolved") /\ UNCHANGED <<request, spec>>
  <2>1. ~stirred => hidden[p] = spec[p]
    <3>1. request[p].kind \in {"pinned", "latest", "trained"}
      BY <1>1 DEF ResolverTypeOK, Asked
    <3> QED BY <1>1, <1>2, <1>5, <3>1 DEF HoldsItsLock, KnowsItsContent
  <2>2. managed' \in Versions \union {"absent"}
    BY <1>1, <1>5 DEF ResolverTypeOK
  <2> QED BY <1>2, <1>5, <2>1, <2>2, EndingKeeps
<1> QED BY <1>3, <1>4, <1>5 DEF RenameSnapshot

LEMMA DisturbancesKeep ==
  ASSUME ResolverInv, ChangeSource \/ \E p \in Resolvers : KillResolver(p)
  PROVE  ResolverInv'
<1>1. ResolverTypeOK
  BY DEF ResolverInv
<1>2. CASE ChangeSource
  <2>1. /\ stirred' = (stirred \/ \E p \in Resolvers : resolveAt[p] \in {"lock_resolve", "link"})
        /\ UNCHANGED <<resolveAt, request, spec, candidate, managed, hidden, locks, answer>>
    BY <1>2 DEF ChangeSource
  <2>2. PICK s \in Sources, v \in Versions \union {"absent"} : source' = [source EXCEPT ![s] = v]
    BY <1>2 DEF ChangeSource
  <2>3. stirred' \in BOOLEAN /\ (stirred => stirred')
          /\ \A p \in Resolvers : resolveAt[p] \in {"lock_resolve", "link"} => stirred'
    BY <2>1
  <2>4. ResolverTypeOK'
    BY <1>1, <2>1, <2>2, <2>3 DEF ResolverTypeOK
  <2>5. ASSUME NEW p \in Resolvers PROVE HoldsItsLock(p)' /\ KnowsItsContent(p)' /\ AnswerStands(p)'
    <3>1. HoldsItsLock(p) /\ KnowsItsContent(p) /\ AnswerStands(p)
      BY DEF ResolverInv
    <3>2. HoldsItsLock(p)'
      BY <2>1, <3>1 DEF HoldsItsLock
    <3>3. KnowsItsContent(p)'
      BY <2>1, <2>3, <3>1 DEF KnowsItsContent
    <3>4. AnswerStands(p)'
      BY <2>1, <2>3, <3>1 DEF AnswerStands, Occupied
    <3> QED BY <3>2, <3>3, <3>4
  <2> QED BY <2>4, <2>5 DEF ResolverInv
<1>3. ASSUME NEW p \in Resolvers, KillResolver(p) PROVE ResolverInv'
  <2>1. /\ resolveAt' = [resolveAt EXCEPT ![p] = "ended"]
        /\ answer' = [answer EXCEPT ![p] = "killed"] /\ Release(p)
        /\ UNCHANGED <<request, spec, candidate, source, managed, hidden, stirred>>
    BY <1>3 DEF KillResolver, Answer
  <2>2. /\ locks' \in [{"resolve", "download"} -> Resolvers \union {NoOne}]
        /\ locks'["resolve"] # p /\ locks'["download"] # p
        /\ \A q \in Resolvers \ {p} : /\ locks'["resolve"] = q <=> locks["resolve"] = q
                                      /\ locks'["download"] = q <=> locks["download"] = q
    BY <2>1, LocksReleased
  <2>3. ResolverTypeOK' /\ OnlyThisResolver(p)
    BY <1>1, <2>1, <2>2 DEF ResolverTypeOK, OnlyThisResolver
  <2>4. HoldsItsLock(p)' /\ KnowsItsContent(p)' /\ AnswerStands(p)'
    BY <1>1, <2>1, <2>2 DEF ResolverInv, ResolverTypeOK, HoldsItsLock, KnowsItsContent, AnswerStands
  <2>5. \A q \in Resolvers \ {p} : HoldsItsLock(q)' /\ KnowsItsContent(q)' /\ AnswerStands(q)'
    BY <2>1, <2>3, OtherResolversKept DEF OnlyThisResolver
  <2> QED BY <2>3, <2>4, <2>5 DEF ResolverInv
<1> QED BY <1>2, <1>3

LEMMA ResolverInvKept == ResolverInv /\ [ResolverNext]_resolverVars => ResolverInv'
<1> SUFFICES ASSUME ResolverInv, [ResolverNext]_resolverVars PROVE ResolverInv'
  OBVIOUS
<1>1. CASE UNCHANGED resolverVars
  BY <1>1
  DEF resolverVars, ResolverInv, ResolverTypeOK, HoldsItsLock, KnowsItsContent, AnswerStands, Occupied
<1>2. CASE ResolverNext
  BY <1>2, SpecifyingKeeps, SearchKeeps, VerifyKeeps, LockingKeeps, LinkKeeps, DownloadKeeps,
     RenameKeeps, DisturbancesKeep
  DEF ResolverNext, ResolveStep
<1> QED BY <1>1, <1>2

\* Whoever links, downloads or is killed meanwhile, and below whichever of the
\* two locks: what a command returned as resolved has the content it verified,
\* unless a source changed between its verification and the linking
\* (checkpointing.py, CheckpointResolver).
THEOREM ResolvedStaysVerified == ResolverSpec => []ResolvedIsVerified
<1>1. ResolverInv => ResolvedIsVerified
  BY DEF ResolverInv, AnswerStands, Occupied, ResolvedIsVerified
<1> QED BY <1>1, ResolverInvInitially, ResolverInvKept, PTL DEF ResolverSpec

\* A snapshot with files is never replaced, removed or added to: the only write
\* is a rename, and it needs a place without files (checkpointing.py, os.rename).
THEOREM SnapshotsStay == ResolverSpec => ManagedSnapshotStays
<1>1. [ResolverNext]_resolverVars => [managed \notin {"absent", "empty"} => managed' = managed]_resolverVars
  BY DEF ResolverNext, ResolveStep, BeginResolve, Specify, Search, VerifyCandidate, Link, Download,
         RenameSnapshot, Occupied, TakeLock, KillResolver, ChangeSource, resolverVars
<1> QED BY <1>1, PTL DEF ResolverSpec, ManagedSnapshotStays

-----------------------------------------------------------------------------
(* Derived reports, for every number of engines, episodes, reports and       *)
(* faults.                                                                   *)

ReportStages == {"idle", "episodes", "inputs", "target", "publish", "latest", "finalize", "dashboard",
                 "publish dashboard", "verify", "reported", "killed"}
ReportTypeOK ==
  /\ sourceRun \in [episodes : 0..MaxSourceEpisodes, at : {"running", "sealed", "final", "withdrawn"}]
  /\ reportAt \in [Engines -> ReportStages]
  /\ model \in [Engines -> ReportModels]
  /\ identity \in [Engines -> ReportIdentities]
  /\ staged \subseteq Engines

FinalOf(scope) == IF scope = "run" THEN "integrity" ELSE "manifest"

\* An engine that saw the final manifest reads a run that changes no more: its
\* episodes and the checksums are those of the finished run.
ReadsTheFinishedRun(e) ==
  model[e].complete =>
    /\ sourceRun.at = "final"
    /\ reportAt[e] \in {"inputs", "target", "publish"} => model[e].episodes = sourceRun.episodes
    /\ reportAt[e] \in {"target", "publish"} =>
         /\ identity[e].final = FinalOf(identity[e].scope)
         /\ identity[e].episodes = sourceRun.episodes

\* What an engine that published or found its build may rely on.
HasItsBuild(e) ==
  /\ reportAt[e] \in {"latest", "finalize", "dashboard", "publish dashboard", "verify", "reported"} =>
       Published(identity[e])
  /\ reportAt[e] \in {"verify", "reported"} => identity[e] \in dashboards

ReportInv ==
  /\ ReportTypeOK
  /\ \A e \in Engines : ReadsTheFinishedRun(e) /\ HasItsBuild(e)
  /\ CompleteReportsAreComplete
  /\ DerivedStoreIsConsistent

LEMMA ReportInvInitially == DerivedReportsInit => ReportInv
<1> SUFFICES ASSUME DerivedReportsInit PROVE ReportInv
  OBVIOUS
<1>1. ReportTypeOK
  BY ReportAssumption
  DEF DerivedReportsInit, ReportTypeOK, ReportStages, ReportModels, ReportIdentities, Scopes, NoModel,
         NoIdentity
<1>2. \A e \in Engines : ReadsTheFinishedRun(e) /\ HasItsBuild(e)
  BY DEF DerivedReportsInit, ReadsTheFinishedRun, HasItsBuild, NoModel
<1>3. CompleteReportsAreComplete /\ DerivedStoreIsConsistent
  BY DEF DerivedReportsInit, CompleteReportsAreComplete, DerivedStoreIsConsistent
<1> QED BY <1>1, <1>2, <1>3 DEF ReportInv

(* The run changes only while no engine can have seen it finished.           *)
LEMMA SourceStepKeeps ==
  ASSUME ReportInv, SourceStep
  PROVE  ReportInv'
<1>1. ReportTypeOK
  BY DEF ReportInv
<1>2. /\ sourceRun.at # "final"
      /\ sourceRun' \in [episodes : 0..MaxSourceEpisodes, at : {"running", "sealed", "final", "withdrawn"}]
      /\ UNCHANGED <<reportAt, model, identity, staged, builds, latestBuild, dashboards>>
  BY <1>1, ReportAssumption
  DEF SourceStep, RecordEpisode, SealSource, FinishSource, WithdrawSource, ReportTypeOK, Store
<1>3. ReportTypeOK'
  BY <1>1, <1>2 DEF ReportTypeOK
<1>4. \A e \in Engines : ReadsTheFinishedRun(e)' /\ HasItsBuild(e)'
  BY <1>2 DEF ReportInv, ReadsTheFinishedRun, HasItsBuild, Published
<1>5. CompleteReportsAreComplete' /\ DerivedStoreIsConsistent'
  BY <1>2 DEF ReportInv, CompleteReportsAreComplete, DerivedStoreIsConsistent
<1> QED BY <1>3, <1>4, <1>5 DEF ReportInv

\* A step of one engine: the others stand, builds and dashboards only grow.
EngineMoves(e) ==
  /\ UNCHANGED sourceRun
  /\ builds \subseteq builds' /\ dashboards \subseteq dashboards'
  /\ \A f \in Engines \ {e} :
       reportAt'[f] = reportAt[f] /\ model'[f] = model[f] /\ identity'[f] = identity[f]

LEMMA EngineMovesKeeps ==
  ASSUME ReportInv, NEW e \in Engines, EngineMoves(e), ReportTypeOK',
         ReadsTheFinishedRun(e)', HasItsBuild(e)',
         CompleteReportsAreComplete', DerivedStoreIsConsistent'
  PROVE  ReportInv'
<1>1. ASSUME NEW f \in Engines \ {e} PROVE ReadsTheFinishedRun(f)' /\ HasItsBuild(f)'
  BY ZenonT(40) DEF EngineMoves, ReportInv, ReadsTheFinishedRun, HasItsBuild, Published
<1> QED BY <1>1 DEF ReportInv

LEMMA ReadingKeeps ==
  ASSUME ReportInv, NEW e \in Engines,
         (\E s \in Scopes : ReadFinalManifest(e, s)) \/ ReadEpisodes(e) \/ ReadInputs(e)
  PROVE  ReportInv'
<1>1. ReportTypeOK /\ ReadsTheFinishedRun(e) /\ HasItsBuild(e)
  BY DEF ReportInv
<1>2. UNCHANGED <<sourceRun, staged, builds, latestBuild, dashboards>>
  BY DEF ReadFinalManifest, ReadEpisodes, ReadInputs, Store
<1>3. reportAt[e] \in {"idle", "episodes", "inputs"}
        /\ \E at \in {"idle", "episodes", "inputs", "target"} : reportAt' = [reportAt EXCEPT ![e] = at]
  BY DEF ReadFinalManifest, ReadEpisodes, ReadInputs, ReportStep
<1>4. CompleteReportsAreComplete'
  BY <1>2 DEF ReportInv, CompleteReportsAreComplete
<1>5. DerivedStoreIsConsistent'
  BY <1>1, <1>2, <1>3 DEF ReportInv, ReportTypeOK, DerivedStoreIsConsistent
<1>6. HasItsBuild(e)'
  BY <1>1, <1>3 DEF ReportTypeOK, HasItsBuild
<1>7. /\ sourceRun.episodes \in 0..MaxSourceEpisodes
      /\ sourceRun.at \in {"running", "sealed", "final", "withdrawn"}
      /\ model[e] \in ReportModels /\ identity[e] \in ReportIdentities
  BY <1>1 DEF ReportTypeOK
<1>8. CASE \E s \in Scopes : ReadFinalManifest(e, s)
  <2>1. PICK s \in Scopes : ReadFinalManifest(e, s)
    BY <1>8
  <2> PICK m, i : /\ m = [complete |-> sourceRun.at = "final", episodes |-> 0]
                  /\ i = [NoIdentity EXCEPT !.scope = s]
    OBVIOUS
  <2>2. m \in ReportModels /\ (m.complete => sourceRun.at = "final") /\ i \in ReportIdentities
    <3>1. 0 \in 0..MaxSourceEpisodes
      BY ReportAssumption
    <3> QED BY <3>1 DEF ReportModels, ReportIdentities, NoIdentity, Scopes
  <2>3. /\ reportAt' = [reportAt EXCEPT ![e] = "episodes"]
        /\ model' = [model EXCEPT ![e] = m] /\ identity' = [identity EXCEPT ![e] = i]
    BY <2>1 DEF ReadFinalManifest, ReportStep
  <2>4. ReportTypeOK' /\ EngineMoves(e)
    BY <1>1, <1>2, <2>2, <2>3 DEF ReportTypeOK, EngineMoves, ReportStages
  <2>5. ReadsTheFinishedRun(e)'
    BY <1>1, <1>2, <2>2, <2>3 DEF ReportTypeOK, ReadsTheFinishedRun
  <2> QED BY <1>4, <1>5, <1>6, <2>4, <2>5, EngineMovesKeeps
<1>9. CASE ReadEpisodes(e)
  <2> PICK m : m = [model[e] EXCEPT !.episodes = sourceRun.episodes]
    OBVIOUS
  <2>1. m \in ReportModels /\ (m.complete <=> model[e].complete) /\ m.episodes = sourceRun.episodes
    BY <1>7 DEF ReportModels
  <2>2. model' = [model EXCEPT ![e] = m] /\ UNCHANGED identity
    BY <1>1, <1>9 DEF ReadEpisodes, ReportTypeOK
  <2>3. reportAt'[e] \in {"idle", "inputs"} /\ reportAt' \in [Engines -> ReportStages]
    <3>1. \/ reportAt' = [reportAt EXCEPT ![e] = "idle"]
          \/ reportAt' = [reportAt EXCEPT ![e] = "inputs"]
      BY <1>9 DEF ReadEpisodes
    <3>2. reportAt \in [Engines -> ReportStages]
      BY <1>1 DEF ReportTypeOK
    <3> QED BY <3>1, <3>2 DEF ReportStages
  <2>4. ReportTypeOK' /\ EngineMoves(e)
    BY <1>1, <1>2, <1>3, <2>1, <2>2, <2>3 DEF ReportTypeOK, EngineMoves
  <2>5. ReadsTheFinishedRun(e)'
    BY <1>1, <1>2, <2>1, <2>2, <2>3 DEF ReportTypeOK, ReadsTheFinishedRun
  <2> QED BY <1>4, <1>5, <1>6, <2>4, <2>5, EngineMovesKeeps
<1>10. CASE ReadInputs(e)
  <2> PICK i : i = CanonicalInputs(identity[e].scope)
    OBVIOUS
  <2>1. /\ i \in ReportIdentities /\ i.scope = identity[e].scope /\ i.episodes = sourceRun.episodes
        /\ sourceRun.at = "final" => i.final = FinalOf(i.scope)
    BY <1>7 DEF CanonicalInputs, ReportIdentities, Scopes, FinalOf
  <2>2. /\ reportAt[e] = "inputs" /\ reportAt' = [reportAt EXCEPT ![e] = "target"]
        /\ identity' = [identity EXCEPT ![e] = i] /\ UNCHANGED model
    BY <1>10 DEF ReadInputs, ReportStep
  <2>3. ReportTypeOK' /\ EngineMoves(e)
    BY <1>1, <1>2, <2>1, <2>2 DEF ReportTypeOK, EngineMoves, ReportStages
  <2>4. ReadsTheFinishedRun(e)'
    BY <1>1, <1>2, <2>1, <2>2 DEF ReportTypeOK, ReadsTheFinishedRun
  <2> QED BY <1>4, <1>5, <1>6, <2>3, <2>4, EngineMovesKeeps
<1> QED BY <1>8, <1>9, <1>10

(* An engine that moves on without a write of its own to the run's reports.  *)
LEMMA EngineGoesOn ==
  ASSUME ReportInv, NEW e \in Engines, NEW at \in ReportStages,
         reportAt' = [reportAt EXCEPT ![e] = at],
         UNCHANGED <<sourceRun, model, identity, builds, latestBuild, dashboards>>,
         staged' \subseteq staged \union {e},
         \A f \in staged' : f = e => at \in {"publish", "publish dashboard", "killed"},
         at \in {"inputs", "target", "publish"} => reportAt[e] \in {"target", "publish"},
         at \in {"latest", "finalize", "dashboard", "publish dashboard", "verify", "reported"} =>
           Published(identity[e]),
         at \in {"verify", "reported"} => identity[e] \in dashboards
  PROVE  ReportInv'
<1>1. ReportTypeOK /\ ReadsTheFinishedRun(e) /\ HasItsBuild(e)
  BY DEF ReportInv
<1>2. ReportTypeOK' /\ EngineMoves(e)
  BY <1>1 DEF ReportTypeOK, EngineMoves
<1>3. ReadsTheFinishedRun(e)'
  BY <1>1 DEF ReportTypeOK, ReadsTheFinishedRun
<1>4. HasItsBuild(e)'
  BY <1>1 DEF ReportTypeOK, HasItsBuild, Published
<1>5. CompleteReportsAreComplete'
  BY DEF ReportInv, CompleteReportsAreComplete
<1>6. \A f \in staged' : reportAt'[f] \in {"publish", "publish dashboard", "killed"}
  <2>1. reportAt \in [Engines -> ReportStages] /\ staged \subseteq Engines
    BY DEF ReportInv, ReportTypeOK
  <2>2. \A f \in staged : reportAt[f] \in {"publish", "publish dashboard", "killed"}
    BY DEF ReportInv, DerivedStoreIsConsistent
  <2> QED BY <1>1, <2>1, <2>2
<1>7. DerivedStoreIsConsistent'
  BY <1>6 DEF ReportInv, DerivedStoreIsConsistent
<1> QED BY <1>2, <1>3, <1>4, <1>5, <1>7, EngineMovesKeeps

LEMMA GeneratingKeeps ==
  ASSUME ReportInv, NEW e \in Engines,
         \/ Reuse(e) \/ Stage(e) \/ Finalize(e) \/ CheckDashboard(e) \/ VerifyBuild(e) \/ EndReport(e)
         \/ ReportFault(e)
  PROVE  ReportInv'
<1>1. ReportTypeOK /\ ReadsTheFinishedRun(e) /\ HasItsBuild(e) /\ DerivedStoreIsConsistent
  BY DEF ReportInv
<1>2. \A f \in staged : reportAt[f] \in {"publish", "publish dashboard", "killed"}
  BY <1>1 DEF DerivedStoreIsConsistent
<1>3. UNCHANGED <<sourceRun, model, identity, builds, latestBuild, dashboards>>
  BY DEF Reuse, Stage, Finalize, CheckDashboard, VerifyBuild, EndReport, ReportFault, Store
<1>4. CASE Reuse(e)
  <2>1. /\ reportAt[e] = "target" /\ Published(identity[e]) /\ UNCHANGED staged
        /\ reportAt' = [reportAt EXCEPT ![e] = IF BuildHolds(e) THEN "dashboard" ELSE "idle"]
    BY <1>4 DEF Reuse, Store
  <2>2. PICK at \in {"dashboard", "idle"} : reportAt' = [reportAt EXCEPT ![e] = at]
    BY <2>1
  <2>3. at \in ReportStages /\ \A f \in staged' : f # e
    BY <1>2, <2>1 DEF ReportStages
  <2> QED BY <1>3, <2>1, <2>2, <2>3, EngineGoesOn
<1>5. CASE Stage(e)
  <2>1. /\ reportAt[e] = "target" /\ reportAt' = [reportAt EXCEPT ![e] = "publish"]
        /\ staged' = staged \cup {e}
    BY <1>5 DEF Stage, ReportStep
  <2>2. "publish" \in ReportStages
    BY DEF ReportStages
  <2> QED BY <1>3, <2>1, <2>2, EngineGoesOn
<1>6. CASE Finalize(e)
  <2>1. reportAt[e] = "finalize" /\ UNCHANGED staged
    BY <1>6 DEF Finalize, Store
  <2>2. PICK at \in {"dashboard", "idle"} : reportAt' = [reportAt EXCEPT ![e] = at]
    BY <1>6 DEF Finalize
  <2>3. Published(identity[e])
    BY <1>1, <2>1 DEF HasItsBuild
  <2>4. at \in ReportStages /\ \A f \in staged' : f # e
    BY <1>2, <2>1, <2>2 DEF ReportStages
  <2> QED BY <1>3, <2>1, <2>2, <2>3, <2>4, EngineGoesOn
<1>7. CASE CheckDashboard(e)
  <2>1. reportAt[e] = "dashboard"
    BY <1>7 DEF CheckDashboard
  <2>2. Published(identity[e])
    BY <1>1, <2>1 DEF HasItsBuild
  <2>3. CASE /\ identity[e] \in dashboards /\ UNCHANGED staged
             /\ reportAt' = [reportAt EXCEPT ![e] = "verify"]
    <3>1. "verify" \in ReportStages /\ \A f \in staged' : f # e
      BY <1>2, <2>1, <2>3 DEF ReportStages
    <3> QED BY <1>3, <2>1, <2>2, <2>3, <3>1, EngineGoesOn
  <2>4. CASE /\ reportAt' = [reportAt EXCEPT ![e] = "publish dashboard"]
             /\ staged' = staged \cup {e}
    <3>1. "publish dashboard" \in ReportStages
      BY DEF ReportStages
    <3> QED BY <1>3, <2>2, <2>4, <3>1, EngineGoesOn
  <2> QED BY <1>7, <2>3, <2>4 DEF CheckDashboard
<1>8. CASE VerifyBuild(e)
  <2>1. reportAt[e] = "verify" /\ UNCHANGED staged
    BY <1>8 DEF VerifyBuild, Store
  <2>2. PICK at \in {"reported", "idle"} : reportAt' = [reportAt EXCEPT ![e] = at]
    BY <1>8 DEF VerifyBuild
  <2>3. Published(identity[e]) /\ identity[e] \in dashboards
    BY <1>1, <2>1 DEF HasItsBuild
  <2>4. at \in ReportStages /\ \A f \in staged' : f # e
    BY <1>2, <2>1, <2>2 DEF ReportStages
  <2> QED BY <1>3, <2>1, <2>2, <2>3, <2>4, EngineGoesOn
<1>9. CASE EndReport(e)
  <2>1. reportAt[e] = "reported" /\ UNCHANGED staged /\ reportAt' = [reportAt EXCEPT ![e] = "idle"]
    BY <1>9 DEF EndReport, ReportStep, Store
  <2>2. "idle" \in ReportStages /\ \A f \in staged' : f # e
    BY <1>2, <2>1 DEF ReportStages
  <2> QED BY <1>3, <2>1, <2>2, EngineGoesOn
<1>10. CASE ReportFault(e)
  <2>1. CASE reportAt' = [reportAt EXCEPT ![e] = "idle"] /\ staged' = staged \ {e}
    BY <1>3, <2>1, EngineGoesOn DEF ReportStages
  <2>2. CASE reportAt' = [reportAt EXCEPT ![e] = "killed"] /\ UNCHANGED staged
    BY <1>3, <2>2, EngineGoesOn DEF ReportStages
  <2> QED BY <1>10, <2>1, <2>2 DEF ReportFault
<1> QED BY <1>4, <1>5, <1>6, <1>7, <1>8, <1>9, <1>10

(* The three writes to what readers see.                                     *)
LEMMA PublishBuildKeeps ==
  ASSUME ReportInv, NEW e \in Engines, Publish(e)
  PROVE  ReportInv'
<1>1. ReportTypeOK /\ ReadsTheFinishedRun(e) /\ HasItsBuild(e) /\ DerivedStoreIsConsistent
  BY DEF ReportInv
<1>2. /\ reportAt[e] = "publish" /\ staged' = staged \ {e}
      /\ UNCHANGED <<sourceRun, model, identity, latestBuild, dashboards>>
  BY DEF Publish
<1>3. CASE reportAt' = [reportAt EXCEPT ![e] = "idle"] /\ UNCHANGED builds
  BY <1>2, <1>3, EngineGoesOn DEF ReportStages
<1>4. CASE /\ ~Published(identity[e]) /\ reportAt' = [reportAt EXCEPT ![e] = "latest"]
           /\ builds' = builds \cup {[identity |-> identity[e], model |-> model[e]]}
  <2> PICK new : new = [identity |-> identity[e], model |-> model[e]]
    OBVIOUS
  <2>1. new.identity = identity[e] /\ new.model = model[e] /\ builds' = builds \union {new}
    BY <1>4
  <2>2. ReportTypeOK' /\ EngineMoves(e)
    BY <1>1, <1>2, <1>4 DEF ReportTypeOK, EngineMoves, ReportStages
  <2>3. ReadsTheFinishedRun(e)'
    BY <1>1, <1>2, <1>4 DEF ReportTypeOK, ReadsTheFinishedRun
  <2>4. HasItsBuild(e)'
    BY <1>1, <1>2, <1>4, <2>1 DEF ReportTypeOK, HasItsBuild, Published
  <2>5. CompleteReportsAreComplete'
    <3>1. model[e].complete =>
            /\ identity[e].final = FinalOf(identity[e].scope)
            /\ sourceRun.at = "final"
            /\ model[e].episodes = sourceRun.episodes
            /\ identity[e].episodes = sourceRun.episodes
      BY <1>1, <1>2 DEF ReadsTheFinishedRun
    <3>2. CompleteReportsAreComplete
      BY DEF ReportInv
    <3> QED BY <1>2, <2>1, <3>1, <3>2 DEF CompleteReportsAreComplete, FinalOf
  <2>6. DerivedStoreIsConsistent'
    <3>1. \A b \in builds : b.identity # new.identity
      BY <1>4, <2>1 DEF Published
    <3>2. \A b, c \in builds' : b.identity = c.identity => b = c
      BY <1>1, <2>1, <3>1 DEF DerivedStoreIsConsistent
    <3>3. (latestBuild \cup dashboards)' \subseteq {b.identity : b \in builds'}
      BY <1>1, <1>2, <2>1 DEF DerivedStoreIsConsistent
    <3>4. \A f \in staged' : reportAt'[f] \in {"publish", "publish dashboard", "killed"}
      BY <1>1, <1>2, <1>4 DEF ReportTypeOK, DerivedStoreIsConsistent
    <3> QED BY <3>2, <3>3, <3>4 DEF DerivedStoreIsConsistent
  <2> QED BY <2>2, <2>3, <2>4, <2>5, <2>6, EngineMovesKeeps
<1> QED BY <1>3, <1>4 DEF Publish

LEMMA PointingKeeps ==
  ASSUME ReportInv, NEW e \in Engines, PointLatest(e) \/ PublishDashboard(e)
  PROVE  ReportInv'
<1>1. ReportTypeOK /\ ReadsTheFinishedRun(e) /\ HasItsBuild(e) /\ DerivedStoreIsConsistent
  BY DEF ReportInv
<1>2. /\ UNCHANGED <<sourceRun, model, identity, builds>>
      /\ staged' \subseteq staged
      /\ e \notin staged'
      /\ latestBuild' \cup dashboards' \subseteq latestBuild \cup dashboards \cup {identity[e]}
      /\ dashboards \subseteq dashboards'
      /\ reportAt[e] \in {"latest", "publish dashboard"}
  BY <1>1 DEF PointLatest, PublishDashboard, ReportStep, DerivedStoreIsConsistent
<1>3. PICK at \in {"finalize", "idle", "verify"} :
        /\ reportAt' = [reportAt EXCEPT ![e] = at]
        /\ at = "verify" => identity[e] \in dashboards'
  BY DEF PointLatest, PublishDashboard, ReportStep
<1>4. Published(identity[e])
  BY <1>1, <1>2 DEF HasItsBuild
<1>5. ReportTypeOK' /\ EngineMoves(e)
  BY <1>1, <1>2, <1>3 DEF ReportTypeOK, EngineMoves, ReportStages
<1>6. ReadsTheFinishedRun(e)'
  BY <1>1, <1>2, <1>3 DEF ReportTypeOK, ReadsTheFinishedRun
<1>7. HasItsBuild(e)'
  BY <1>1, <1>2, <1>3, <1>4 DEF ReportTypeOK, HasItsBuild, Published
<1>8. CompleteReportsAreComplete'
  BY <1>2 DEF ReportInv, CompleteReportsAreComplete
<1>9. DerivedStoreIsConsistent'
  <2>1. (latestBuild \cup dashboards)' \subseteq {b.identity : b \in builds'}
    BY <1>1, <1>2, <1>4 DEF DerivedStoreIsConsistent, Published
  <2>2. \A f \in staged' : reportAt'[f] \in {"publish", "publish dashboard", "killed"}
    BY <1>1, <1>2, <1>3 DEF ReportTypeOK, DerivedStoreIsConsistent
  <2>3. \A b, c \in builds' : b.identity = c.identity => b = c
    BY <1>1, <1>2 DEF DerivedStoreIsConsistent
  <2> QED BY <2>1, <2>2, <2>3 DEF DerivedStoreIsConsistent
<1> QED BY <1>5, <1>6, <1>7, <1>8, <1>9, EngineMovesKeeps

LEMMA ReportInvKept == ReportInv /\ [DerivedReportsNext]_reportVars => ReportInv'
<1> SUFFICES ASSUME ReportInv, [DerivedReportsNext]_reportVars PROVE ReportInv'
  OBVIOUS
<1>1. CASE UNCHANGED reportVars
  BY <1>1
  DEF reportVars, ReportInv, ReportTypeOK, ReadsTheFinishedRun, HasItsBuild, Published,
      CompleteReportsAreComplete, DerivedStoreIsConsistent
<1>2. CASE DerivedReportsNext
  BY <1>2, SourceStepKeeps, ReadingKeeps, GeneratingKeeps, PublishBuildKeeps, PointingKeeps
  DEF DerivedReportsNext
<1> QED BY <1>1, <1>2

\* Any number of engines beside the evaluation, failing or killed anywhere: a
\* report marked complete shows the finished run and is named by its checksums,
\* an identity has one build, and what generate returned is published with its
\* dashboard (derived.py, interactive.py).
THEOREM ReportsAlwaysHold == DerivedReportsSpec => []ReportsHold
<1>1. ReportInv => ReportsHold
  BY DEF ReportInv, HasItsBuild, ReportsHold, ReportedIsPublished
<1> QED BY <1>1, ReportInvInitially, ReportInvKept, PTL DEF DerivedReportsSpec

(* The builds and their dashboards implement PublicationRegistry.            *)

Builds == {<<b.identity, b.model>> : b \in builds}
Dashboards == {<<i, i>> : i \in dashboards}

LEMMA BuildStep ==
  ASSUME ReportInv, DerivedReportsNext
  PROVE  [BuildRegistry!RegistryNext]_(BuildRegistry!registryVars)
<1> SUFFICES \/ Builds' = Builds /\ Dashboards' = Dashboards
             \/ /\ \E i \in ReportIdentities, m \in ReportModels :
                     (\A p \in Builds : p[1] # i) /\ Builds' = Builds \union {<<i, m>>}
                /\ Dashboards' = Dashboards
             \/ /\ \E i \in ReportIdentities :
                     /\ \E p \in Builds : p[1] = i
                     /\ \A p \in Dashboards : p[1] # i
                     /\ Dashboards' = Dashboards \union {<<i, i>>}
                /\ Builds' = Builds
  BY DEF BuildRegistry!RegistryNext, BuildRegistry!PublishEntry, BuildRegistry!Rely,
         BuildRegistry!registryVars, Builds, Dashboards
<1>1. ASSUME NEW e \in Engines, Publish(e), UNCHANGED builds \/ ~Published(identity[e])
      PROVE  \/ UNCHANGED <<builds, dashboards>>
             \/ /\ \E i \in ReportIdentities, m \in ReportModels :
                     (\A p \in Builds : p[1] # i) /\ Builds' = Builds \union {<<i, m>>}
                /\ Dashboards' = Dashboards
  <2> SUFFICES ASSUME ~UNCHANGED builds
               PROVE  /\ \E i \in ReportIdentities, m \in ReportModels :
                           (\A p \in Builds : p[1] # i) /\ Builds' = Builds \union {<<i, m>>}
                      /\ Dashboards' = Dashboards
    BY <1>1 DEF Publish
  <2> PICK new : new = [identity |-> identity[e], model |-> model[e]]
    OBVIOUS
  <2>1. /\ ~Published(identity[e]) /\ builds' = builds \union {new}
        /\ new.identity = identity[e] /\ new.model = model[e] /\ dashboards' = dashboards
    BY <1>1 DEF Publish
  <2>2. identity[e] \in ReportIdentities /\ model[e] \in ReportModels
    BY DEF ReportInv, ReportTypeOK
  <2>3. \A p \in Builds : p[1] # identity[e]
    BY <2>1 DEF Builds, Published
  <2>4. Builds' = Builds \union {<<identity[e], model[e]>>}
    BY <2>1 DEF Builds
  <2> QED BY <2>1, <2>2, <2>3, <2>4 DEF Dashboards
<1>2. ASSUME NEW e \in Engines, PublishDashboard(e)
      PROVE  \/ UNCHANGED <<builds, dashboards>>
             \/ /\ \E i \in ReportIdentities :
                     /\ \E p \in Builds : p[1] = i
                     /\ \A p \in Dashboards : p[1] # i
                     /\ Dashboards' = Dashboards \union {<<i, i>>}
                /\ Builds' = Builds
  <2>1. /\ reportAt[e] = "publish dashboard" /\ builds' = builds
        /\ dashboards' = dashboards \union {identity[e]}
    BY <1>2 DEF PublishDashboard
  <2>2. identity[e] \in ReportIdentities /\ Published(identity[e])
    BY <2>1 DEF ReportInv, ReportTypeOK, HasItsBuild
  <2>3. CASE identity[e] \in dashboards
    BY <2>1, <2>3
  <2>4. CASE identity[e] \notin dashboards
    <3>1. \E p \in Builds : p[1] = identity[e]
      <4>1. PICK b \in builds : b.identity = identity[e]
        BY <2>2 DEF Published
      <4>2. <<b.identity, b.model>> \in Builds /\ <<b.identity, b.model>>[1] = identity[e]
        BY <4>1 DEF Builds
      <4> QED BY <4>2, Zenon
    <3>2. \A p \in Dashboards : p[1] # identity[e]
      BY <2>4 DEF Dashboards
    <3>3. Dashboards' = Dashboards \union {<<identity[e], identity[e]>>}
      BY <2>1 DEF Dashboards
    <3> QED BY <2>1, <2>2, <3>1, <3>2, <3>3 DEF Builds
  <2> QED BY <2>3, <2>4
<1>3. \/ UNCHANGED <<builds, dashboards>>
      \/ \E e \in Engines : Publish(e) \/ PublishDashboard(e)
  BY DEF DerivedReportsNext, SourceStep, ReadFinalManifest, ReadEpisodes, ReadInputs, Reuse, Stage,
         PointLatest, Finalize, CheckDashboard, VerifyBuild, EndReport, ReportFault, Store
<1>4. \A e \in Engines : Publish(e) => UNCHANGED builds \/ ~Published(identity[e])
  BY DEF Publish
<1>5. UNCHANGED <<builds, dashboards>> => Builds' = Builds /\ Dashboards' = Dashboards
  BY DEF Builds, Dashboards
<1> QED BY <1>1, <1>2, <1>3, <1>4, <1>5

\* Also where engines that read the run at different moments meet at one
\* identity, or are killed: what a build shows never changes, and a dashboard is
\* published after the build it is made of (derived.py, interactive.py).
THEOREM BuildsAreARegistry == DerivedReportsSpec => BuildsImplementRegistry
<1>1. DerivedReportsInit => BuildRegistry!RegistryInit
  BY DEF DerivedReportsInit, BuildRegistry!RegistryInit
<1>2. ReportInv /\ [DerivedReportsNext]_reportVars =>
        [BuildRegistry!RegistryNext]_(BuildRegistry!registryVars)
  <2>1. ASSUME UNCHANGED reportVars PROVE UNCHANGED BuildRegistry!registryVars
    BY <2>1 DEF reportVars, BuildRegistry!registryVars
  <2> QED BY <2>1, BuildStep
<1> QED BY <1>1, <1>2, ReportInvInitially, ReportInvKept, PTL
        DEF DerivedReportsSpec, BuildsImplementRegistry, BuildRegistry!RegistrySpec

-----------------------------------------------------------------------------
(* Derived exports, for every number of commands, names, exports and faults, *)
(* over any finite set of runs.                                              *)

Midway == {"replace", "restore", "killed midway"}
ExportStates == {"idle", "publish", "place", "aside", "exported", "killed"} \cup Midway
RunStates == {"active", "completed", "failed"}

ExportTypeOK ==
  /\ runStatus \in [ExportRuns -> RunStates]
  /\ exportAt \in [Exporters -> ExportStates]
  /\ DOMAIN exporting = Exporters
  /\ DOMAIN exports = Exports
  /\ exportStages \subseteq Exporters

\* The runs of an export: finished and, in a group, completed and comparable.
Comparable(x) ==
  /\ x.runs # {} /\ x.runs \subseteq ExportRuns
  /\ \A r \in x.runs : runStatus[r] # "active"
  /\ IsolatedOf[x.name] = {} =>
       /\ \A r \in x.runs : runStatus[r] = "completed"
       /\ \A r, q \in x.runs : SuiteOf[r] = SuiteOf[q] /\ SchemaOf[r] = SchemaOf[q]

\* What a command publishes is comparable from the selection on, and a command
\* between the two renames, killed or not, has the old export aside.
HoldsItsExport(e) ==
  /\ exportAt[e] \in {"publish", "place", "aside", "replace", "restore"} =>
       Comparable(exporting[e]) /\ exporting[e].name \in Exports
  /\ exportAt[e] \in Midway => \E a \in asides : a.by = e
  /\ e \in exportStages => exportAt[e] \notin {"idle", "exported"}

\* An aside belongs to the command that is between the renames, unless nobody
\* looks for it.
AsideFits(a) ==
  /\ a = [by |-> a.by, content |-> a.content] /\ Comparable(a.content)
  /\ a.by # "nobody" =>
       a.by \in Exporters /\ exportAt[a.by] \in Midway /\ a.content.name = exporting[a.by].name

DirectoryHolds(n) == \A x \in exports[n] : Comparable(x) /\ x.name = n

\* A name that was published is there or between two renames.
NameStays(n) ==
  exports[n] = {} => \E e \in Exporters : exportAt[e] \in Midway /\ exporting[e].name = n

ExportInv ==
  /\ ExportTypeOK
  /\ \A e \in Exporters : HoldsItsExport(e)
  /\ \A a \in asides : AsideFits(a)
  /\ \A n \in Exports : DirectoryHolds(n)
  /\ \A n \in exportedOnce : n \in Exports /\ NameStays(n)

LEMMA ExportInvInitially == DerivedExportsInit => ExportInv
<1> SUFFICES ASSUME DerivedExportsInit PROVE ExportInv
  OBVIOUS
<1>1. ExportTypeOK
  BY DEF DerivedExportsInit, ExportTypeOK, ExportStates, RunStates
<1>2. \A e \in Exporters : HoldsItsExport(e)
  BY DEF DerivedExportsInit, HoldsItsExport, Midway
<1>3. \A n \in Exports : DirectoryHolds(n)
  BY DEF DerivedExportsInit, DirectoryHolds
<1> QED BY <1>1, <1>2, <1>3 DEF DerivedExportsInit, ExportInv

(* What a selection holds is finished, and of one suite and schema: a set with *)
(* at most one element has no two different ones.                             *)
LEMMA AtMostOne ==
  ASSUME NEW S, IsFiniteSet(S), Cardinality(S) <= 1, NEW x \in S, NEW y \in S
  PROVE  x = y
<1> SUFFICES ASSUME x # y PROVE FALSE
  OBVIOUS
<1> PICK T : T = {x}
  OBVIOUS
<1>1. IsFiniteSet(T) /\ Cardinality(T) = 1
  BY FS_Singleton
<1>2. IsFiniteSet(T \union {y}) /\ Cardinality(T \union {y}) = 2
  <2>1. y \notin T
    OBVIOUS
  <2>2. Cardinality(T \union {y}) = IF y \in T THEN Cardinality(T) ELSE Cardinality(T) + 1
    BY <1>1, FS_AddElement
  <2> QED BY SMTT(30), <1>1, <2>1, <2>2, FS_AddElement
<1>3. T \union {y} \in SUBSET S
  OBVIOUS
<1>4. Cardinality(T \union {y}) <= Cardinality(S)
  BY <1>3, FS_Subset
<1>5. Cardinality(S) \in Nat
  BY FS_CardinalityType
<1> QED BY <1>2, <1>4, <1>5

LEMMA OneKindIsAgreed ==
  ASSUME NEW chosen \in SUBSET ExportRuns,
         Cardinality({<<SuiteOf[r], SchemaOf[r]>> : r \in chosen}) <= 1
  PROVE  \A r, q \in chosen : SuiteOf[r] = SuiteOf[q] /\ SchemaOf[r] = SchemaOf[q]
<1> PICK kinds : kinds = {<<SuiteOf[r], SchemaOf[r]>> : r \in chosen}
  OBVIOUS
<1> DEFINE kind == [r \in chosen |-> <<SuiteOf[r], SchemaOf[r]>>]
<1>1. IsFiniteSet(chosen)
  BY ExportAssumption, FS_Subset
<1>2. kind \in Surjection(chosen, kinds)
  BY DEF Surjection
<1>3. IsFiniteSet(kinds) /\ Cardinality(kinds) <= 1
  BY <1>1, <1>2, FS_Surjection
<1>4. \A r, q \in chosen : <<SuiteOf[r], SchemaOf[r]>> = <<SuiteOf[q], SchemaOf[q]>>
  <2> TAKE r \in chosen, q \in chosen
  <2>1. <<SuiteOf[r], SchemaOf[r]>> \in kinds /\ <<SuiteOf[q], SchemaOf[q]>> \in kinds
    OBVIOUS
  <2>2. \A a, b \in kinds : a = b
    BY <1>3, AtMostOne
  <2> QED BY <2>1, <2>2
<1> QED BY <1>4

LEMMA SelectedIsComparable ==
  ASSUME NEW mode, NEW picked \in SUBSET ExportRuns, NEW suites,
         NEW x, x.runs = Selected(mode, picked, suites), x.runs # {}
  PROVE  Comparable(x)
<1> DEFINE meant == CASE mode = "manual" -> picked
                      [] mode = "same-model" ->
                           {r \in ExportRuns : \E q \in picked : ModelOf[r] = ModelOf[q]}
                      [] OTHER -> ExportRuns
           chosen == {r \in meant : runStatus[r] = "completed" /\ SuiteOf[r] \in suites}
<1>1. meant \subseteq ExportRuns
  OBVIOUS
<1>2. /\ x.runs = chosen
      /\ Cardinality({<<SuiteOf[r], SchemaOf[r]>> : r \in chosen}) <= 1
  BY DEF Selected
<1>3. chosen \in SUBSET ExportRuns
  BY <1>1
<1>4. \A r, q \in chosen : SuiteOf[r] = SuiteOf[q] /\ SchemaOf[r] = SchemaOf[q]
  <2> HIDE DEF chosen
  <2> QED BY <1>2, <1>3, OneKindIsAgreed
<1>5. \A r \in chosen : runStatus[r] = "completed"
  OBVIOUS
<1> HIDE DEF chosen
<1> QED BY <1>2, <1>3, <1>4, <1>5 DEF Comparable

(* A run that finishes keeps what is exported comparable.                     *)
LEMMA RunFinishedKeeps ==
  ASSUME ExportInv, NEW r \in ExportRuns, NEW s \in {"completed", "failed"}, RunFinished(r, s)
  PROVE  ExportInv'
<1>1. ExportTypeOK
  BY DEF ExportInv
<1>2. /\ UNCHANGED <<exportAt, exporting, exports, asides, exportStages, exportedOnce>>
      /\ runStatus' \in [ExportRuns -> RunStates]
      /\ \A q \in ExportRuns : runStatus[q] # "active" => runStatus'[q] = runStatus[q]
  BY <1>1 DEF RunFinished, Directories, ExportTypeOK, RunStates
<1>3. \A x : Comparable(x) => Comparable(x)'
  BY <1>2 DEF Comparable
<1>4. ExportTypeOK'
  BY <1>1, <1>2 DEF ExportTypeOK
<1>5. \A e \in Exporters : HoldsItsExport(e)'
  <2> TAKE e \in Exporters
  <2>1. HoldsItsExport(e) /\ (Comparable(exporting[e]) => Comparable(exporting[e])')
    <3>1. exporting'[e] = exporting[e]
      BY <1>2
    <3> QED BY <1>2, <1>3, <3>1 DEF ExportInv, Comparable
  <2> QED BY <1>2, <2>1 DEF HoldsItsExport
<1>6. \A a \in asides' : AsideFits(a)'
  <2> TAKE a \in asides'
  <2>1. AsideFits(a) /\ (Comparable(a.content) => Comparable(a.content)')
    BY <1>2, <1>3 DEF ExportInv
  <2> QED BY <1>2, <2>1 DEF AsideFits
<1>7. \A n \in Exports : DirectoryHolds(n)'
  <2> TAKE n \in Exports
  <2>1. DirectoryHolds(n)
    BY DEF ExportInv
  <2> QED BY <1>2, <1>3, <2>1 DEF DirectoryHolds
<1>8. \A n \in exportedOnce' : n \in Exports /\ NameStays(n)'
  BY <1>2 DEF ExportInv, NameStays
<1> QED BY <1>4, <1>5, <1>6, <1>7, <1>8 DEF ExportInv

\* A step of one command: the others stand where they are, with what they hold.
ExporterMoves(e) ==
  /\ UNCHANGED runStatus
  /\ \A f \in Exporters \ {e} : exportAt'[f] = exportAt[f] /\ exporting'[f] = exporting[f]
  /\ exportStages' \ {e} = exportStages \ {e}

LEMMA ComparableStands ==
  ASSUME UNCHANGED runStatus, NEW x, Comparable(x)
  PROVE  Comparable(x)'
BY DEF Comparable

(* A step that leaves the directories alone.                                 *)
LEMMA StandingKeeps ==
  ASSUME ExportInv, NEW e \in Exporters, ExporterMoves(e),
         UNCHANGED <<exports, asides, exportedOnce>>,
         exportAt[e] \in Midway <=> exportAt'[e] \in Midway,
         exportAt[e] \in Midway => exporting'[e] = exporting[e],
         ExportTypeOK', HoldsItsExport(e)'
  PROVE  ExportInv'
<1>1. \A f \in Exporters : HoldsItsExport(f)'
  <2> TAKE f \in Exporters
  <2>1. CASE f # e
    <3>1. HoldsItsExport(f) /\ exportAt'[f] = exportAt[f] /\ exporting'[f] = exporting[f]
      BY <2>1 DEF ExportInv, ExporterMoves
    <3>2. f \in exportStages' => f \in exportStages
      BY <2>1 DEF ExporterMoves
    <3>3. Comparable(exporting[f]) => Comparable(exporting[f])'
      BY <3>1 DEF ExporterMoves, Comparable
    <3> QED BY <3>1, <3>2, <3>3 DEF HoldsItsExport
  <2> QED BY <2>1
<1>2. \A f \in Exporters : exportAt[f] \in Midway =>
        exportAt'[f] \in Midway /\ exporting'[f] = exporting[f]
  BY DEF ExporterMoves
<1>3. \A a \in asides' : AsideFits(a)'
  <2> TAKE a \in asides'
  <2>1. AsideFits(a)
    BY DEF ExportInv
  <2>2. Comparable(a.content)'
    BY <2>1, ComparableStands DEF AsideFits, ExporterMoves
  <2> QED BY <1>2, <2>1, <2>2 DEF AsideFits
<1>4. \A n \in Exports : DirectoryHolds(n)'
  <2> TAKE n \in Exports
  <2>1. \A x \in exports[n] : Comparable(x) /\ x.name = n
    BY DEF ExportInv, DirectoryHolds
  <2>2. \A x \in exports[n] : Comparable(x)'
    BY <2>1, ComparableStands DEF ExporterMoves
  <2> QED BY <2>1, <2>2 DEF DirectoryHolds
<1>5. \A n \in exportedOnce' : n \in Exports /\ NameStays(n)'
  BY <1>2 DEF ExportInv, NameStays
<1> QED BY <1>1, <1>3, <1>4, <1>5 DEF ExportInv

(* A step that writes the directory of its name: afterwards there is one, or *)
(* the command is between the renames; the asides of others stay.            *)
ExporterWrites(e) ==
  /\ ExporterMoves(e)
  /\ exporting' = exporting /\ Name(e) \in Exports
  /\ \A n \in Exports \ {Name(e)} : exports'[n] = exports[n]
  /\ exports'[Name(e)] # {} \/ exportAt'[e] \in Midway
  /\ exportedOnce' \subseteq exportedOnce \cup {Name(e)}
  /\ \A a \in asides : a.by # e => a \in asides'

LEMMA WritingKeeps ==
  ASSUME ExportInv, NEW e \in Exporters, ExporterWrites(e), ExportTypeOK', HoldsItsExport(e)',
         DirectoryHolds(Name(e))',
         \A a \in asides' : (a \in asides /\ a.by # e) \/ AsideFits(a)'
  PROVE  ExportInv'
<1>1. \A f \in Exporters : HoldsItsExport(f)'
  <2> TAKE f \in Exporters
  <2>1. CASE f # e
    <3>1. HoldsItsExport(f) /\ exportAt'[f] = exportAt[f] /\ exporting'[f] = exporting[f]
      BY <2>1 DEF ExportInv, ExporterWrites, ExporterMoves
    <3>2. f \in exportStages' => f \in exportStages
      BY <2>1 DEF ExporterWrites, ExporterMoves
    <3>3. Comparable(exporting[f]) => Comparable(exporting[f])'
      BY <3>1 DEF ExporterWrites, ExporterMoves, Comparable
    <3>4. (\E a \in asides : a.by = f) => \E a \in asides' : a.by = f
      BY <2>1 DEF ExporterWrites
    <3> QED BY <3>1, <3>2, <3>3, <3>4 DEF HoldsItsExport
  <2> QED BY <2>1
<1>2. \A a \in asides' : AsideFits(a)'
  <2> TAKE a \in asides'
  <2>1. CASE a \in asides /\ a.by # e
    <3>1. AsideFits(a)
      BY <2>1 DEF ExportInv
    <3>2. Comparable(a.content)'
      BY <3>1, ComparableStands DEF AsideFits, ExporterWrites, ExporterMoves
    <3> QED BY <2>1, <3>1, <3>2 DEF AsideFits, ExporterWrites, ExporterMoves
  <2> QED BY <2>1
<1>3. \A n \in Exports : DirectoryHolds(n)'
  <2> TAKE n \in Exports
  <2>1. CASE n # Name(e)
    <3>1. exports'[n] = exports[n] /\ \A x \in exports[n] : Comparable(x) /\ x.name = n
      BY <2>1 DEF ExportInv, DirectoryHolds, ExporterWrites
    <3>2. \A x \in exports[n] : Comparable(x)'
      BY <3>1, ComparableStands DEF ExporterWrites, ExporterMoves
    <3> QED BY <3>1, <3>2 DEF DirectoryHolds
  <2>2. CASE n = Name(e)
    BY <2>2 DEF DirectoryHolds, ExporterWrites, Name
  <2> QED BY <2>1, <2>2
<1>4. \A n \in exportedOnce' : n \in Exports /\ NameStays(n)'
  <2> TAKE n \in exportedOnce'
  <2>1. CASE n = Name(e)
    BY <2>1 DEF NameStays, ExporterWrites, Name
  <2>2. CASE n # Name(e)
    <3>1. n \in Exports /\ NameStays(n) /\ exports'[n] = exports[n]
      BY <2>2 DEF ExportInv, ExporterWrites
    <3>2. \A f \in Exporters : exporting[f].name = n => f # e /\ exportAt'[f] = exportAt[f]
      BY <2>2 DEF ExporterWrites, ExporterMoves, Name
    <3> QED BY <3>1, <3>2 DEF NameStays, ExporterWrites
  <2> QED BY <2>1, <2>2
<1> QED BY <1>1, <1>2, <1>3, <1>4 DEF ExportInv

LEMMA BeginExportKeeps ==
  ASSUME ExportInv, NEW e \in Exporters, NEW n \in Exports, NEW runs, NEW scope,
         BeginExport(e, n, runs, scope),
         \A x : (x.runs = runs /\ x.name = n) => Comparable(x)
  PROVE  ExportInv'
<1> PICK x : x = [name |-> n, runs |-> runs, scope |-> scope, by |-> e]
  OBVIOUS
<1>1. x.runs = runs /\ x.name = n
  OBVIOUS
<1>2. /\ exportAt[e] = "idle" /\ exportAt' = [exportAt EXCEPT ![e] = "publish"]
      /\ exporting' = [exporting EXCEPT ![e] = x]
      /\ exportStages' = exportStages \cup {e}
      /\ UNCHANGED <<runStatus, exports, asides, exportedOnce>>
  BY DEF BeginExport
<1>3. ExportTypeOK
  BY DEF ExportInv
<1>4. ExportTypeOK' /\ ExporterMoves(e)
  BY <1>2, <1>3 DEF ExportTypeOK, ExporterMoves, ExportStates
<1>5. exportAt'[e] = "publish" /\ exporting'[e] = x
  BY <1>2, <1>3 DEF ExportTypeOK
<1>6. Comparable(x)'
  BY <1>1, <1>2, ComparableStands
<1>7. Comparable(exporting[e])'
  BY <1>5, <1>6 DEF Comparable
<1>8. HoldsItsExport(e)'
  BY <1>1, <1>5, <1>7 DEF HoldsItsExport, Midway
<1> QED BY <1>2, <1>4, <1>5, <1>8, StandingKeeps DEF Midway

LEMMA GeneratingExportsKeeps ==
  ASSUME ExportInv, NEW e \in Exporters, NEW n \in Exports,
         (\E s \in {"run", "episode"} : GenerateIsolated(e, n, s)) \/ GenerateGrouped(e, n)
  PROVE  ExportInv'
<1>1. ASSUME NEW s \in {"run", "episode"}, GenerateIsolated(e, n, s) PROVE ExportInv'
  <2>1. /\ IsolatedOf[n] # {} /\ IsolatedOf[n] \subseteq ExportRuns
        /\ \A r \in IsolatedOf[n] : runStatus[r] # "active"
        /\ BeginExport(e, n, IsolatedOf[n], s)
    BY <1>1, ExportAssumption DEF GenerateIsolated, Verifies
  <2>2. \A x : (x.runs = IsolatedOf[n] /\ x.name = n) => Comparable(x)
    BY <2>1 DEF Comparable
  <2> QED BY <2>1, <2>2, BeginExportKeeps
<1>2. ASSUME NEW mode, NEW picked \in SUBSET ExportRuns, NEW suites,
             BeginExport(e, n, Selected(mode, picked, suites), "run")
      PROVE  ExportInv'
  <2> PICK runs : runs = Selected(mode, picked, suites)
    OBVIOUS
  <2>1. BeginExport(e, n, runs, "run") /\ runs # {}
    BY <1>2 DEF BeginExport
  <2>2. \A x : (x.runs = runs /\ x.name = n) => Comparable(x)
    BY <2>1, SelectedIsComparable
  <2> QED BY <2>1, <2>2, BeginExportKeeps
<1>3. CASE GenerateGrouped(e, n)
  <2>1. PICK suites \in {{SuiteOf[r]} : r \in ExportRuns} \cup {{SuiteOf[r] : r \in ExportRuns}},
             picked \in (SUBSET ExportRuns) \ {{}} :
          \/ BeginExport(e, n, Selected("manual", picked, suites), "run")
          \/ BeginExport(e, n, Selected("all", picked, suites), "run")
          \/ BeginExport(e, n, Selected("same-model", picked, suites), "run")
    BY <1>3, Zenon DEF GenerateGrouped
  <2>2. picked \in SUBSET ExportRuns
    OBVIOUS
  <2> QED BY <1>2, <2>1, <2>2
<1> QED BY <1>1, <1>3

(* Moving on, failing and being killed without a write to a directory.       *)
LEMMA PassingOnKeeps ==
  ASSUME ExportInv, NEW e \in Exporters, NEW to \in ExportStates, ExportGoes(e, to),
         UNCHANGED <<runStatus, exporting, exports, asides, exportedOnce>>,
         exportStages' \ {e} = exportStages \ {e},
         e \in exportStages' => e \in exportStages /\ to \notin {"idle", "exported"},
         exportAt[e] \in Midway <=> to \in Midway,
         to \in {"publish", "place", "aside", "replace", "restore"} =>
           exportAt[e] \in {"publish", "place", "aside", "replace", "restore"}
  PROVE  ExportInv'
<1>1. ExportTypeOK /\ HoldsItsExport(e)
  BY DEF ExportInv
<1>2. exportAt' = [exportAt EXCEPT ![e] = to] /\ exportAt'[e] = to
  BY <1>1 DEF ExportGoes, ExportTypeOK
<1>3. exportAt' \in [Exporters -> ExportStates] /\ \A f \in Exporters \ {e} : exportAt'[f] = exportAt[f]
  BY <1>1, <1>2 DEF ExportTypeOK
<1>4. exportStages' \subseteq Exporters
  BY <1>1 DEF ExportTypeOK
<1>5. ExportTypeOK'
  BY <1>1, <1>3, <1>4 DEF ExportTypeOK
<1>6. ExporterMoves(e)
  BY <1>3 DEF ExporterMoves
<1>7. Comparable(exporting[e]) => Comparable(exporting[e])'
  BY DEF Comparable
<1>8. HoldsItsExport(e)'
  BY <1>1, <1>2, <1>7 DEF HoldsItsExport
<1> QED BY <1>2, <1>5, <1>6, <1>8, StandingKeeps

LEMMA StayingKeeps ==
  ASSUME ExportInv, NEW e \in Exporters,
         CheckTarget(e) \/ EndExport(e) \/ ExportRaises(e) \/ ExportKilled(e)
  PROVE  ExportInv'
<1>1. /\ UNCHANGED <<runStatus, exporting, exports, asides, exportedOnce>>
      /\ HoldsItsExport(e)
  BY DEF CheckTarget, EndExport, ExportRaises, ExportKilled, Same, Directories, ExportInv
<1>2. CASE CheckTarget(e)
  <2>1. exportAt[e] = "publish" /\ UNCHANGED exportStages
    BY <1>2 DEF CheckTarget, Directories
  <2>2. PICK to \in {"place", "aside"} : ExportGoes(e, to)
    BY <1>2 DEF CheckTarget
  <2>3. to \in ExportStates /\ to \notin Midway /\ exportAt[e] \notin Midway
    BY <2>1 DEF ExportStates, Midway
  <2> QED BY <1>1, <2>1, <2>2, <2>3, PassingOnKeeps
<1>3. CASE EndExport(e)
  <2>1. exportAt[e] = "exported" /\ UNCHANGED exportStages /\ ExportGoes(e, "idle")
    BY <1>3 DEF EndExport, Directories
  <2>2. e \notin exportStages
    BY <1>1, <2>1 DEF HoldsItsExport
  <2>3. "idle" \in ExportStates /\ "idle" \notin Midway /\ exportAt[e] \notin Midway
    BY <2>1 DEF ExportStates, Midway
  <2> QED BY <1>1, <2>1, <2>2, <2>3, PassingOnKeeps
<1>4. CASE exportAt[e] \in {"publish", "place", "aside"} /\ Raised(e)
  <2>1. ExportGoes(e, "idle") /\ exportStages' = exportStages \ {e}
    BY <1>4 DEF Raised
  <2>2. "idle" \in ExportStates /\ "idle" \notin Midway /\ exportAt[e] \notin Midway
    BY <1>4 DEF ExportStates, Midway
  <2> QED BY <1>1, <2>1, <2>2, PassingOnKeeps
<1>5. CASE exportAt[e] = "replace" /\ ExportGoes(e, "restore") /\ UNCHANGED exportStages
  <2>1. "restore" \in ExportStates /\ "restore" \in Midway /\ exportAt[e] \in Midway
    BY <1>5 DEF ExportStates, Midway
  <2> QED BY <1>1, <1>5, <2>1, PassingOnKeeps
<1>6. CASE ExportKilled(e)
  <2>1. UNCHANGED exportStages /\ exportAt[e] \in {"publish", "place", "aside", "replace", "restore"}
    BY <1>6 DEF ExportKilled, Directories
  <2>2. PICK to \in {"killed midway", "killed"} :
          ExportGoes(e, to) /\ (to = "killed midway" <=> exportAt[e] \in {"replace", "restore"})
    BY <1>6 DEF ExportKilled
  <2>3. to \in ExportStates /\ (exportAt[e] \in Midway <=> to \in Midway)
    BY <2>1, <2>2 DEF ExportStates, Midway
  <2> QED BY <1>1, <2>1, <2>2, <2>3, PassingOnKeeps
<1> QED BY <1>2, <1>3, <1>4, <1>5, <1>6 DEF ExportRaises

(* The publication itself.                                                   *)
LEMMA PlacingKeeps ==
  ASSUME ExportInv, NEW e \in Exporters, Place(e), ExportGoes(e, "exported"),
         UNCHANGED <<runStatus, exporting>>,
         exportAt[e] \in {"place", "replace"},
         (asides' = asides /\ exportAt[e] = "place") \/ asides' = {a \in asides : a.by # e}
  PROVE  ExportInv'
<1>1. ExportTypeOK /\ HoldsItsExport(e)
  BY DEF ExportInv
<1>2. /\ exports' = [exports EXCEPT ![Name(e)] = {exporting[e]}]
      /\ exportedOnce' = exportedOnce \cup {Name(e)}
      /\ exportStages' = exportStages \ {e}
      /\ exportAt' = [exportAt EXCEPT ![e] = "exported"]
  BY DEF Place, ExportGoes
<1>3. Comparable(exporting[e]) /\ Name(e) \in Exports
  BY <1>1 DEF HoldsItsExport, Name
<1>4. ExportTypeOK'
  BY <1>1, <1>2 DEF ExportTypeOK, ExportStates
<1>5. exportAt'[e] = "exported" /\ exports'[Name(e)] = {exporting[e]}
  BY <1>1, <1>2, <1>3 DEF ExportTypeOK
<1>6. HoldsItsExport(e)'
  BY <1>2, <1>5 DEF HoldsItsExport, Midway
<1>7. \A a \in asides' : a \in asides /\ a.by # e
  <2>1. CASE asides' = asides /\ exportAt[e] = "place"
    <3>1. \A a \in asides : AsideFits(a)
      BY DEF ExportInv
    <3>2. \A a \in asides : a.by # e
      BY <2>1, <3>1, ExportAssumption DEF AsideFits, Midway
    <3> QED BY <2>1, <3>2
  <2>2. CASE asides' = {a \in asides : a.by # e}
    BY <2>2
  <2> QED BY <2>1, <2>2
<1>8. ExporterWrites(e)
  BY <1>1, <1>2, <1>3, <1>5 DEF ExporterWrites, ExporterMoves, ExportTypeOK
<1>9. DirectoryHolds(Name(e))'
  <2>1. Comparable(exporting[e])'
    BY <1>3 DEF Comparable
  <2>2. Name(e)' = Name(e) /\ exporting'[e] = exporting[e] /\ exporting[e].name = Name(e)
    BY DEF Name
  <2>3. \A x \in exports'[Name(e)] : Comparable(x)' /\ x.name = Name(e)
    BY <1>5, <2>1, <2>2 DEF Comparable
  <2> QED BY <2>2, <2>3 DEF DirectoryHolds
<1> QED BY <1>4, <1>6, <1>7, <1>8, <1>9, WritingKeeps

LEMMA MoveAsideKeeps ==
  ASSUME ExportInv, NEW e \in Exporters, exportAt[e] = "aside",
         exports[Name(e)] # {}, ExportGoes(e, "replace"),
         exports' = [exports EXCEPT ![Name(e)] = {}],
         asides' = asides \cup {[by |-> e, content |-> c] : c \in exports[Name(e)]},
         UNCHANGED <<runStatus, exporting, exportStages, exportedOnce>>
  PROVE  ExportInv'
<1>1. ExportTypeOK /\ HoldsItsExport(e)
  BY DEF ExportInv
<1>2. Comparable(exporting[e]) /\ Name(e) \in Exports
  BY <1>1 DEF HoldsItsExport, Name
<1>3. exportAt' = [exportAt EXCEPT ![e] = "replace"] /\ exportAt'[e] = "replace"
  BY <1>1 DEF ExportGoes, ExportTypeOK
<1>4. ExportTypeOK'
  BY <1>1, <1>2, <1>3 DEF ExportTypeOK, ExportStates, Midway
<1>5. \A c \in exports[Name(e)] : Comparable(c)' /\ c.name = Name(e)
  <2>1. DirectoryHolds(Name(e))
    BY <1>2 DEF ExportInv
  <2> QED BY <2>1, ComparableStands DEF DirectoryHolds
<1>6. \A a \in asides' : (a \in asides /\ a.by # e) \/ AsideFits(a)'
  <2> TAKE a \in asides'
  <2>1. CASE a \in asides
    <3>1. AsideFits(a)
      BY <2>1 DEF ExportInv
    <3>2. a.by # e
      BY <3>1, ExportAssumption DEF AsideFits, Midway
    <3> QED BY <2>1, <3>2
  <2>2. CASE a \notin asides
    <3>1. PICK c \in exports[Name(e)] : a = [by |-> e, content |-> c]
      BY <2>2
    <3>2. a.by = e /\ a.content = c
      BY <3>1
    <3>3. exporting'[e].name = Name(e) /\ exportAt'[e] \in Midway
      BY <1>3 DEF Name, Midway
    <3>4. Comparable(a.content)' /\ a.content.name = exporting'[e].name
      BY <1>5, <3>2, <3>3 DEF Comparable
    <3> QED BY <3>1, <3>2, <3>3, <3>4 DEF AsideFits
  <2> QED BY <2>1, <2>2
<1>7. HoldsItsExport(e)'
  <2>1. PICK c : c \in exports[Name(e)]
    OBVIOUS
  <2>2. [by |-> e, content |-> c] \in asides' /\ [by |-> e, content |-> c].by = e
    BY <2>1
  <2>3. \E a \in asides' : a.by = e
    BY <2>2
  <2>4. Comparable(exporting[e])'
    BY <1>2 DEF Comparable
  <2> QED BY <1>1, <1>3, <2>3, <2>4 DEF HoldsItsExport
<1>8. ExporterWrites(e)
  <2>1. \A n \in Exports \ {Name(e)} : exports'[n] = exports[n]
    BY <1>1 DEF ExportTypeOK
  <2> QED BY <1>1, <1>2, <1>3, <2>1 DEF ExporterWrites, ExporterMoves, ExportTypeOK, Midway
<1>9. DirectoryHolds(Name(e))'
  <2>1. Name(e)' = Name(e) /\ exports'[Name(e)] = {}
    BY <1>1, <1>2 DEF Name, ExportTypeOK
  <2> QED BY <2>1 DEF DirectoryHolds
<1> QED BY <1>4, <1>6, <1>7, <1>8, <1>9, WritingKeeps

\* The old export comes back, or stays aside for nobody.
LEMMA RestoreKeeps ==
  ASSUME ExportInv, NEW e \in Exporters, Restore(e)
  PROVE  ExportInv'
<1>1. ExportTypeOK /\ HoldsItsExport(e)
  BY DEF ExportInv
<1>2. /\ exportAt[e] = "restore" /\ exportAt' = [exportAt EXCEPT ![e] = "idle"]
      /\ exportStages' = exportStages \ {e}
      /\ UNCHANGED <<runStatus, exporting, exportedOnce>>
  BY DEF Restore, Raised, ExportGoes, Same
<1>3. Comparable(exporting[e]) /\ Name(e) \in Exports
  BY <1>1, <1>2 DEF HoldsItsExport, Name
<1>4. exportAt'[e] = "idle" /\ Name(e)' = Name(e)
  BY <1>1, <1>2 DEF ExportTypeOK, Name
<1>5. HoldsItsExport(e)'
  BY <1>2, <1>4 DEF HoldsItsExport, Midway
<1>6. \A a \in asides : a = [by |-> a.by, content |-> a.content] /\ Comparable(a.content)'
  <2> TAKE a \in asides
  <2>1. AsideFits(a)
    BY DEF ExportInv
  <2> QED BY <1>2, <2>1, ComparableStands DEF AsideFits
<1>7. CASE /\ exports[Name(e)] = {}
           /\ exports' = [exports EXCEPT ![Name(e)] = {a.content : a \in {b \in asides : b.by = e}}]
           /\ asides' = {a \in asides : a.by # e}
  <2>1. exports'[Name(e)] = {a.content : a \in {b \in asides : b.by = e}}
    BY <1>1, <1>3, <1>7 DEF ExportTypeOK
  <2>2. \A x \in exports'[Name(e)] : Comparable(x)' /\ x.name = Name(e)
    <3> TAKE x \in exports'[Name(e)]
    <3>1. PICK a \in asides : a.by = e /\ x = a.content
      BY <2>1
    <3>2. AsideFits(a)
      BY <3>1 DEF ExportInv
    <3>3. x.name = Name(e)
      BY <3>1, <3>2, ExportAssumption DEF AsideFits, Name
    <3> QED BY <1>6, <3>1, <3>3
  <2>3. exports'[Name(e)] # {}
    <3>1. PICK a \in asides : a.by = e
      BY <1>1, <1>2 DEF HoldsItsExport, Midway
    <3> QED BY <2>1, <3>1
  <2>4. ExportTypeOK'
    BY <1>1, <1>2, <1>7 DEF ExportTypeOK, ExportStates
  <2>5. ExporterWrites(e)
    BY <1>1, <1>2, <1>3, <1>7, <2>3 DEF ExporterWrites, ExporterMoves, ExportTypeOK
  <2>6. DirectoryHolds(Name(e))'
    BY <1>4, <2>2 DEF DirectoryHolds
  <2> QED BY <1>5, <1>7, <2>4, <2>5, <2>6, WritingKeeps
<1>8. CASE /\ exports[Name(e)] # {} /\ UNCHANGED exports
           /\ asides' = {IF a.by = e THEN [a EXCEPT !.by = "nobody"] ELSE a : a \in asides}
  <2>1. ExportTypeOK'
    BY <1>1, <1>2, <1>8 DEF ExportTypeOK, ExportStates
  <2>2. \A a \in asides : a.by # e => a \in asides'
    BY <1>8
  <2>3. ExporterWrites(e)
    BY <1>1, <1>2, <1>3, <1>8, <2>2 DEF ExporterWrites, ExporterMoves, ExportTypeOK
  <2>4. \A a \in asides' : (a \in asides /\ a.by # e) \/ AsideFits(a)'
    <3> TAKE a \in asides'
    <3>1. PICK b \in asides : a = IF b.by = e THEN [b EXCEPT !.by = "nobody"] ELSE b
      BY <1>8
    <3>2. CASE b.by # e
      BY <3>1, <3>2
    <3>3. CASE b.by = e
      <4>1. a = [by |-> "nobody", content |-> b.content]
        BY <1>6, <3>1, <3>3
      <4>2. a.by = "nobody" /\ a.content = b.content
        BY <4>1
      <4>3. Comparable(a.content)'
        BY <1>6, <4>2
      <4> QED BY <4>1, <4>2, <4>3 DEF AsideFits
    <3> QED BY <3>2, <3>3
  <2>5. DirectoryHolds(Name(e))'
    <3>1. DirectoryHolds(Name(e))
      BY <1>3 DEF ExportInv
    <3>2. \A x \in exports[Name(e)] : Comparable(x)'
      BY <1>2, <3>1, ComparableStands DEF DirectoryHolds
    <3> QED BY <1>4, <1>8, <3>1, <3>2 DEF DirectoryHolds
  <2> QED BY <1>5, <2>1, <2>3, <2>4, <2>5, WritingKeeps
<1> QED BY <1>7, <1>8 DEF Restore

LEMMA PublishingKeeps ==
  ASSUME ExportInv, NEW e \in Exporters, PlaceNew(e) \/ MoveAside(e) \/ ReplaceOld(e)
  PROVE  ExportInv'
<1>1. UNCHANGED <<runStatus, exporting>>
  BY DEF PlaceNew, MoveAside, ReplaceOld, Same
<1>2. CASE /\ exportAt[e] \in {"place", "aside"} /\ Raised(e)
           /\ UNCHANGED <<exports, asides, exportedOnce>>
  <2>1. ExportGoes(e, "idle") /\ exportStages' = exportStages \ {e}
    BY <1>2 DEF Raised
  <2>2. "idle" \in ExportStates /\ "idle" \notin Midway /\ exportAt[e] \notin Midway
    BY <1>2 DEF ExportStates, Midway
  <2> QED BY <1>1, <1>2, <2>1, <2>2, PassingOnKeeps
<1>3. CASE /\ exportAt[e] = "replace" /\ ExportGoes(e, "restore")
           /\ UNCHANGED <<exports, asides, exportedOnce, exportStages>>
  <2>1. "restore" \in ExportStates /\ "restore" \in Midway /\ exportAt[e] \in Midway
    BY <1>3 DEF ExportStates, Midway
  <2> QED BY <1>1, <1>3, <2>1, PassingOnKeeps
<1>4. CASE PlaceNew(e)
  BY <1>1, <1>2, <1>4, PlacingKeeps DEF PlaceNew
<1>5. CASE MoveAside(e)
  BY <1>1, <1>2, <1>5, MoveAsideKeeps DEF MoveAside
<1>6. CASE ReplaceOld(e)
  BY <1>1, <1>3, <1>6, PlacingKeeps DEF ReplaceOld
<1> QED BY <1>4, <1>5, <1>6

LEMMA ExportInvKept == ExportInv /\ [DerivedExportsNext]_exportVars => ExportInv'
<1> SUFFICES ASSUME ExportInv, [DerivedExportsNext]_exportVars PROVE ExportInv'
  OBVIOUS
<1>1. CASE UNCHANGED exportVars
  BY <1>1
  DEF exportVars, ExportInv, ExportTypeOK, HoldsItsExport, AsideFits, DirectoryHolds, NameStays, Comparable
<1>2. CASE DerivedExportsNext
  BY <1>2, RunFinishedKeeps, GeneratingExportsKeeps, StayingKeeps, PublishingKeeps, RestoreKeeps
  DEF DerivedExportsNext
<1> QED BY <1>1, <1>2

\* Commands that publish one name at once, fail or are killed between the two
\* renames: a name that was published is there or aside, no command that ended
\* left a stage, and what is exported is finished and comparable, although runs
\* finish while the commands select (exports.py, _publish and _group_records).
THEOREM ExportsAlwaysHold == DerivedExportsSpec => []ExportsHold
<1>1. ExportInv => PublishedExportsStay
  <2> SUFFICES ASSUME ExportInv PROVE PublishedExportsStay
    OBVIOUS
  <2>1. ASSUME NEW n \in exportedOnce, exports[n] = {}
        PROVE  \E e \in Exporters : /\ exportAt[e] \in {"replace", "restore", "killed midway"}
                                    /\ exporting[e].name = n
                                    /\ \E a \in asides : a.by = e /\ a.content.name = n
    <3>1. PICK e \in Exporters : exportAt[e] \in Midway /\ exporting[e].name = n
      BY <2>1 DEF ExportInv, NameStays
    <3>2. PICK a \in asides : a.by = e
      BY <3>1 DEF ExportInv, HoldsItsExport
    <3>3. a.content.name = n
      BY <3>1, <3>2, ExportAssumption DEF ExportInv, AsideFits
    <3> QED BY <3>1, <3>2, <3>3 DEF Midway
  <2>2. \A e \in exportStages : exportAt[e] \notin {"idle", "exported"}
    BY DEF ExportInv, ExportTypeOK, HoldsItsExport
  <2> QED BY <2>1, <2>2 DEF PublishedExportsStay
<1>2. ExportInv => ExportsAreComparable
  <2> SUFFICES ASSUME ExportInv PROVE ExportsAreComparable
    OBVIOUS
  <2>1. \A n \in Exports : \A x \in exports[n] : Comparable(x)
    BY DEF ExportInv, DirectoryHolds
  <2>2. \A a \in asides : Comparable(a.content)
    BY DEF ExportInv, AsideFits
  <2> QED BY <2>1, <2>2 DEF ExportsAreComparable, Comparable
<1>3. ExportInv => ExportsHold
  BY <1>1, <1>2 DEF ExportsHold
<1> QED BY <1>3, ExportInvInitially, ExportInvKept, PTL DEF DerivedExportsSpec

-----------------------------------------------------------------------------
(* The catalog, for every set of names and every hash function: what a       *)
(* reference resolves to depends on the directories alone, so it is enough   *)
(* that they are finitely many directories below the roots.                  *)

CatalogInv ==
  /\ runDirs \subseteq RunRoots \X Names /\ IsFiniteSet(runDirs)
  /\ artifactDirs \subseteq ArtifactRoots \X Names /\ IsFiniteSet(artifactDirs)

\* One match is taken, none or several never are.
LEMMA OneMatch ==
  ASSUME NEW S, IsFiniteSet(S), \A d \in S : d # Ambiguous /\ d # Nowhere
  PROVE  /\ S = {} => OnlyOne(S) = Nowhere
         /\ \A d : OnlyOne(S) = d /\ d \notin {Nowhere, Ambiguous} => S = {d}
         /\ \A d : S = {d} => OnlyOne(S) = d
         /\ OnlyOne(S) = Ambiguous => \E d, e \in S : d # e
         /\ (\E d, e \in S : d # e) => OnlyOne(S) = Ambiguous
         /\ OnlyOne(S) \in S \union {Nowhere, Ambiguous}
<1>1. Nowhere # Ambiguous
  BY DEF Nowhere, Ambiguous
<1>2. CASE S = {}
  BY <1>1, <1>2 DEF OnlyOne
<1>3. CASE \E x : S = {x}
  <2>1. PICK x : S = {x}
    BY <1>3
  <2>2. Cardinality(S) = 1 /\ S # {} /\ (CHOOSE d \in S : TRUE) = x
    BY <2>1, FS_Singleton
  <2>3. OnlyOne(S) = x
    BY <2>2 DEF OnlyOne
  <2> QED BY <1>1, <2>1, <2>3
<1>4. CASE S # {} /\ ~\E x : S = {x}
  <2>1. Cardinality(S) # 1
    BY <1>4, FS_Singleton
  <2>2. OnlyOne(S) = Ambiguous
    BY <1>4, <2>1 DEF OnlyOne
  <2>3. PICK d \in S : TRUE
    BY <1>4
  <2>4. \E e \in S : d # e
    BY <1>4, <2>3
  <2> QED BY <1>1, <1>4, <2>2, <2>3, <2>4
<1> QED BY <1>2, <1>3, <1>4

MatchesOf(dirs, roots, ref) ==
  IF ref \in Hashes THEN HashMatches(dirs, roots, ref) ELSE ExactMatches(dirs, roots, ref)

LEMMA Resolved ==
  ASSUME NEW D, IsFiniteSet(D), \A d \in D : d[1] # "none", NEW roots, NEW ref
  PROVE  LET S == MatchesOf(D, roots, ref)
             found == ResolveReference(D, roots, ref)
         IN /\ \A d \in D : found = d => S = {d}
            /\ \A d : S = {d} => found = d
            /\ found = Ambiguous => \E d, e \in S : d # e
            /\ \A d \in S : found \in {d, Ambiguous}
            /\ S = {} => found = Nowhere
            /\ (\E d, e \in S : d # e) => found = Ambiguous
<1> DEFINE S == MatchesOf(D, roots, ref)
<1>1. /\ S \subseteq D /\ \A d \in D : d # Ambiguous /\ d # Nowhere
      /\ ResolveReference(D, roots, ref) = OnlyOne(S)
  BY DEF MatchesOf, HashMatches, ExactMatches, Ambiguous, Nowhere, ResolveReference
<1> HIDE DEF S
<1>2. IsFiniteSet(S)
  BY <1>1, FS_Subset
<1>3. /\ S = {} => OnlyOne(S) = Nowhere
      /\ \A d : OnlyOne(S) = d /\ d \notin {Nowhere, Ambiguous} => S = {d}
      /\ \A d : S = {d} => OnlyOne(S) = d
      /\ OnlyOne(S) = Ambiguous => \E d, e \in S : d # e
      /\ (\E d, e \in S : d # e) => OnlyOne(S) = Ambiguous
      /\ OnlyOne(S) \in S \union {Nowhere, Ambiguous}
  BY <1>1, <1>2, OneMatch
<1>4. \A d \in S : OnlyOne(S) \in {d, Ambiguous}
  <2> SUFFICES ASSUME NEW d \in S, OnlyOne(S) # Ambiguous PROVE OnlyOne(S) = d
    OBVIOUS
  <2>1. \A e \in S : e = d
    BY <1>3
  <2>2. S = {d}
    BY <2>1
  <2> QED BY <1>3, <2>2
<1> QED BY <1>1, <1>3, <1>4 DEF S

RootsOf(type) ==
  CASE type = "train" -> {"train", "legacy train"} [] type = "evaluate" -> {"evaluate"} [] OTHER -> RunRoots

LEMMA RunsResolved ==
  ASSUME CatalogInv, NEW D \in SUBSET runDirs, NEW type, NEW ref
  PROVE  LET S == MatchesOf(D, RootsOf(type), ref)
             found == RunTarget(D, type, ref)
         IN /\ \A d \in D : found = d => S = {d}
            /\ found = Ambiguous => \E d, e \in S : d # e
            /\ \A d \in S : found \in {d, Ambiguous}
<1>1. IsFiniteSet(D) /\ \A d \in D : d[1] # "none"
  BY FS_Subset DEF CatalogInv, RunRoots
<1>2. RunTarget(D, type, ref) = ResolveReference(D, RootsOf(type), ref)
  BY DEF RunTarget, RootsOf
<1> QED BY <1>1, <1>2, Resolved

LEMMA RunsFound ==
  ASSUME CatalogInv, NEW type, NEW ref, NEW S, S = MatchesOf(runDirs, RootsOf(type), ref)
  PROVE  /\ RunTarget(runDirs, type, ref) = Ambiguous => \E d, e \in S : d # e
         /\ \A d \in S : RunTarget(runDirs, type, ref) \in {d, Ambiguous}
<1>1. runDirs \in SUBSET runDirs
  OBVIOUS
<1>2. /\ RunTarget(runDirs, type, ref) = Ambiguous =>
           \E d, e \in MatchesOf(runDirs, RootsOf(type), ref) : d # e
      /\ \A d \in MatchesOf(runDirs, RootsOf(type), ref) : RunTarget(runDirs, type, ref) \in {d, Ambiguous}
  BY <1>1, RunsResolved
<1> QED BY <1>2

LEMMA RunsAreListed ==
  ASSUME CatalogInv
  PROVE  /\ \A d \in runDirs : ListedAs(d) \in {d, Ambiguous}
         /\ ListFails => \E d, e \in runDirs : d # e /\ d[2] = e[2]
<1>1. ASSUME NEW d \in runDirs
      PROVE  /\ ListedAs(d) \in {d, Ambiguous}
             /\ ListedAs(d) = Ambiguous => \E c, e \in runDirs : c # e /\ c[2] = e[2]
  <2>0. PICK type : type = CASE d[1] \in {"train", "legacy train"} -> "train"
                             [] d[1] = "evaluate" -> "evaluate"
                             [] OTHER -> "any"
    OBVIOUS
  <2>1. ListedAs(d) = RunTarget(runDirs, type, d[2])
    BY <2>0 DEF ListedAs
  <2>2. d[1] \in RunRoots /\ d[2] \in Names /\ d[2] \notin Hashes
    BY CatalogAssumption DEF CatalogInv
  <2>3. d[1] \in RootsOf(type)
    BY <2>0, <2>2 DEF RootsOf, RunRoots
  <2>4. MatchesOf(runDirs, RootsOf(type), d[2]) = ExactMatches(runDirs, RootsOf(type), d[2])
    BY <2>2 DEF MatchesOf
  <2>5. d \in ExactMatches(runDirs, RootsOf(type), d[2])
    BY <2>3 DEF ExactMatches
  <2>6. \A e \in ExactMatches(runDirs, RootsOf(type), d[2]) : e \in runDirs /\ e[2] = d[2]
    BY DEF ExactMatches
  <2>7. /\ RunTarget(runDirs, type, d[2]) \in {d, Ambiguous}
        /\ RunTarget(runDirs, type, d[2]) = Ambiguous =>
             \E c, e \in ExactMatches(runDirs, RootsOf(type), d[2]) : c # e
    BY <2>4, <2>5, RunsFound
  <2> QED BY <2>1, <2>6, <2>7
<1> QED BY <1>1 DEF ListFails

LEMMA RunHashesAreFaithful ==
  ASSUME CatalogInv, NEW h \in Hashes, NEW d \in runDirs, NEW type, RunTarget(runDirs, type, h) = d,
         NEW e \in runDirs, ShortHash[e[2]] = h, RunTarget({e}, type, h) = e
  PROVE  e = d
<1>1. MatchesOf(runDirs, RootsOf(type), h) = {d}
  BY RunsResolved
<1>2. MatchesOf({e}, RootsOf(type), h) = {e}
  BY RunsResolved
<1>3. e[1] \in RootsOf(type)
  BY <1>2 DEF MatchesOf, HashMatches
<1>4. e \in MatchesOf(runDirs, RootsOf(type), h)
  BY <1>3 DEF MatchesOf, HashMatches
<1> QED BY <1>1, <1>4

\* The ID shown for an artifact selects that very directory.
LEMMA ArtifactsAreListed ==
  ASSUME CatalogInv, NEW d \in artifactDirs
  PROVE  ArtifactTarget(artifactDirs, ShownAsLegacy(artifactDirs, d), d[2]) = d
<1> PICK D : D = artifactDirs
  OBVIOUS
<1>1. /\ IsFiniteSet(D) /\ \A e \in D : e[1] # "none" /\ e[1] \in ArtifactRoots /\ e = <<e[1], e[2]>>
      /\ d \in D /\ d[2] \notin Hashes
  BY CatalogAssumption DEF CatalogInv, ArtifactRoots
<1>2. \A roots : MatchesOf(D, roots, d[2]) = {e \in D : e[1] \in roots /\ e[2] = d[2]}
  BY <1>1 DEF MatchesOf, ExactMatches
<1>3. d # Ambiguous
  BY <1>1 DEF Ambiguous
<1>4. CASE ShownAsLegacy(D, d)
  <2>1. d[1] = "legacy"
    BY <1>4 DEF ShownAsLegacy
  <2>2. MatchesOf(D, {"legacy"}, d[2]) = {d}
    BY <1>1, <1>2, <2>1
  <2>3. ResolveReference(D, {"legacy"}, d[2]) = d
    BY <1>1, <2>2, Resolved
  <2> QED BY <1>3, <1>4, <2>3 DEF ArtifactTarget, ArtifactReference
<1>5. CASE ~ShownAsLegacy(D, d) /\ MatchesOf(D, ArtifactRoots, d[2]) = {d}
  <2>1. ResolveReference(D, ArtifactRoots, d[2]) = d
    BY <1>1, <1>5, Resolved
  <2> QED BY <1>3, <1>5, <2>1 DEF ArtifactTarget, ArtifactReference
<1>6. CASE ~ShownAsLegacy(D, d) /\ MatchesOf(D, ArtifactRoots, d[2]) # {d}
  <2>1. PICK e \in D : e # d /\ e[2] = d[2]
    BY <1>1, <1>2, <1>6
  <2>2. /\ d[1] = "typed" /\ e[1] = "legacy" /\ e = <<"legacy", d[2]>> /\ d = <<"typed", d[2]>>
    BY <1>1, <1>6, <2>1 DEF ShownAsLegacy, ArtifactRoots
  <2>3. /\ {"typed"} \cap ArtifactRoots = {"typed"} /\ {"legacy"} \cap ArtifactRoots = {"legacy"}
    BY DEF ArtifactRoots
  <2>4. MatchesOf(D, {"typed"}, d[2]) = {d} /\ MatchesOf(D, {"legacy"}, d[2]) = {e}
    BY <1>1, <1>2, <2>1, <2>2
  <2>5. ResolveReference(D, {"typed"}, d[2]) = d /\ ResolveReference(D, {"legacy"}, d[2]) = e
    BY <1>1, <2>4, Resolved
  <2>6. d \in MatchesOf(D, ArtifactRoots, d[2]) /\ e \in MatchesOf(D, ArtifactRoots, d[2])
    BY <1>1, <1>2, <2>1
  <2>7. ResolveReference(D, ArtifactRoots, d[2]) = Ambiguous
    BY <1>1, <2>1, <2>6, Resolved
  <2>8. Ambiguous \notin {d, e}
    BY <1>1, <2>1 DEF Ambiguous
  <2> QED BY <1>6, <2>1, <2>3, <2>5, <2>7, <2>8 DEF ArtifactTarget, ArtifactReference
<1> QED BY <1>4, <1>5, <1>6

\* A hash selects an artifact only if all that have it are copies of that one,
\* and then the typed copy.
LEMMA ArtifactHashesAreFaithful ==
  ASSUME CatalogInv, NEW h \in Hashes, NEW d \in artifactDirs, ArtifactTarget(artifactDirs, FALSE, h) = d
  PROVE  /\ \A e \in artifactDirs : ShortHash[e[2]] = h => e[2] = d[2]
         /\ d[1] = "legacy" => <<"typed", d[2]>> \notin artifactDirs
<1> PICK D : D = artifactDirs
  OBVIOUS
<1>1. /\ IsFiniteSet(D) /\ \A e \in D : e[1] # "none" /\ e[1] \in ArtifactRoots /\ e = <<e[1], e[2]>>
      /\ d \in D
  BY DEF CatalogInv, ArtifactRoots
<1>2. \A roots : MatchesOf(D, roots, h) = {e \in D : e[1] \in roots /\ ShortHash[e[2]] = h}
  BY DEF MatchesOf, HashMatches
<1>3. d # Ambiguous /\ d # Nowhere
  BY <1>1 DEF Ambiguous, Nowhere
<1>4. {"typed"} \cap ArtifactRoots = {"typed"} /\ {"legacy"} \cap ArtifactRoots = {"legacy"}
  BY DEF ArtifactRoots
<1> PICK across, typed, legacy :
      /\ across = ResolveReference(D, ArtifactRoots, h)
      /\ typed = ResolveReference(D, {"typed"}, h)
      /\ legacy = ResolveReference(D, {"legacy"}, h)
  OBVIOUS
<1>5. d = IF across # Ambiguous \/ Ambiguous \in {typed, legacy} THEN across
          ELSE IF typed[2] = legacy[2] THEN typed ELSE Ambiguous
  BY <1>4 DEF ArtifactTarget, ArtifactReference
<1>6. CASE across = d
  <2>1. MatchesOf(D, ArtifactRoots, h) = {d}
    <3>1. ResolveReference(D, ArtifactRoots, h) = d
      BY <1>6
    <3>2. \A e \in D : ResolveReference(D, ArtifactRoots, h) = e => MatchesOf(D, ArtifactRoots, h) = {e}
      BY <1>1, Resolved
    <3> QED BY <1>1, <3>1, <3>2
  <2>2. ShortHash[d[2]] = h /\ \A e \in D : ShortHash[e[2]] = h => e = d
    BY <1>1, <1>2, <2>1
  <2>3. <<"typed", d[2]>>[2] = d[2] /\ <<"typed", d[2]>>[1] = "typed"
    OBVIOUS
  <2> QED BY <2>2, <2>3
<1>7. CASE across = Ambiguous /\ Ambiguous \notin {typed, legacy} /\ typed[2] = legacy[2] /\ d = typed
  <2>1. MatchesOf(D, {"typed"}, h) = {d}
    BY <1>1, <1>7, Resolved
  <2>2. d[1] = "typed" /\ \A e \in D : e[1] = "typed" /\ ShortHash[e[2]] = h => e = d
    BY <1>1, <1>2, <2>1
  <2>3. \A e \in D : e[1] = "legacy" /\ ShortHash[e[2]] = h => e = legacy
    <3> SUFFICES ASSUME NEW e \in D, e[1] = "legacy", ShortHash[e[2]] = h PROVE e = legacy
      OBVIOUS
    <3>1. e \in MatchesOf(D, {"legacy"}, h)
      BY <1>2
    <3>2. ResolveReference(D, {"legacy"}, h) \in {e, Ambiguous}
      BY <1>1, <3>1, Resolved
    <3> QED BY <1>7, <3>2
  <2> QED BY <1>1, <1>7, <2>2, <2>3 DEF ArtifactRoots
<1> QED BY <1>3, <1>5, <1>6, <1>7

LEMMA CatalogInvKept ==
  ASSUME CatalogInv, [CatalogNext]_catalogVars
  PROVE  CatalogInv'
<1>1. CASE \E d \in RunRoots \X Names : MakeRun(d)
  <2>1. PICK d \in RunRoots \X Names : MakeRun(d)
    BY <1>1
  <2>2. runDirs' = runDirs \union {d} /\ UNCHANGED artifactDirs
    BY <2>1 DEF MakeRun
  <2> QED BY <2>2, FS_AddElement DEF CatalogInv
<1>2. CASE \E d \in ArtifactRoots \X Names : MakeArtifact(d)
  <2>1. PICK d \in ArtifactRoots \X Names : MakeArtifact(d)
    BY <1>2
  <2>2. artifactDirs' = artifactDirs \union {d} /\ UNCHANGED runDirs
    BY <2>1 DEF MakeArtifact
  <2> QED BY <2>2, FS_AddElement DEF CatalogInv
<1>3. CASE UNCHANGED <<runDirs, artifactDirs>>
  BY <1>3 DEF CatalogInv
<1> QED BY <1>1, <1>2, <1>3 DEF CatalogNext, catalogVars, FillRun

\* The ID a list shows selects that very directory, copies in both layouts
\* included; a list fails only over an ID that exists twice; a short hash
\* selects what no other directory shares it with (run_references.py,
\* data_management.py).
THEOREM ReferencesStayFaithful == CatalogSpec => []ReferencesAreFaithful
<1>1. CatalogInv => ReferencesAreFaithful
  <2> SUFFICES ASSUME CatalogInv PROVE ReferencesAreFaithful
    OBVIOUS
  <2>1. /\ \A d \in artifactDirs :
             ArtifactTarget(artifactDirs, ShownAsLegacy(artifactDirs, d), d[2]) = d
        /\ \A d \in runDirs : ListedAs(d) \in {d, Ambiguous}
        /\ ListFails => \E d, e \in runDirs : d # e /\ d[2] = e[2]
    BY RunsAreListed, ArtifactsAreListed
  <2>2. \A h \in Hashes, d \in runDirs, type \in {"train", "evaluate", "any"} :
          RunTarget(runDirs, type, h) = d =>
            \A e \in runDirs : ShortHash[e[2]] = h /\ RunTarget({e}, type, h) = e => e = d
    BY RunHashesAreFaithful
  <2>3. \A h \in Hashes, d \in artifactDirs :
          ArtifactTarget(artifactDirs, FALSE, h) = d =>
            /\ \A e \in artifactDirs : ShortHash[e[2]] = h => e[2] = d[2]
            /\ d[1] = "legacy" => <<"typed", d[2]>> \notin artifactDirs
    BY ArtifactHashesAreFaithful
  <2> QED BY <2>1, <2>2, <2>3 DEF ReferencesAreFaithful
<1>2. CatalogInit => CatalogInv
  BY FS_EmptySet DEF CatalogInit, CatalogInv
<1> QED BY <1>1, <1>2, CatalogInvKept, PTL DEF CatalogSpec
=============================================================================
