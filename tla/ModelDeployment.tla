--------------------------- MODULE ModelDeployment ---------------------------
(***************************************************************************)
(* model_deployment.py: `ovlab deploy`, `inspect`, `verify` and `stop` of  *)
(* one deployment identity.  Commands share the record deployment.json,    *)
(* the materialized configs directory and the container of that name;      *)
(* deploy and stop hold a lock that a second command does not wait for.    *)
(*                                                                         *)
(* An operation may raise, a command may be interrupted or killed between  *)
(* two steps; the container's process may exit.  Only OVLAB creates or     *)
(* removes a container of this name.                                       *)
(***************************************************************************)
EXTENDS Naturals

CONSTANTS
  Deployers,          \* commands
  DeployConfigs,      \* configuration hashes a deployment may be planned with
  MaxContainers,      \* bound: containers ever created
  MaxDeployFaults     \* bound: raised errors, interrupts and kills together

ASSUME DeployAssumption ==
  /\ "none" \notin DeployConfigs /\ "nobody" \notin Deployers
  /\ MaxContainers \in Nat /\ MaxDeployFaults \in Nat

VARIABLES
  deployAt,     \* where each command is
  order,        \* the operation and configuration of each command
  document,     \* the deployment.json each command has in memory
  deployLock,   \* holder of .<id>.lock
  record,       \* deployment.json
  configs,      \* the configs directory next to it
  container,    \* the container of that name; id 0 if there is none
  created,      \* containers ever created
  faults        \* what is left of the bound

deployVars == <<deployAt, order, document, deployLock, record, configs, container, created, faults>>
deployWorld == <<record, configs, container, created>>

Nobody == "nobody"
NoRecord == [status |-> "none", config |-> "none", id |-> 0]
NoContainer == [id |-> 0, config |-> "none", running |-> FALSE, healthy |-> FALSE]
Stopping == {"inspect", "halt", "remove", "stopped"}
Checking == {"verify", "bundle", "health"}
DeployEnds == {"idle", "done", "raised", "dead"}

DeployInit ==
  /\ deployAt = [p \in Deployers |-> "idle"]
  /\ order = [p \in Deployers |-> "none"]
  /\ document = [p \in Deployers |-> NoRecord]
  /\ deployLock = Nobody
  /\ record = NoRecord
  /\ configs = "none"
  /\ container = NoContainer
  /\ created = 0
  /\ faults = MaxDeployFaults

DeployAt(p, from, to) == deployAt[p] = from /\ deployAt' = [deployAt EXCEPT ![p] = to]
EndDeploy(p, how) ==
  /\ deployAt' = [deployAt EXCEPT ![p] = how]
  /\ deployLock' = IF deployLock = p THEN Nobody ELSE deployLock

\* Mutant: only a running container refuses a deployment.
VacantUnlessRunning == ~container.running

Vacant == container.id = 0

\* deploy: plan, try the lock, refuse where a container of the name exists.
BeginDeploy(p, c) ==
  /\ deployAt[p] = "idle"
  /\ deployLock = Nobody
  /\ order' = [order EXCEPT ![p] = c]
  /\ IF Vacant
     THEN deployAt' = [deployAt EXCEPT ![p] = "resolve"] /\ deployLock' = p
     ELSE EndDeploy(p, "raised")
  /\ UNCHANGED <<document, deployWorld, faults>>

\* stop: a record must exist before the lock is tried.
BeginStop(p) ==
  /\ deployAt[p] = "idle"
  /\ record # NoRecord
  /\ deployLock = Nobody
  /\ deployAt' = [deployAt EXCEPT ![p] = "inspect"]
  /\ deployLock' = p
  /\ UNCHANGED <<order, document, deployWorld, faults>>

\* Refused: another command has the lock, or nothing is deployed.
Refuse(p) ==
  /\ deployAt[p] = "idle"
  /\ deployLock # Nobody \/ record = NoRecord
  /\ deployAt' = [deployAt EXCEPT ![p] = "raised"]
  /\ UNCHANGED <<order, document, deployLock, deployWorld, faults>>

BeginVerify(p) ==
  /\ record # NoRecord
  /\ DeployAt(p, "idle", "verify")
  /\ document' = [document EXCEPT ![p] = record]
  /\ UNCHANGED <<order, deployLock, deployWorld, faults>>

-----------------------------------------------------------------------------
(* _start, under the lock.                                                 *)

\* Image build and contract, checkpoint; the old configs are removed.
ResolveInputs(p) ==
  /\ DeployAt(p, "resolve", "copy")
  /\ configs' = "none"
  /\ UNCHANGED <<order, document, deployLock, record, container, created, faults>>

MaterializeConfigs(p) ==
  /\ DeployAt(p, "copy", "record")
  /\ configs' = order[p]
  /\ UNCHANGED <<order, document, deployLock, record, container, created, faults>>

WriteStarting(p) ==
  /\ DeployAt(p, "record", "run")
  /\ record' = [status |-> "starting", config |-> order[p], id |-> 0]
  /\ document' = [document EXCEPT ![p] = record']
  /\ UNCHANGED <<order, deployLock, configs, container, created, faults>>

\* docker run --detach; what follows it may not run any more.
RunContainer(p) ==
  /\ created < MaxContainers
  /\ DeployAt(p, "run", "wait")
  /\ created' = created + 1
  /\ container' = [id |-> created', config |-> order[p], running |-> TRUE, healthy |-> FALSE]
  /\ UNCHANGED <<order, document, deployLock, record, configs, faults>>

\* docker run fails, with or without leaving a created container behind.
RunFails(p) ==
  /\ created < MaxContainers
  /\ DeployAt(p, "run", "failed")
  /\ \/ UNCHANGED <<container, created>>
     \/ /\ created' = created + 1
        /\ container' = [id |-> created', config |-> order[p], running |-> FALSE, healthy |-> FALSE]
  /\ UNCHANGED <<order, document, deployLock, record, configs, faults>>

BecomeReady(p) ==
  /\ container.running /\ container.healthy
  /\ DeployAt(p, "wait", "ready")
  /\ document' = [document EXCEPT ![p].status = "ready", ![p].id = container.id]
  /\ UNCHANGED <<order, deployLock, deployWorld, faults>>

\* The process ended, or the readiness timeout passed.
NeverReady(p) ==
  /\ ~(container.running /\ container.healthy)
  /\ DeployAt(p, "wait", "cleanup")
  /\ UNCHANGED <<order, document, deployLock, deployWorld, faults>>

WriteReady(p) ==
  /\ deployAt[p] = "ready"
  /\ record' = document[p]
  /\ EndDeploy(p, "done")
  /\ UNCHANGED <<order, document, configs, container, created, faults>>

\* except BaseException: docker rm --force, whose own failure is not looked at.
CleanUp(p) ==
  /\ DeployAt(p, "cleanup", "failed")
  /\ container' \in {NoContainer, container}
  /\ UNCHANGED <<order, document, deployLock, record, configs, created, faults>>

WriteFailed(p) ==
  /\ deployAt[p] = "failed"
  /\ record' = [document[p] EXCEPT !.status = "failed"]
  /\ EndDeploy(p, "raised")
  /\ UNCHANGED <<order, document, configs, container, created, faults>>

-----------------------------------------------------------------------------
(* _stop under the lock, verify without it.                                *)

\* inspect: the container exists, carries the record's configuration hash
\* and, where the record has one, its id.
Matches(rec) ==
  /\ container.id # 0
  /\ container.config = rec.config
  /\ rec.id \in {0, container.id}

InspectToStop(p) ==
  /\ deployAt[p] = "inspect"
  /\ IF Matches(record)
     THEN DeployAt(p, "inspect", "halt") /\ UNCHANGED deployLock
     ELSE EndDeploy(p, "raised")
  /\ document' = [document EXCEPT ![p] = record]
  /\ UNCHANGED <<order, deployWorld, faults>>

StopContainer(p) ==
  /\ DeployAt(p, "halt", "remove")
  /\ container' = [container EXCEPT !.running = FALSE, !.healthy = FALSE]
  /\ UNCHANGED <<order, document, deployLock, record, configs, created, faults>>

RemoveContainer(p) ==
  /\ DeployAt(p, "remove", "stopped")
  /\ container' = NoContainer
  /\ UNCHANGED <<order, document, deployLock, record, configs, created, faults>>

WriteStopped(p) ==
  /\ deployAt[p] = "stopped"
  /\ record' = [document[p] EXCEPT !.status = "stopped"]
  /\ EndDeploy(p, "done")
  /\ UNCHANGED <<order, document, configs, container, created, faults>>

\* inspect, then the running container's image, hash and ports once more.
VerifyContainer(p) ==
  /\ deployAt[p] = "verify"
  /\ deployAt' = [deployAt EXCEPT ![p] =
       IF Matches(document[p]) /\ container.running THEN "bundle" ELSE "raised"]
  /\ UNCHANGED <<order, document, deployLock, deployWorld, faults>>

VerifyBundle(p) ==
  /\ deployAt[p] = "bundle"
  /\ deployAt' = [deployAt EXCEPT ![p] =
       IF configs = document[p].config THEN "health" ELSE "raised"]
  /\ UNCHANGED <<order, document, deployLock, deployWorld, faults>>

VerifyHealth(p) ==
  /\ deployAt[p] = "health"
  /\ deployAt' = [deployAt EXCEPT ![p] =
       IF container.running /\ container.healthy THEN "done" ELSE "raised"]
  /\ UNCHANGED <<order, document, deployLock, deployWorld, faults>>

-----------------------------------------------------------------------------
(* The container and the faults.                                           *)

ServiceAnswers ==
  /\ container.running /\ ~container.healthy
  /\ container' = [container EXCEPT !.healthy = TRUE]
  /\ UNCHANGED <<deployAt, order, document, deployLock, record, configs, created, faults>>

ServiceExits ==
  /\ faults > 0 /\ container.running
  /\ faults' = faults - 1
  /\ container' = [container EXCEPT !.running = FALSE, !.healthy = FALSE]
  /\ UNCHANGED <<deployAt, order, document, deployLock, record, configs, created>>

\* Raised, or interrupted, before the step takes effect.
DeployRaises(p) ==
  /\ faults > 0
  /\ faults' = faults - 1
  /\ \/ /\ deployAt[p] \in {"run", "wait", "ready"}
        /\ deployAt' = [deployAt EXCEPT ![p] = IF @ = "run" THEN "failed" ELSE "cleanup"]
        /\ UNCHANGED deployLock
     \/ /\ deployAt[p] \in {"resolve", "copy", "record", "cleanup", "failed"} \union Stopping
                             \union Checking
        /\ EndDeploy(p, "raised")
  /\ UNCHANGED <<order, document, deployWorld>>

\* The kernel drops the lock of a killed command.
KillDeployer(p) ==
  /\ faults > 0
  /\ faults' = faults - 1
  /\ deployAt[p] \notin DeployEnds
  /\ EndDeploy(p, "dead")
  /\ UNCHANGED <<order, document, deployWorld>>

DeployStep(p) ==
  \/ ResolveInputs(p) \/ MaterializeConfigs(p) \/ WriteStarting(p) \/ RunContainer(p)
  \/ RunFails(p) \/ BecomeReady(p) \/ NeverReady(p) \/ WriteReady(p) \/ CleanUp(p)
  \/ WriteFailed(p) \/ InspectToStop(p) \/ StopContainer(p) \/ RemoveContainer(p)
  \/ WriteStopped(p) \/ VerifyContainer(p) \/ VerifyBundle(p) \/ VerifyHealth(p)

DeployNext ==
  \/ \E p \in Deployers :
       \/ \E c \in DeployConfigs : BeginDeploy(p, c)
       \/ BeginStop(p) \/ Refuse(p) \/ BeginVerify(p)
       \/ DeployStep(p) \/ DeployRaises(p) \/ KillDeployer(p)
  \/ ServiceAnswers \/ ServiceExits

DeploySpec == DeployInit /\ [][DeployNext]_deployVars

-----------------------------------------------------------------------------
(* Properties.                                                             *)

\* No container is ever left that `stop` refuses: whatever raised or died, the
\* record next to an existing container names its configuration and, if any,
\* its id, and the configs it mounts are the ones it was started with.
EveryContainerIsStoppable ==
  container.id # 0 => Matches(record) /\ configs = container.config

\* A record says ready only of the container that was ready, until a stop
\* removed it and did not get to write so; and once a container is gone the
\* next deploy is not refused.
ReadyRecordsHold ==
  /\ record.status = "ready" => record.id # 0 /\ container.id \in {0, record.id}
  /\ record.status = "stopped" => container.id = 0

\* The deployment record and the container agree (model_deployment.py).
RecordsHold == EveryContainerIsStoppable /\ ReadyRecordsHold
=============================================================================
