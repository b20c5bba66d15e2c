---------------------------- MODULE ServiceProcess ----------------------------
(***************************************************************************)
(* process.py: OwnedPolicyServiceProcess, the owner of one local policy    *)
(* service, and serve() of service.py as its owner sees it: the process,   *)
(* the socket file and the permissions the file has.  start polls both,    *)
(* stop waits, sends SIGTERM, sends SIGKILL, and removes the socket.       *)
(* A service asked to close over its socket exits by itself.               *)
(***************************************************************************)
EXTENDS Naturals

CONSTANT MaxOwnerFaults    \* bound: crashes of the service, timeouts, interrupts

VARIABLES
  owner,         \* where the owner is
  service,       \* where the service's process is
  socket,        \* the socket file: "absent", "bound" (not yet 0600), "private"
  refusal,       \* why start raised
  ownerFaults    \* what is left of the bound

ownerVars == <<owner, service, socket, refusal, ownerFaults>>

OwnerInit ==
  /\ owner = "idle"
  /\ service = "none"
  /\ socket = "absent"
  /\ refusal = "none"
  /\ ownerFaults = MaxOwnerFaults

Alive == service \notin {"none", "exited"}
OwnerAt(from, to) == owner = from /\ owner' = to
ServiceAt(from, to) == service = from /\ service' = to

\* start: directories, log, Popen; an existing socket is refused.
StartService ==
  /\ OwnerAt("idle", "poll")
  /\ socket = "absent"
  /\ service' = "initialize"
  /\ UNCHANGED <<socket, refusal, ownerFaults>>

\* One turn of the polling loop that ends it.
SeeReady ==
  /\ service # "exited"
  /\ socket = "private"
  /\ OwnerAt("poll", "started")
  /\ UNCHANGED <<service, socket, refusal, ownerFaults>>

RefuseStart(why) ==
  /\ OwnerAt("poll", "wait")
  /\ refusal' = why
  /\ UNCHANGED <<service, socket, ownerFaults>>

SeeExit == service = "exited" /\ RefuseStart("exited")
SeeMode == service # "exited" /\ socket = "bound" /\ RefuseStart("mode")

SpendOwnerFault == ownerFaults > 0 /\ ownerFaults' = ownerFaults - 1

StartTimesOut ==
  /\ SpendOwnerFault
  /\ OwnerAt("poll", "wait")
  /\ refusal' = "timeout"
  /\ UNCHANGED <<service, socket>>

\* KeyboardInterrupt passes the except clause of start, which is for Exception.
InterruptStart ==
  /\ SpendOwnerFault
  /\ OwnerAt("poll", "interrupted")
  /\ refusal' = "interrupt"
  /\ UNCHANGED <<service, socket>>

StopService ==
  /\ owner \in {"started", "interrupted"}
  /\ owner' = "wait"
  /\ UNCHANGED <<service, socket, refusal, ownerFaults>>

\* process.wait returns, or times out and the next signal is sent.
ProcessReaped ==
  /\ ~Alive
  /\ owner \in {"wait", "terminate", "kill"}
  /\ owner' = "unlink"
  /\ UNCHANGED <<service, socket, refusal, ownerFaults>>

\* Mutant: SIGKILL is not waited for.
SendSignalAndLeave(from, to) ==
  /\ Alive
  /\ OwnerAt(from, IF to = "kill" THEN "unlink" ELSE to)
  /\ UNCHANGED <<service, socket, refusal, ownerFaults>>

SendSignal(from, to) ==
  /\ Alive
  /\ OwnerAt(from, to)
  /\ UNCHANGED <<service, socket, refusal, ownerFaults>>

\* Even SIGKILL is not answered in time: TimeoutExpired leaves stop.
GiveUp ==
  /\ Alive
  /\ SpendOwnerFault
  /\ OwnerAt("kill", "give up")
  /\ UNCHANGED <<service, socket, refusal>>

\* finally: the log is closed, the socket removed.
RemoveSocket ==
  /\ owner \in {"unlink", "give up"}
  /\ owner' = IF owner = "unlink" THEN "stopped" ELSE "lost"
  /\ socket' = "absent"
  /\ UNCHANGED <<service, refusal, ownerFaults>>

OwnerStep ==
  \/ StartService \/ SeeReady \/ SeeExit \/ SeeMode \/ StopService \/ ProcessReaped
  \/ SendSignal("wait", "terminate") \/ SendSignal("terminate", "kill") \/ RemoveSocket

-----------------------------------------------------------------------------
(* serve().                                                                *)

\* The model is loaded, then the socket is bound, made private, listened to.
InitializeProvider ==
  /\ ServiceAt("initialize", "bind")
  /\ UNCHANGED <<owner, socket, refusal, ownerFaults>>

BindSocket ==
  /\ service = "bind"
  /\ IF socket = "absent"
     THEN service' = "restrict" /\ socket' = "bound"
     ELSE service' = "close" /\ UNCHANGED socket
  /\ UNCHANGED <<owner, refusal, ownerFaults>>

RestrictSocket ==
  /\ ServiceAt("restrict", "serve")
  /\ socket' = IF socket = "absent" THEN "absent" ELSE "private"
  /\ UNCHANGED <<owner, refusal, ownerFaults>>

\* The last connection asked it to close, or an error left the loop.
LeaveLoop ==
  /\ service \in {"initialize", "bind", "restrict", "serve"}
  /\ IF service = "serve" /\ owner \in {"started", "wait"} THEN UNCHANGED ownerFaults
     ELSE SpendOwnerFault
  /\ service' = "close"
  /\ UNCHANGED <<owner, socket, refusal>>

\* finally: adapter.close, server.close, unlink; the process ends.
CloseServer ==
  /\ ServiceAt("close", "exited")
  /\ socket' = "absent"
  /\ UNCHANGED <<owner, refusal, ownerFaults>>

\* SIGTERM and SIGKILL end the process where it is; so does a crash.
DieOfSignal ==
  /\ Alive
  /\ owner \in {"terminate", "kill", "give up", "lost"}
  /\ service' = "exited"
  /\ UNCHANGED <<owner, socket, refusal, ownerFaults>>

CrashService ==
  /\ Alive
  /\ SpendOwnerFault
  /\ service' = "exited"
  /\ UNCHANGED <<owner, socket, refusal>>

ServiceStep ==
  InitializeProvider \/ BindSocket \/ RestrictSocket \/ LeaveLoop \/ CloseServer \/ DieOfSignal

OwnerNext ==
  OwnerStep \/ ServiceStep \/ StartTimesOut \/ InterruptStart \/ GiveUp \/ CrashService

OwnerSpec == OwnerInit /\ [][OwnerNext]_ownerVars

-----------------------------------------------------------------------------
(* Properties.                                                             *)

\* A stopped owner leaves neither a process nor a socket, also when start was
\* refused or interrupted and whatever the service was doing when it was
\* stopped: a service that was still to bind does not do so afterwards.  A
\* started owner's socket is private for as long as the service serves.
OwnerLeavesNothing ==
  /\ owner = "stopped" => service = "exited" /\ socket = "absent"
  /\ owner = "started" /\ service = "serve" => socket = "private"
=============================================================================
