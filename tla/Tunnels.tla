------------------------------- MODULE Tunnels -------------------------------
(***************************************************************************)
(* The child processes of a mover (worker/tunnel): stunnel, and an rsync   *)
(* daemon on a CephFS destination.  Setup starts them one after the other  *)
(* and checks each once; nobody watches them after that.                   *)
(***************************************************************************)
VARIABLES workerType,   \* "source" or "destination"
          rsyncTunnel,  \* EnableRsyncTunnel: the mover type is CephFS
          setup,        \* where Manager.Setup is
          stunnel,      \* the stunnel process
          pid,          \* Stunnel.pid is set
          rsyncd        \* the rsync daemon process

tunnelVars == <<workerType, rsyncTunnel, setup, stunnel, pid, rsyncd>>

SetupSteps == {"psk", "config", "stunnel", "pid", "sockets", "rsync", "check"}
Processes == {"none", "up", "signalled", "dead"}

TunnelInit ==
  /\ workerType \in {"source", "destination"}
  /\ rsyncTunnel \in BOOLEAN
  /\ setup = "psk"
  /\ stunnel = "none"
  /\ pid = FALSE
  /\ rsyncd = "none"

SetupFails ==
  /\ setup' = "failed"
  /\ UNCHANGED <<workerType, rsyncTunnel, stunnel, pid, rsyncd>>

SetupGoes(step) ==
  /\ setup' = step
  /\ UNCHANGED <<workerType, rsyncTunnel>>

(* SIGTERM; a process that has ended stays ended.                          *)
Signalled(process) == IF process = "up" THEN "signalled" ELSE process

(* Stunnel.Stop signals only a process whose pid is known, and then waits  *)
(* if it is a child of the mover; that wait is taken to end, as stunnel    *)
(* obeys SIGTERM.                                                          *)
StopStunnel == stunnel' = IF pid THEN Signalled(stunnel) ELSE stunnel

StopRsync == rsyncd' = Signalled(rsyncd)

-----------------------------------------------------------------------------
CheckPSK ==
  /\ setup = "psk"
  /\ \/ SetupFails
     \/ SetupGoes("config") /\ UNCHANGED <<stunnel, pid, rsyncd>>

(* generateConfig: the file for this worker type may not be writable.      *)
WriteConfig ==
  /\ setup = "config"
  /\ \/ SetupFails
     \/ SetupGoes("stunnel") /\ UNCHANGED <<stunnel, pid, rsyncd>>

StartStunnel ==
  /\ setup = "stunnel"
  /\ \/ SetupFails
     \/ SetupGoes("pid") /\ stunnel' = "up" /\ UNCHANGED <<pid, rsyncd>>

(* The PID file is read once; it may not be there yet.                     *)
WaitForPID ==
  /\ setup = "pid"
  /\ \/ SetupFails
     \/ /\ stunnel = "up"
        /\ pid' = TRUE
        /\ SetupGoes(IF workerType = "source" THEN "sockets"
                     ELSE IF rsyncTunnel THEN "rsync" ELSE "done")
        /\ UNCHANGED <<stunnel, rsyncd>>

WaitForSockets ==
  /\ setup = "sockets"
  /\ \/ SetupFails
     \/ stunnel = "up" /\ SetupGoes("done") /\ UNCHANGED <<stunnel, pid, rsyncd>>

StartRsync ==
  /\ setup = "rsync"
  /\ \/ SetupGoes("failed") /\ StopStunnel /\ UNCHANGED <<pid, rsyncd>>
     \/ SetupGoes("check") /\ rsyncd' = "up" /\ UNCHANGED <<stunnel, pid>>

(* Two seconds later: has it exited?                                       *)
CheckRsync ==
  /\ setup = "check"
  /\ \/ rsyncd = "dead" /\ SetupGoes("failed") /\ StopStunnel /\ UNCHANGED <<pid, rsyncd>>
     \/ rsyncd # "dead" /\ SetupGoes("done") /\ UNCHANGED <<stunnel, pid, rsyncd>>

SetupStep ==
  \/ CheckPSK \/ WriteConfig \/ StartStunnel \/ WaitForPID \/ WaitForSockets
  \/ StartRsync \/ CheckRsync

(* A process ends by itself.                                               *)
ProcessEnds ==
  /\ \/ stunnel = "up" /\ stunnel' = "dead" /\ UNCHANGED rsyncd
     \/ rsyncd = "up" /\ rsyncd' = "dead" /\ UNCHANGED stunnel
  /\ UNCHANGED <<workerType, rsyncTunnel, setup, pid>>

TunnelTypeOK ==
  /\ workerType \in {"source", "destination"} /\ rsyncTunnel \in BOOLEAN
  /\ setup \in SetupSteps \cup {"done", "failed"}
  /\ stunnel \in Processes /\ rsyncd \in Processes /\ pid \in BOOLEAN

(* What Setup has started at each of its steps.                            *)
TunnelInv ==
  /\ TunnelTypeOK
  /\ setup \in {"sockets", "rsync", "check", "done"} => pid
  /\ setup \in SetupSteps \ {"check"} => rsyncd = "none"
  /\ setup = "failed" => rsyncd # "up" /\ (stunnel = "up" => rsyncd = "none")
=============================================================================
