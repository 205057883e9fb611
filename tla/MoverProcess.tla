---------------------------- MODULE MoverProcess ----------------------------
(***************************************************************************)
(* A mover process, as runMover of cmd/mover drives it: the tunnels are    *)
(* set up, the worker runs, and the tunnels are stopped.  A destination    *)
(* worker runs the gRPC servers; a source worker uses the connection pool. *)
(***************************************************************************)
EXTENDS DestinationServer, Tunnels, ConnPool

VARIABLES mover,       \* where runMover is
          cancelled,   \* SIGTERM has cancelled the worker's context
          sessions     \* sources with a transfer at the rsync daemon

moverVars == <<mover, cancelled, sessions>>
vars == <<moverVars, tunnelVars, serverVars, poolVars>>

Init ==
  /\ mover = "setup"
  /\ cancelled = FALSE
  /\ sessions = {}
  /\ TunnelInit
  /\ ServerInit
  /\ PoolInit

-----------------------------------------------------------------------------
Setup ==
  /\ mover = "setup"
  /\ SetupStep
  /\ UNCHANGED <<moverVars, serverVars, poolVars>>

(* An error of Setup is returned at once: Cleanup is not deferred yet.     *)
SetupReturns ==
  /\ mover = "setup"
  /\ setup \in {"done", "failed"}
  /\ mover' = IF setup = "done" THEN "run" ELSE "returned"
  /\ UNCHANGED <<cancelled, sessions, tunnelVars, serverVars, poolVars>>

(* SIGTERM while the worker runs.                                          *)
Cancel ==
  /\ mover = "run" /\ ~cancelled
  /\ cancelled' = TRUE
  /\ UNCHANGED <<mover, sessions, tunnelVars, serverVars, poolVars>>

(* A step of the servers or of a source pod that calls them.               *)
Serves(A) ==
  /\ workerType = "destination" /\ mover \in {"run", "cleanup"}
  /\ A
  /\ UNCHANGED <<moverVars, tunnelVars, poolVars>>

(* A step of the source worker, or of the pool's timer.                    *)
SourceWorks ==
  /\ workerType = "source" /\ mover = "run"
  /\ PoolNext
  /\ UNCHANGED <<moverVars, tunnelVars, serverVars>>

(* Connections to the main server go through stunnel.                      *)
SourcePod(p) ==
  \/ stunnel = "up" /\ (Connect(p) \/ Ask(p))
  \/ p \notin sessions /\ CallDone(p)
  \/ OpenStream(p) \/ Refused(p)

(* rsync runs beside the streams, through stunnel, and is not pinned.      *)
RsyncStarts(p) ==
  /\ mover = "run" /\ client[p] \in {"pinned", "sending"}
  /\ p \notin sessions
  /\ stunnel = "up" /\ rsyncd = "up"
  /\ sessions' = sessions \cup {p}
  /\ UNCHANGED <<mover, cancelled, tunnelVars, serverVars, poolVars>>

RsyncEnds(p) ==
  /\ p \in sessions
  /\ sessions' = sessions \ {p}
  /\ UNCHANGED <<mover, cancelled, tunnelVars, serverVars, poolVars>>

(* newWorker does not know the mover type: no server is started.           *)
NewWorkerFails ==
  /\ mover = "run" /\ main = "listen" /\ made = 0
  /\ \A c \in Callers : At(c, "out")
  /\ mover' = "cleanup" /\ main' = "returned" /\ outcome' = "err"
  /\ UNCHANGED <<client, handler, certVars, shutdownChan, mainServer, serveErr>>
  /\ UNCHANGED <<cancelled, sessions, tunnelVars, poolVars>>

(* Run returns: a destination when its servers have, a source when its     *)
(* connections are given back.                                             *)
WorkerReturns ==
  /\ mover = "run"
  /\ workerType = "destination" => main = "returned"
  /\ workerType = "source" => \A c \in Callers : At(c, "out")
  /\ mover' = "cleanup"
  /\ UNCHANGED <<cancelled, sessions, tunnelVars, serverVars, poolVars>>

(* The deferred Cleanup: the rsync daemon and stunnel are told to stop.    *)
Cleanup ==
  /\ mover = "cleanup"
  /\ StopRsync /\ StopStunnel
  /\ mover' = "returned"
  /\ UNCHANGED <<workerType, rsyncTunnel, setup, pid>>
  /\ UNCHANGED <<cancelled, sessions, serverVars, poolVars>>

ChildEnds ==
  /\ mover # "returned"
  /\ ProcessEnds
  /\ UNCHANGED <<moverVars, serverVars, poolVars>>

Exits == mover = "returned" /\ UNCHANGED vars

Next ==
  \/ Setup \/ SetupReturns \/ Cancel \/ NewWorkerFails \/ WorkerReturns
  \/ Cleanup \/ ChildEnds \/ SourceWorks \/ Exits
  \/ Serves(MainStep \/ MainFault)
  \/ cancelled /\ Serves(SelectCancelled)
  \/ \E p \in Sources :
       \/ Serves(SourcePod(p) \/ SourceFault(p) \/ KeepaliveExpires(p) \/ HandlerStep(p))
       \/ RsyncStarts(p) \/ RsyncEnds(p)

Spec == Init /\ [][Next]_vars

(* Handlers, runMover and the servers keep running, a mutex is handed to   *)
(* everyone who waits, a source ends its streams and its transfers, and a  *)
(* dead connection is noticed.  Failures need not happen.                  *)
FairSpec ==
  /\ Spec
  /\ WF_vars(Setup) /\ WF_vars(SetupReturns) /\ WF_vars(WorkerReturns /\ main = "returned")
  /\ WF_vars(Cleanup)
  /\ WF_vars(Serves(MainStep)) /\ SF_vars(Serves(MainLocks))
  /\ WF_vars(cancelled /\ Serves(SelectCancelled))
  /\ \A p \in Sources :
       /\ WF_vars(Serves(ExchangeStep(p))) /\ SF_vars(Serves(ExchangeLock(p)))
       /\ WF_vars(Serves(StreamEnds(p))) /\ WF_vars(Serves(Done(p)))
       /\ WF_vars(Serves(KeepaliveExpires(p)))
       /\ WF_vars(RsyncEnds(p))

-----------------------------------------------------------------------------
TypeOK ==
  /\ ServerTypeOK /\ TunnelTypeOK /\ PoolTypeOK
  /\ mover \in {"setup", "run", "cleanup", "returned"}
  /\ cancelled \in BOOLEAN /\ sessions \subseteq Sources

Writing(p) == handler[p] \in {"stream", "done"} \/ p \in sessions

(* Two source pods never write at the same time, so the old one cannot     *)
(* write into, or finish, the transfer of its replacement: whoever asks    *)
(* waits until the streams of its predecessor are over.  A transfer of     *)
(* rsync is outside this protection.                                       *)
OneSourceWrites ==
  \A p, q \in Sources :
    p # q /\ Writing(p) /\ Writing(q) => p \in sessions \/ q \in sessions

(* When a mover has returned, nothing it started is left: after Done or a  *)
(* cancellation no handler writes to the volume and no server listens, and *)
(* both child processes were told to stop.  Only an error of the server    *)
(* leaves handlers, and only a stunnel that did not come up as expected is *)
(* left without a signal.                                                  *)
NothingLeftRunning ==
  mover = "returned" =>
    /\ outcome \in {"nil", "ctx"} => Quiet
    /\ stunnel = "up" => setup = "failed" /\ rsyncd = "none"
    /\ rsyncd # "up"

(* No call and no shutdown waits for ever, although ExchangeCerts keeps    *)
(* its mutex while it waits for the handlers of the old source, the main   *)
(* server waits for ExchangeCerts, and StopDirectTLS needs the mutex.      *)
NothingWaitsForever ==
  /\ \A p \in Sources :
       (handler[p] \in Exchanging) ~> (handler[p] \notin Exchanging \/ mover = "returned")
  /\ (workerType = "destination" /\ mover = "run"
        /\ (shutdownChan = 1 \/ cancelled \/ serveErr)) ~> (mover = "returned")

(* The inductive invariant behind OneSourceWrites and NothingLeftRunning.  *)
MoverInv ==
  /\ ServerInv /\ TunnelInv
  /\ mover \in {"setup", "run", "cleanup", "returned"}
  /\ mover \in {"run", "cleanup"} => setup = "done"
  /\ mover = "setup" \/ setup = "failed" => main = "listen"
  /\ workerType = "source" => outcome \in {"none", "err"}
  /\ mover \in {"cleanup", "returned"} /\ setup = "done" /\ workerType = "destination"
       => main = "returned"
  /\ mover = "returned" => /\ setup \in {"done", "failed"} /\ rsyncd # "up"
                           /\ stunnel = "up" => setup = "failed" /\ rsyncd = "none"
=============================================================================
