-------------------------- MODULE DestinationServer --------------------------
(***************************************************************************)
(* The gRPC servers of a destination worker (worker/common) and the source *)
(* pods that call them.  A source connects to the main server through      *)
(* stunnel, hands over its certificate with ExchangeCerts, and sends all   *)
(* its data and Done over a direct TLS server that is pinned to that       *)
(* certificate.  When a pod is replaced, the new one asks while the        *)
(* handlers of the old one may still be running.                           *)
(***************************************************************************)
EXTENDS Naturals

CONSTANTS Sources,   \* source pods, each with a certificate of its own
          NoSource

VARIABLES client,        \* what each source is doing
          handler,       \* the handler that runs for it on the destination
          mu,            \* who holds CertExchangeHandler.mu
          direct,        \* its directListener
          pinned,        \* whose certificate the listener accepts
          shutdownChan,  \* signals buffered in SyncServer.shutdownChan
          mainServer,    \* the server RunDestinationServer started
          serveErr,      \* Serve has returned an error
          main,          \* where RunDestinationServer is
          outcome        \* what it is going to return

serverVars == <<client, handler, mu, direct, pinned, shutdownChan, mainServer, serveErr,
                main, outcome>>
certVars == <<mu, direct, pinned>>
mainVars == <<mainServer, serveErr, main, outcome>>

Main == "main"     \* RunDestinationServer as holder of mu

ASSUME SourcesAssumption ==
  Main \notin Sources /\ NoSource \notin Sources /\ NoSource # Main

Live == {"new", "tunnel", "asking", "pinned", "sending", "ending"}
Exchanging == {"lock", "stop", "start"}

ServerInit ==
  /\ client = [p \in Sources |-> "new"]
  /\ handler = [p \in Sources |-> "none"]
  /\ mu = NoSource
  /\ direct = "nil"
  /\ pinned = NoSource
  /\ shutdownChan = 0
  /\ mainServer = "none"
  /\ serveErr = FALSE
  /\ main = "listen"
  /\ outcome = "none"

Becomes(p, c, h) ==
  /\ client' = [client EXCEPT ![p] = c]
  /\ handler' = [handler EXCEPT ![p] = h]

(* A handler's answer reaches the source only if it still waits for it.    *)
Answered(p, waiting, c) == IF client[p] = waiting THEN c ELSE client[p]

-----------------------------------------------------------------------------
(* A source pod.                                                           *)

(* ConnectToDestination: the version handshake is tried until it succeeds. *)
Connect(p) ==
  /\ client[p] = "new"
  /\ mainServer = "open" /\ ~serveErr
  /\ Becomes(p, "tunnel", handler[p])
  /\ UNCHANGED <<certVars, shutdownChan, mainVars>>

(* ExchangeCerts is called, by a new source or again by the pinned one.    *)
Ask(p) ==
  /\ client[p] \in {"tunnel", "pinned"} /\ handler[p] = "none"
  /\ mainServer = "open"
  /\ Becomes(p, "asking", "lock")
  /\ UNCHANGED <<certVars, shutdownChan, mainVars>>

(* The direct server takes a call of the pinned client until it is         *)
(* stopped; then calls and connections are refused.                        *)
Accepts(p) == direct = "open" /\ pinned = p

(* Write, Delete and Commit streams, taken together.                       *)
OpenStream(p) ==
  /\ client[p] = "pinned" /\ handler[p] = "none"
  /\ Accepts(p)
  /\ Becomes(p, "sending", "stream")
  /\ UNCHANGED <<certVars, shutdownChan, mainVars>>

(* SignalDone.                                                             *)
CallDone(p) ==
  /\ client[p] = "pinned" /\ handler[p] = "none"
  /\ Accepts(p)
  /\ Becomes(p, "ending", "done")
  /\ UNCHANGED <<certVars, shutdownChan, mainVars>>

Refused(p) ==
  /\ \/ client[p] = "tunnel" /\ mainServer # "open"
     \/ client[p] = "pinned" /\ ~Accepts(p)
  /\ Becomes(p, "down", handler[p])
  /\ UNCHANGED <<certVars, shutdownChan, mainVars>>

(* The pod ends and its connections are closed.                            *)
Dies(p) ==
  /\ client[p] \in Live
  /\ Becomes(p, "down", handler[p])
  /\ UNCHANGED <<certVars, shutdownChan, mainVars>>

(* The pod's node is gone without a word, until a keepalive notices.       *)
Vanishes(p) ==
  /\ client[p] \in Live
  /\ Becomes(p, "vanished", handler[p])
  /\ UNCHANGED <<certVars, shutdownChan, mainVars>>

KeepaliveExpires(p) ==
  /\ client[p] = "vanished"
  /\ Becomes(p, "down", handler[p])
  /\ UNCHANGED <<certVars, shutdownChan, mainVars>>

-----------------------------------------------------------------------------
(* The handlers.                                                           *)

(* A stream's handler returns when the source has closed the stream, or    *)
(* when its connection is broken.                                          *)
StreamEnds(p) ==
  /\ handler[p] = "stream"
  /\ client[p] \in {"sending", "down"}
  /\ Becomes(p, Answered(p, "sending", "pinned"), "none")
  /\ UNCHANGED <<certVars, shutdownChan, mainVars>>

(* Mutant of Done: the channel is taken to have room always. *)
DoneUnbounded(p) ==
  /\ handler[p] = "done"
  /\ shutdownChan' = shutdownChan + 1
  /\ Becomes(p, Answered(p, "ending", "finished"), "none")
  /\ UNCHANGED <<certVars, mainVars>>

(* Done puts a signal into the channel, which has room for one, or finds   *)
(* one there already.                                                      *)
Done(p) ==
  /\ handler[p] = "done"
  /\ shutdownChan' = 1
  /\ Becomes(p, Answered(p, "ending", "finished"), "none")
  /\ UNCHANGED <<certVars, mainVars>>

(* Mutant of ExchangeLock: the old listener is replaced without Stop. *)
ExchangeLockOnly(p) ==
  /\ handler[p] = "lock" /\ mu = NoSource
  /\ \/ /\ direct # "nil" /\ pinned = p
        /\ Becomes(p, Answered(p, "asking", "pinned"), "none")
        /\ UNCHANGED <<mu, direct>>
     \/ /\ direct # "nil" /\ pinned # p
        /\ mu' = p /\ direct' = "nil"
        /\ Becomes(p, client[p], "start")
     \/ /\ direct = "nil"
        /\ mu' = p
        /\ Becomes(p, client[p], "start")
        /\ UNCHANGED direct
  /\ UNCHANGED <<pinned, shutdownChan, mainVars>>

(* ExchangeCerts takes mu.  The pinned client gets its certificate again;  *)
(* another one first stops the listener of its predecessor.                *)
ExchangeLock(p) ==
  /\ handler[p] = "lock" /\ mu = NoSource
  /\ \/ /\ direct # "nil" /\ pinned = p
        /\ Becomes(p, Answered(p, "asking", "pinned"), "none")
        /\ UNCHANGED <<mu, direct>>
     \/ /\ direct # "nil" /\ pinned # p
        /\ mu' = p
        /\ direct' = IF direct = "open" THEN "draining" ELSE direct
        /\ Becomes(p, client[p], "stop")
     \/ /\ direct = "nil"
        /\ mu' = p
        /\ Becomes(p, client[p], "start")
        /\ UNCHANGED direct
  /\ UNCHANGED <<pinned, shutdownChan, mainVars>>

(* GracefulStop returns when no handler of the direct server runs.         *)
DirectIdle == \A p \in Sources : handler[p] \notin {"stream", "done"}

ExchangeStopped(p) ==
  /\ handler[p] = "stop"
  /\ DirectIdle
  /\ direct' = "nil"
  /\ Becomes(p, client[p], "start")
  /\ UNCHANGED <<mu, pinned, shutdownChan, mainVars>>

(* A new certificate and a new listener, pinned to the caller.             *)
ExchangeStarts(p) ==
  /\ handler[p] = "start"
  /\ direct' = "open" /\ pinned' = p /\ mu' = NoSource
  /\ Becomes(p, Answered(p, "asking", "pinned"), "none")
  /\ UNCHANGED <<shutdownChan, mainVars>>

(* The certificate cannot be made or the port cannot be opened.            *)
ExchangeFails(p) ==
  /\ handler[p] = "start"
  /\ mu' = NoSource
  /\ Becomes(p, Answered(p, "asking", "down"), "none")
  /\ UNCHANGED <<direct, pinned, shutdownChan, mainVars>>

-----------------------------------------------------------------------------
(* RunDestinationServer.                                                   *)

Listen ==
  /\ main = "listen"
  /\ main' = "serve" /\ mainServer' = "open"
  /\ UNCHANGED <<client, handler, certVars, shutdownChan, serveErr, outcome>>

ListenFails ==
  /\ main = "listen"
  /\ main' = "returned" /\ outcome' = "err"
  /\ UNCHANGED <<client, handler, certVars, shutdownChan, mainServer, serveErr>>

(* The accept loop fails; connections that exist stay.                     *)
ServeFails ==
  /\ mainServer = "open" /\ ~serveErr
  /\ serveErr' = TRUE
  /\ UNCHANGED <<client, handler, certVars, shutdownChan, mainServer, main, outcome>>

(* Mutant of SelectDone: waits for the streams before it stops the servers. *)
SelectDoneWhenIdle ==
  /\ main = "serve" /\ shutdownChan = 1
  /\ DirectIdle
  /\ shutdownChan' = 0
  /\ main' = "stopMain" /\ mainServer' = "draining" /\ outcome' = "nil"
  /\ UNCHANGED <<client, handler, certVars, serveErr>>

(* The select: a cancelled context or Done stop the main server first.     *)
SelectDone ==
  /\ main = "serve" /\ shutdownChan = 1
  /\ shutdownChan' = 0
  /\ main' = "stopMain" /\ mainServer' = "draining" /\ outcome' = "nil"
  /\ UNCHANGED <<client, handler, certVars, serveErr>>

SelectCancelled ==
  /\ main = "serve"
  /\ main' = "stopMain" /\ mainServer' = "draining" /\ outcome' = "ctx"
  /\ UNCHANGED <<client, handler, certVars, shutdownChan, serveErr>>

SelectServeErr ==
  /\ main = "serve" /\ serveErr
  /\ main' = "lock" /\ outcome' = "err"
  /\ UNCHANGED <<client, handler, certVars, shutdownChan, mainServer, serveErr>>

(* Mutant of MainStopped: StopDirectTLS is not called. *)
MainStoppedOnly ==
  /\ main = "stopMain"
  /\ \A p \in Sources : handler[p] \notin Exchanging
  /\ mainServer' = "stopped" /\ main' = "returned"
  /\ UNCHANGED <<client, handler, certVars, shutdownChan, serveErr, outcome>>

(* GracefulStop of the main server waits for its ExchangeCerts handlers.   *)
MainStopped ==
  /\ main = "stopMain"
  /\ \A p \in Sources : handler[p] \notin Exchanging
  /\ mainServer' = "stopped" /\ main' = "lock"
  /\ UNCHANGED <<client, handler, certVars, shutdownChan, serveErr, outcome>>

(* StopDirectTLS.                                                          *)
MainLocks ==
  /\ main = "lock" /\ mu = NoSource
  /\ \/ /\ direct = "nil"
        /\ main' = "returned"
        /\ UNCHANGED <<mu, direct>>
     \/ /\ direct # "nil"
        /\ main' = "stopDirect" /\ mu' = Main
        /\ direct' = "draining"
  /\ UNCHANGED <<client, handler, pinned, shutdownChan, mainServer, serveErr, outcome>>

DirectStopped ==
  /\ main = "stopDirect"
  /\ DirectIdle
  /\ direct' = "stopped" /\ mu' = NoSource
  /\ main' = "returned"
  /\ UNCHANGED <<client, handler, pinned, shutdownChan, mainServer, serveErr, outcome>>

-----------------------------------------------------------------------------
SourceStep(p) ==
  Connect(p) \/ Ask(p) \/ OpenStream(p) \/ CallDone(p) \/ Refused(p)
SourceFault(p) == Dies(p) \/ Vanishes(p)
ExchangeStep(p) == ExchangeLock(p) \/ ExchangeStopped(p) \/ ExchangeStarts(p)
HandlerStep(p) == ExchangeStep(p) \/ ExchangeFails(p) \/ StreamEnds(p) \/ Done(p)
MainStep == Listen \/ SelectDone \/ SelectServeErr \/ MainStopped \/ MainLocks \/ DirectStopped
MainFault == ListenFails \/ ServeFails

ServerTypeOK ==
  /\ client \in [Sources -> Live \cup {"finished", "vanished", "down"}]
  /\ handler \in [Sources -> Exchanging \cup {"none", "stream", "done"}]
  /\ mu \in Sources \cup {NoSource, Main}
  /\ direct \in {"nil", "open", "draining", "stopped"}
  /\ pinned \in Sources \cup {NoSource}
  /\ shutdownChan \in 0 .. 1
  /\ mainServer \in {"none", "open", "draining", "stopped"}
  /\ serveErr \in BOOLEAN
  /\ main \in {"listen", "serve", "stopMain", "lock", "stopDirect", "returned"}
  /\ outcome \in {"none", "nil", "ctx", "err"}

(* Nothing of the servers is left: no handler runs and nothing listens.    *)
Quiet ==
  /\ \A p \in Sources : handler[p] = "none"
  /\ direct \in {"nil", "stopped"} /\ mainServer \in {"none", "stopped"}

(* Whoever is between the lock and the unlock of ExchangeCerts holds mu,   *)
(* and a handler of the direct server belongs to the pinned source.        *)
ServerInv ==
  /\ ServerTypeOK
  /\ \A p \in Sources :
       /\ handler[p] \in {"stream", "done"} => direct \in {"open", "draining"} /\ pinned = p
       /\ handler[p] \in {"stop", "start"} => mu = p
       /\ handler[p] = "stop" => direct \in {"draining", "stopped"}
       /\ handler[p] = "start" => direct = "nil"
  /\ main = "stopDirect" <=> mu = Main
  /\ main = "stopDirect" => direct = "draining"
  /\ direct = "draining" => mu # NoSource
  /\ main = "listen" => /\ mainServer = "none" /\ direct = "nil" /\ outcome = "none"
                        /\ \A p \in Sources : handler[p] = "none"
  /\ outcome \in {"nil", "ctx"} =>
       /\ main \in {"stopMain", "lock", "stopDirect", "returned"}
       /\ main = "stopMain" => mainServer = "draining"
       /\ main # "stopMain" => mainServer = "stopped"
                             /\ \A p \in Sources : handler[p] \notin Exchanging
       /\ main = "returned" => direct \in {"nil", "stopped"}
  /\ main = "serve" => outcome = "none"
=============================================================================
