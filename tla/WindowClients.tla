---------------------------- MODULE WindowClients ----------------------------
(***************************************************************************)
(* The window semaphore with the callers it is written for: every id is    *)
(* acquired by one goroutine, at most once, and is released once, by the   *)
(* goroutine that then owns it (the ack receiver, or an error path).       *)
(***************************************************************************)
EXTENDS WindowSemaphore

VARIABLE caller   \* what the owner of each id is doing

clientVars == <<base, released, inFlight, waiters, granted, releaseCh, caller>>

Phases == {"new", "parked", "held", "done", "aborted"}
In(phase) == {id \in ReqIDs : caller[id] = phase}

ClientInit ==
  /\ WinInit
  /\ caller = [id \in ReqIDs |-> "new"]

Becomes(id, from, to) ==
  /\ caller[id] = from
  /\ caller' = [caller EXCEPT ![id] = to]

Acquire(id) == Becomes(id, "new", "held") /\ WinAcquire(id)
Park(id) == Becomes(id, "new", "parked") /\ WinPark(id)
Wake(id) == Becomes(id, "parked", "held") /\ WinWake(id)
CancelWait(id) == Becomes(id, "parked", "aborted") /\ WinCancel(id)
Release(id) == Becomes(id, "held", "done") /\ WinRelease(id)
SignalReceived == WinSignalReceived /\ UNCHANGED caller

ClientNext ==
  \/ \E id \in ReqIDs :
       Acquire(id) \/ Park(id) \/ Wake(id) \/ CancelWait(id) \/ Release(id)
  \/ SignalReceived

ClientSpec == ClientInit /\ [][ClientNext]_clientVars

(* Every id is requested, a woken caller returns, and what is held is      *)
(* released; nobody has to be cancelled.                                   *)
ClientFairSpec ==
  /\ ClientSpec
  /\ \A id \in ReqIDs : /\ WF_clientVars(Acquire(id) \/ Park(id))
                       /\ WF_clientVars(Wake(id))
                       /\ WF_clientVars(Release(id))

-----------------------------------------------------------------------------
ClientTypeOK == WinTypeOK /\ caller \in [ReqIDs -> Phases]

(* Owners of a place in the window, including those still to be woken.     *)
Owners == In("held") \cup granted

(* IsReleased never runs ahead: when it answers TRUE for an id, that id    *)
(* and every smaller one were released.  The commit drainer and the RBD    *)
(* source rely on it to call a prefix of the blocks safe.                  *)
WatermarkSound ==
  \A id \in ReqIDs : WinIsReleased(id) =>
    \A j \in ReqIDs : j <= id => caller[j] = "done"

(* IsReleased never lags: once an id and all smaller ones are released it  *)
(* answers TRUE, so a wait on it can end.                                  *)
WatermarkComplete ==
  \A id \in ReqIDs :
    (\A j \in 0 .. id : j \in ReqIDs /\ caller[j] = "done") => WinIsReleased(id)

(* The watermark is exact: IsReleased answers true for an id exactly when  *)
(* it and all ids before it were released, whatever the order of releases. *)
WatermarkExact == WatermarkSound /\ WatermarkComplete

(* No wake-up is lost: an id that is parked and not granted is outside     *)
(* the window whenever the lock is free.                                   *)
NoLostWakeup == \A w \in waiters : ~InWindow(w, base)

(* Nobody stays parked unless a caller has given up: the window cannot     *)
(* wedge however acquisitions and releases are ordered.                    *)
ParkedProceeds ==
  \A id \in ReqIDs :
    (caller[id] = "parked") ~> (caller[id] = "held" \/ In("aborted") # {})

-----------------------------------------------------------------------------
(* The strengthening that makes the watermark inductive.                   *)

(* Below base everything is done; inside the window a slot's flag says     *)
(* whether the one id of the window that maps to the slot is done.         *)
RingExact ==
  \A n \in 0 .. base + Limit - 1 :
    (n < base \/ released[Slot(n)]) <=> (n \in ReqIDs /\ caller[n] = "done")

(* Owners are inside the window; nothing beyond it is owned or done.       *)
WindowBounds ==
  /\ \A id \in Owners : InWindow(id, base)
  /\ \A id \in In("done") : id < base + Limit
  /\ \A id \in waiters : id >= base + Limit

(* The lists of the semaphore agree with the callers.                      *)
WaitersParked ==
  /\ waiters \cup granted \subseteq In("parked")
  /\ waiters \cap granted = {}

WindowInv == ClientTypeOK /\ RingExact /\ WindowBounds /\ WaitersParked /\ ~released[Slot(base)]

-----------------------------------------------------------------------------
(* The ring implements the set of released ids.                            *)
Promise == INSTANCE AckWindow WITH Span <- Limit, held <- Owners, done <- Freed

(* Every step of the ring, with its modular slots, advance loop and wake   *)
(* loop, is a step (or a stutter) of the abstract window.                  *)
RingImplementsWindow == Promise!Spec
=============================================================================
