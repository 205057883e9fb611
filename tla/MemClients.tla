----------------------------- MODULE MemClients -----------------------------
(***************************************************************************)
(* The memory semaphore with readers that acquire, hold and release blocks *)
(* of different sizes, again and again, and that may be cancelled while    *)
(* they wait.                                                              *)
(***************************************************************************)
EXTENDS MemSemaphore, FiniteSetsExt

CONSTANT Sizes   \* acquireSize = min(Length, ChunkSize)

(* Config.validate refuses a ChunkSize above MaxRawMemoryBytes.            *)
ASSUME SizesAssumption == Sizes \subseteq 1 .. Capacity

VARIABLES phase,   \* what each reader is doing
          want     \* the size of its current request

vars == <<cur, memWaiters, memGranted, phase, want>>

Phases == {"idle", "parked", "holding"}

Init ==
  /\ MemInit
  /\ phase = [c \in MemCallers |-> "idle"]
  /\ want = [c \in MemCallers |-> 0]

Becomes(c, from, to) ==
  /\ phase[c] = from
  /\ phase' = [phase EXCEPT ![c] = to]

Requests(c, n) == want' = [want EXCEPT ![c] = n]

Acquire(c, n) == Becomes(c, "idle", "holding") /\ Requests(c, n) /\ MemAcquire(n)
Park(c, n) == Becomes(c, "idle", "parked") /\ Requests(c, n) /\ MemPark(c, n)
Wake(c) == Becomes(c, "parked", "holding") /\ MemWake(c) /\ UNCHANGED want
Cancel(c) == Becomes(c, "parked", "idle") /\ MemCancel(c) /\ UNCHANGED want
Release(c) == Becomes(c, "holding", "idle") /\ MemRelease(want[c]) /\ UNCHANGED want

Next ==
  \E c \in MemCallers :
    \/ \E n \in Sizes : Acquire(c, n) \/ Park(c, n)
    \/ Wake(c)
    \/ Cancel(c)
    \/ Release(c)

Spec == Init /\ [][Next]_vars

(* Readers return from Acquire once their channel is closed, and what they *)
(* hold is eventually released by the send stage.                          *)
FairSpec == Spec /\ \A c \in MemCallers : WF_vars(Wake(c)) /\ WF_vars(Release(c))

-----------------------------------------------------------------------------
TypeOK ==
  /\ MemTypeOK
  /\ phase \in [MemCallers -> Phases]
  /\ want \in [MemCallers -> Sizes \cup {0}]

Owners == {c \in MemCallers : phase[c] = "holding"} \cup memGranted

(* The budget is never exceeded and never drifts: cur is the sum of what   *)
(* is held, also when a grant races a cancellation.                        *)
BudgetExact ==
  /\ cur = MapThenSumSet(LAMBDA c : want[c], Owners)
  /\ cur <= Capacity

(* A waiter always has somebody whose Release will look at it: Acquire     *)
(* after a cancelled front waiter cannot be left alone in the list.        *)
WaiterHasWaker == memWaiters # <<>> => Owners # {}

(* A reader that waits gets its bytes or is cancelled, however large its   *)
(* request and however many small ones keep arriving.                      *)
LargeRequestProceeds ==
  \A c \in MemCallers : (phase[c] = "parked") ~> (phase[c] # "parked")
=============================================================================
