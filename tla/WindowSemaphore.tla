--------------------------- MODULE WindowSemaphore ---------------------------
(***************************************************************************)
(* pipeline.WindowSemaphore: bounds the spread of in-flight request ids.   *)
(* Ids are handed out in order by a block iterator; a reader acquires the  *)
(* id of its chunk, and the id is released when the destination            *)
(* acknowledges the block (or on an error path).  Releases arrive in any   *)
(* order and are recorded in a ring of Limit slots indexed by id % Limit;  *)
(* base is the least id that is not yet released.                          *)
(*                                                                         *)
(* Every operator is one critical section of w.mu, so it is one step.  The *)
(* slice waiters is kept sorted by id and ids are unique, so it is a set   *)
(* here, whose least element is the front of the slice.  A waiter whose    *)
(* channel was closed, but which has not yet returned from Acquire, is in  *)
(* granted.                                                                *)
(***************************************************************************)
EXTENDS Integers, FiniteSets

CONSTANTS MaxWindow,   \* Config.MaxWindow
          ReqIDs       \* the request ids that occur

ASSUME MaxWindowAssumption == MaxWindow \in Nat \ {0}
ASSUME ReqIDsAssumption == ReqIDs \subseteq Nat

VARIABLES base,        \* least id not released
          released,    \* ring of flags, slot id % Limit
          inFlight,    \* acquisitions minus releases
          waiters,     \* ids parked in Acquire
          granted,     \* parked ids whose channel has been closed
          releaseCh    \* TRUE when the one-element signal channel is full

winVars == <<base, released, inFlight, waiters, granted, releaseCh>>

Limit == 2 * MaxWindow
Slots == 0 .. Limit - 1
Slot(id) == id % Limit

WinInit ==
  /\ base = 0
  /\ released = [i \in Slots |-> FALSE]
  /\ inFlight = 0
  /\ waiters = {}
  /\ granted = {}
  /\ releaseCh = FALSE

(* Mutant of InWindow: <= for <. *)
InWindowLoose(id, b) == b <= id /\ id <= b + Limit

(* reqID - base < limit in uint64 arithmetic: the difference wraps to a    *)
(* huge value when reqID is below base.                                    *)
InWindow(id, b) == b <= id /\ id < b + Limit

WinIsReleased(id) == base > id

(* Acquire, first critical section: take a slot at once ...                *)
WinAcquire(id) ==
  /\ InWindow(id, base)
  /\ inFlight' = inFlight + 1
  /\ UNCHANGED <<base, released, waiters, granted, releaseCh>>

(* ... or park.                                                            *)
WinPark(id) ==
  /\ ~InWindow(id, base)
  /\ waiters' = waiters \cup {id}
  /\ UNCHANGED <<base, released, inFlight, granted, releaseCh>>

(* The parked caller finds its channel closed: Acquire returns nil, also   *)
(* when the context is cancelled at the same time.                         *)
WinWake(id) ==
  /\ id \in granted
  /\ granted' = granted \ {id}
  /\ UNCHANGED <<base, released, inFlight, waiters, releaseCh>>

(* The parked caller finds its context cancelled and its channel still     *)
(* open: it leaves the list and Acquire returns the context's error.       *)
WinCancel(id) ==
  /\ id \in waiters
  /\ waiters' = waiters \ {id}
  /\ UNCHANGED <<base, released, inFlight, granted, releaseCh>>

(* Mutant of Woken: only the front of the slice is woken. *)
WokenFront(b) == {w \in waiters : InWindow(w, b) /\ \A v \in waiters : w <= v}

(* Mutant of Woken: the wake loop is not run. *)
WokenNobody(b) == {}

(* wakeWinWaiters pops the front of the sorted slice for as long as it is  *)
(* inside the window that starts at b.                                     *)
Woken(b) == {w \in waiters : \A v \in waiters : v <= w => InWindow(v, b)}

(* Mutant of Advances: one step where the code loops. *)
AdvancesOnce(flags, b, k) == k = IF flags[Slot(b)] THEN 1 ELSE 0

(* The advance loop of Release: starting from b, it passes k released      *)
(* slots, clearing each, and stops at the first slot that is not released  *)
(* (after a whole turn every slot has been cleared).                       *)
Advances(flags, b, k) ==
  /\ \A j \in 0 .. k - 1 : flags[Slot(b + j)]
  /\ k < Limit => ~flags[Slot(b + k)]

(* Mutant of Cleared: a passed slot is dropped. *)
ClearedDropped(flags, b, k) ==
  [i \in {i \in Slots : \A j \in 0 .. k - 1 : i # Slot(b + j)} |-> flags[i]]

Cleared(flags, b, k) ==
  [i \in Slots |-> flags[i] /\ \A j \in 0 .. k - 1 : i # Slot(b + j)]

(* Release: k slots are passed and n waiters popped, inFlight counting     *)
(* each of them.                                                           *)
WinRelease(id) ==
  IF released[Slot(id)]
    THEN UNCHANGED winVars
    ELSE LET flags == [released EXCEPT ![Slot(id)] = TRUE]
         IN \E k \in 0 .. Limit, n \in 0 .. Cardinality(waiters) :
              /\ Advances(flags, base, k)
              /\ base' = base + k
              /\ released' = Cleared(flags, base, k)
              /\ n = Cardinality(Woken(base + k))
              /\ inFlight' = inFlight - 1 + n
              /\ waiters' = waiters \ Woken(base + k)
              /\ granted' = granted \cup Woken(base + k)
              /\ releaseCh' = TRUE

(* A receive from ReleaseChan().                                           *)
WinSignalReceived ==
  /\ releaseCh
  /\ releaseCh' = FALSE
  /\ UNCHANGED <<base, released, inFlight, waiters, granted>>

(* The ids that have been released.                                        *)
Freed == {id \in ReqIDs : id < base \/ (InWindow(id, base) /\ released[Slot(id)])}

WinTypeOK ==
  /\ base \in Nat
  /\ released \in [Slots -> BOOLEAN]
  /\ inFlight \in Int
  /\ waiters \subseteq ReqIDs
  /\ granted \subseteq ReqIDs
  /\ releaseCh \in BOOLEAN
=============================================================================
