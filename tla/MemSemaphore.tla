---------------------------- MODULE MemSemaphore ----------------------------
(***************************************************************************)
(* pipeline.MemSemaphore: the weighted semaphore that bounds the bytes of  *)
(* raw data the readers may hold.  Waiters queue in a FIFO list and each   *)
(* has a channel; Release closes the channels of the longest prefix of the *)
(* list that fits.  Every operator is one critical section of s.mu.  A     *)
(* waiter whose channel was closed and that has not yet returned from      *)
(* Acquire is in memGranted; its bytes are already part of cur.            *)
(***************************************************************************)
EXTENDS Integers, Sequences

CONSTANTS Capacity,     \* MaxRawMemoryBytes
          MemCallers    \* the goroutines that call Acquire

ASSUME CapacityAssumption == Capacity \in Nat \ {0}

VARIABLES cur,          \* bytes handed out
          memWaiters,   \* the list: records of the caller and its request
          memGranted    \* callers whose channel has been closed

memVars == <<cur, memWaiters, memGranted>>

MemInit ==
  /\ cur = 0
  /\ memWaiters = <<>>
  /\ memGranted = {}

(* Mutant of Fits: new requests overtake the waiters. *)
FitsBarging(n) == cur + n <= Capacity

(* Mutant of Fits: the request itself is not counted. *)
FitsLoose(n) == cur < Capacity /\ memWaiters = <<>>

Fits(n) == cur + n <= Capacity /\ memWaiters = <<>>

(* Acquire, first critical section: take the bytes at once ...             *)
MemAcquire(n) ==
  /\ Fits(n)
  /\ cur' = cur + n
  /\ UNCHANGED <<memWaiters, memGranted>>

(* ... or join the end of the list.                                        *)
MemPark(c, n) ==
  /\ ~Fits(n)
  /\ memWaiters' = Append(memWaiters, [who |-> c, n |-> n])
  /\ UNCHANGED <<cur, memGranted>>

(* A closed channel wins over a cancelled context: Acquire returns nil.    *)
MemWake(c) ==
  /\ c \in memGranted
  /\ memGranted' = memGranted \ {c}
  /\ UNCHANGED <<cur, memWaiters>>

(* Mutant of MemCancel: gives back bytes it was never granted. *)
MemCancelRefunds(c) ==
  /\ \E i \in DOMAIN memWaiters : memWaiters[i].who = c /\ cur' = cur - memWaiters[i].n
  /\ memWaiters' = SelectSeq(memWaiters, LAMBDA w : w.who # c)
  /\ UNCHANGED memGranted

(* The context is cancelled and the channel is open: the waiter leaves the *)
(* list.  Nobody behind it is woken.                                       *)
MemCancel(c) ==
  /\ \E i \in DOMAIN memWaiters : memWaiters[i].who = c
  /\ memWaiters' = SelectSeq(memWaiters, LAMBDA w : w.who # c)
  /\ UNCHANGED <<cur, memGranted>>

(* The value of cur after wakeWaiters has admitted i waiters.              *)
Level(start) ==
  LET level[i \in 0 .. Len(memWaiters)] ==
        IF i = 0 THEN start ELSE level[i - 1] + memWaiters[i].n
  IN level

(* Mutant of WakesFirst: < for <= against the capacity. *)
WakesFirstStrict(start, k) ==
  /\ \A i \in 1 .. k : Level(start)[i] < Capacity
  /\ k < Len(memWaiters) => Level(start)[k + 1] >= Capacity

(* wakeWaiters stops after k waiters: the list is empty or the next one    *)
(* does not fit.                                                           *)
WakesFirst(start, k) ==
  /\ \A i \in 1 .. k : Level(start)[i] <= Capacity
  /\ k < Len(memWaiters) => Level(start)[k + 1] > Capacity

MemRelease(n) ==
  \E k \in 0 .. Len(memWaiters) :
    /\ WakesFirst(cur - n, k)
    /\ cur' = Level(cur - n)[k]
    /\ memWaiters' = SubSeq(memWaiters, k + 1, Len(memWaiters))
    /\ memGranted' = memGranted \cup {memWaiters[i].who : i \in 1 .. k}

MemTypeOK ==
  /\ cur \in Nat
  /\ memWaiters \in Seq([who : MemCallers, n : Nat])
  /\ memGranted \subseteq MemCallers
=============================================================================
