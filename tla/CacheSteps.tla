----------------------------- MODULE CacheSteps ------------------------------
(* What the operations of FileCache do to the count and to the opens of a  *)
(* path, point by point: the vocabulary of the proofs about its clients.   *)
EXTENDS FileCache

CacheTypes ==
  /\ refCount \in [Paths -> Nat] /\ opened \in [Paths -> Nat]
  /\ \A p \in Paths : refCount[p] > 0 => opened[p] > 0

CountsUp(p) ==
  /\ refCount' \in [Paths -> Nat] /\ refCount'[p] = refCount[p] + 1
  /\ \A q \in Paths \ {p} : refCount'[q] = refCount[q]

CountsDown(p) ==
  /\ refCount' \in [Paths -> Nat]
  /\ refCount'[p] = (IF refCount[p] = 0 THEN 0 ELSE refCount[p] - 1)
  /\ \A q \in Paths \ {p} : refCount'[q] = refCount[q]

(* Acquire of a path: one reference more, of the entry or of a new one.    *)
OpensOrShares(p) ==
  /\ CountsUp(p)
  /\ opened' \in [Paths -> Nat] /\ opened'[p] = Handle(p) /\ Handle(p) > 0
  /\ \A q \in Paths \ {p} : opened'[q] = opened[q]

SameCache == refCount' = refCount /\ opened' = opened
=============================================================================
