----------------------------- MODULE FileCache ------------------------------
(* The ref-counted cache of open files (cephfs_reader.go) that the         *)
(* goroutines of a CephFS worker share.  Every operation holds the lock of *)
(* the path's shard, so it is one step.                                    *)
(*                                                                         *)
(* The map and the handles change together: a handle is closed in the step *)
(* that removes its entry.  A handle of p is therefore named by the number *)
(* of the open that returned it, and it is open exactly as long as p has   *)
(* an entry with that number.                                              *)
EXTENDS Naturals

CONSTANT Paths

VARIABLES
  refCount,  \* refCount[p]: the entry's references, 0 when p has no entry
  opened     \* opened[p]: how many times p has been opened

cacheVars == <<refCount, opened>>

(* NewFileCache: no entry. *)
CacheInit ==
  /\ refCount = [p \in Paths |-> 0]
  /\ opened = [p \in Paths |-> 0]

HasEntry(p) == refCount[p] > 0

(* Handle number h of p has not been closed. *)
IsOpen(p, h) == HasEntry(p) /\ opened[p] = h

(* What Acquire returns: the entry's handle, or that of a new open. *)
Handle(p) == IF HasEntry(p) THEN opened[p] ELSE opened[p] + 1

(* Acquire that succeeds. Truncating a short file to its size is not       *)
(* visible here.                                                           *)
Acquire(p) ==
  /\ refCount' = [refCount EXCEPT ![p] = @ + 1]
  /\ opened' = [opened EXCEPT ![p] = Handle(p)]

(* Mutant of Release: a missing entry is not noticed. *)
ReleaseMissing(p) ==
  /\ refCount' = [refCount EXCEPT ![p] = @ - 1]
  /\ UNCHANGED opened

(* Release: a missing entry is no error; the last reference closes. *)
Release(p) ==
  /\ refCount' = [refCount EXCEPT ![p] = IF @ = 0 THEN 0 ELSE @ - 1]
  /\ UNCHANGED opened

(* Mutant of Guard: the entry is looked up and not held. *)
GuardNot(p) ==
  /\ HasEntry(p)
  /\ UNCHANGED cacheVars

(* The first part of SyncAndRelease: hold the entry while it is synced. *)
Guard(p) ==
  /\ HasEntry(p)
  /\ refCount' = [refCount EXCEPT ![p] = @ + 1]
  /\ UNCHANGED opened

(* Close: every entry goes, whatever its count. *)
CloseAll ==
  /\ refCount' = [p \in Paths |-> 0]
  /\ UNCHANGED opened
=============================================================================
