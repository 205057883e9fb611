-------------------------- MODULE DestinationProofs --------------------------
(***************************************************************************)
(* The inductive invariant of DestinationFiles for any number of streams,  *)
(* files and blocks, and the proof that the steps keep its first part: who *)
(* holds references of a file and what its count says of them.  Module     *)
(* FilesProofs goes on with the handles and what is on disk.               *)
(***************************************************************************)
EXTENDS DestinationFiles, CacheSteps, FiniteSetTheorems, TLAPS

ReleaseType ==
  {NotReleasing} \cup
  [step : {"sync", "guard", "own", "end"}, path : Paths, handle : Nat, ok : BOOLEAN]

DestTypes ==
  /\ CacheTypes
  /\ server \in {"serving", "exited"}
  /\ writer \in [Streams -> {"recv", "write", "cleanup", "returned"}]
  /\ files \in [Streams -> [Paths -> Nat]]
  /\ request \in [Streams -> SUBSET Blocks]
  /\ unwritten \in [Streams -> SUBSET Blocks]
  /\ failed \subseteq Streams
  /\ committer \in {"recv", "commit", "returned"}
  /\ uncommitted \subseteq batch /\ batch \subseteq asked /\ asked \subseteq Paths
  /\ release \in [Handlers -> ReleaseType]
  /\ unsent \subseteq Blocks /\ written \subseteq Blocks
  /\ unsynced \subseteq Paths /\ committed \subseteq asked
  /\ early \in BOOLEAN

In(h, steps, p) == release[h].step \in steps /\ release[h].path = p

(* Who holds a reference of p: the streams that keep its handle, until     *)
(* they have given it back, and everyone who is syncing it.                *)
Owns(s, p) == files[s][p] # 0 /\ ~In(s, {"end"}, p)
Owners(p) == {s \in Streams : Owns(s, p)}
Guardians(p) == {h \in Handlers : In(h, {"sync", "guard"}, p)}
Refs(p) == Cardinality(Owners(p)) + Cardinality(Guardians(p))

(* Commit may have given back a reference of p that it did not take.       *)
Pending(p) == committer = "commit" /\ p \in uncommitted /\ ~In(Committer, {"end"}, p)
Stolen(p) == p \in asked /\ ~Pending(p)

(* SyncAndRelease is running only where the handlers call it.              *)
ControlInv ==
  /\ \A s \in Streams : release[s] # NotReleasing =>
       writer[s] = "cleanup" /\ files[s][release[s].path] # 0
  /\ release[Committer] # NotReleasing =>
       committer = "commit" /\ release[Committer].path \in uncommitted
  /\ \A s \in Streams : writer[s] = "returned" => files[s] = [p \in Paths |-> 0]

(* A block is with the source, in one request, or acknowledged; a commit   *)
(* is asked for when all are acknowledged.                                 *)
BlockInv ==
  /\ unsent \cap acked = {}
  /\ \A s \in Streams : /\ unwritten[s] \subseteq request[s]
                        /\ request[s] \cap (unsent \cup acked) = {}
                        /\ request[s] \ unwritten[s] \subseteq written
  /\ \A s, t \in Streams : s # t => request[s] \cap request[t] = {}
  /\ acked \subseteq written /\ durable \subseteq written
  /\ ~early => \A p \in asked : BlocksOf(p) \subseteq acked

(* A count is never above the references held, so no entry stays; and as   *)
(* long as no commit is early it is below them by the stolen one at most.  *)
CountInv ==
  \A p \in Paths :
    /\ refCount[p] <= Refs(p)
    /\ ~early => Refs(p) <= refCount[p] + (IF Stolen(p) THEN 1 ELSE 0)

(* Whoever holds a reference has the handle of the entry.                  *)
HandleInv ==
  ~early =>
    /\ \A s \in Streams, p \in Paths \ asked : Owns(s, p) => files[s][p] = opened[p]
    /\ \A h \in Handlers : release[h].step = "sync" => release[h].handle = opened[release[h].path]

(* What is written is synced, or a stream that has yet to sync it holds    *)
(* its reference; what Commit has passed over is synced.                   *)
Owes(s, p) == files[s][p] # 0 /\ ~In(s, {"guard", "own", "end"}, p)
SyncedOrOwed ==
  \A p \in Paths \ unsynced :
    ~Stolen(p) => written \cap BlocksOf(p) \subseteq durable \/ \E s \in Streams : Owes(s, p)
Passed == committed \cup (batch \ uncommitted)
PassedDurable == \A p \in Passed \ unsynced : BlocksOf(p) \subseteq durable
CommitSynced ==
  \A p \in Paths : In(Committer, {"guard", "own", "end"}, p) /\ release[Committer].ok =>
    BlocksOf(p) \subseteq durable
DurableInv == ~early => SyncedOrOwed /\ PassedDurable /\ CommitSynced

(* A path is opened by a stream that has not opened it before.             *)
Openers(p) == {s \in Streams : files[s][p] # 0 \/ writer[s] \in {"cleanup", "returned"}}
OpenedInv == \A p \in Paths : opened[p] <= Cardinality(Openers(p))

DestInv ==
  DestTypes /\ ControlInv /\ BlockInv /\ CountInv /\ HandleInv /\ DurableInv /\ OpenedInv

-----------------------------------------------------------------------------
(* The cache                                                               *)

LEMMA DownStep ==
  ASSUME CacheTypes, NEW p \in Paths, Release(p)
  PROVE  CountsDown(p) /\ opened' = opened
BY DEF CacheTypes, Release, CountsDown

LEMMA UpStep ==
  ASSUME CacheTypes, NEW p \in Paths, Acquire(p)
  PROVE  OpensOrShares(p) /\ Handle(p) \in Nat
<1>1. Handle(p) \in Nat /\ Handle(p) > 0
  BY DEF CacheTypes, Handle, HasEntry
<1>2. QED
  BY <1>1 DEF CacheTypes, Acquire, OpensOrShares, CountsUp

LEMMA CacheKept ==
  ASSUME CacheTypes, NEW p \in Paths,
         \/ SameCache
         \/ OpensOrShares(p)
         \/ CountsDown(p) /\ opened' = opened
         \/ refCount[p] > 0 /\ CountsUp(p) /\ opened' = opened
  PROVE  CacheTypes'
<1>1. CASE SameCache
  BY <1>1 DEF CacheTypes, SameCache
<1>2. CASE OpensOrShares(p)
  BY <1>2 DEF CacheTypes, OpensOrShares, CountsUp
<1>3. CASE CountsDown(p) /\ opened' = opened
  BY <1>3 DEF CacheTypes, CountsDown
<1>4. CASE refCount[p] > 0 /\ CountsUp(p) /\ opened' = opened
  BY <1>4 DEF CacheTypes, CountsUp
<1>5. QED
  BY <1>1, <1>2, <1>3, <1>4

LEMMA OneMore ==
  ASSUME NEW S, NEW T, NEW x, IsFiniteSet(S), x \notin S, T = S \cup {x}
  PROVE  Cardinality(T) = Cardinality(S) + 1
BY FS_AddElement, FS_CardinalityType

LEMMA OneLess ==
  ASSUME NEW S, NEW T, NEW x, IsFiniteSet(S), x \in S, T = S \ {x}
  PROVE  Cardinality(T) = Cardinality(S) - 1 /\ Cardinality(S) > 0
<1>1. Cardinality(T) = Cardinality(S) - 1 /\ IsFiniteSet(T)
  BY FS_RemoveElement
<1>2. Cardinality(T) \in Nat /\ Cardinality(S) \in Nat
  BY <1>1, FS_CardinalityType
<1>3. QED
  BY <1>1, <1>2

-----------------------------------------------------------------------------
(* Steps of the destination, point by point                                *)

(* What the steps of SyncAndRelease do to the record of handler h.         *)
Moves(h, r) ==
  /\ release' \in [Handlers -> ReleaseType]
  /\ release'[h] = r
  /\ \A g \in Handlers \ {h} : release'[g] = release[g]

(* A handler that is in SyncAndRelease.                                    *)
LEMMA ReleaseRecord ==
  ASSUME DestTypes, NEW h \in Handlers, release[h] # NotReleasing
  PROVE  /\ release[h].step \in {"sync", "guard", "own", "end"} /\ release[h].path \in Paths
         /\ release[h].handle \in Nat /\ release[h].ok \in BOOLEAN
         /\ release[h] \in [step : {"sync", "guard", "own", "end"}, path : Paths, handle : Nat, ok : BOOLEAN]
<1>1. release[h] \in ReleaseType
  BY DEF DestTypes
<1>2. release[h] \in [step : {"sync", "guard", "own", "end"}, path : Paths, handle : Nat, ok : BOOLEAN]
  BY <1>1 DEF ReleaseType
<1>3. QED
  BY <1>2

LEMMA NotReleasingStep ==
  ASSUME DestTypes, NEW h \in Handlers
  PROVE  /\ release[h].step = "none" <=> release[h] = NotReleasing
         /\ NotReleasing.step = "none" /\ NotReleasing \in ReleaseType
<1>1. NotReleasing.step = "none" /\ NotReleasing \in ReleaseType
  BY DEF NotReleasing, ReleaseType
<1>2. QED
  BY <1>1, ReleaseRecord

LEMMA BeginStep ==
  ASSUME DestTypes, NEW h \in Handlers, NEW p \in Paths, BeginRelease(h, p)
  PROVE  /\ refCount[p] > 0 /\ CountsUp(p) /\ opened' = opened
         /\ Moves(h, [step |-> "sync", path |-> p, handle |-> opened[p], ok |-> TRUE])
<1>1. refCount \in [Paths -> Nat] /\ opened \in [Paths -> Nat] /\ release \in [Handlers -> ReleaseType]
  BY DEF DestTypes, CacheTypes
<1>2. refCount[p] > 0 /\ CountsUp(p) /\ opened' = opened
  BY <1>1 DEF BeginRelease, Guard, HasEntry, CountsUp
<1> DEFINE r == [step |-> "sync", path |-> p, handle |-> opened[p], ok |-> TRUE]
<1>3. r \in ReleaseType
  BY <1>1 DEF ReleaseType
<1>4. release' = [release EXCEPT ![h] = r]
  BY DEF BeginRelease
<1> HIDE DEF r
<1>5. Moves(h, r)
  BY <1>1, <1>3, <1>4 DEF Moves
<1>6. QED
  BY <1>2, <1>5 DEF r

(* The step of DropReference, for the path of the record.                  *)
LEMMA DropStep ==
  ASSUME DestTypes, NEW h \in Handlers, DropReference(h)
  PROVE  LET r == release[h] IN
         /\ r # NotReleasing /\ r.step \in {"guard", "own"} /\ r.path \in Paths
         /\ CountsDown(r.path) /\ opened' = opened
         /\ \E x \in ReleaseType :
              /\ Moves(h, x) /\ x # NotReleasing
              /\ x.step = (IF r.step = "guard" THEN "own" ELSE "end")
              /\ x.path = r.path /\ x.handle = r.handle /\ x.ok = r.ok
<1> DEFINE r == release[h]
           next == IF r.step = "guard" THEN "own" ELSE "end"
           x == [r EXCEPT !.step = next]
<1>1. r.step \in {"guard", "own"} /\ r # NotReleasing
  BY NotReleasingStep DEF DropReference
<1>2. r \in [step : {"sync", "guard", "own", "end"}, path : Paths, handle : Nat, ok : BOOLEAN]
      /\ r.path \in Paths
  BY <1>1, ReleaseRecord
<1>3. CountsDown(r.path) /\ opened' = opened
  BY <1>2, DownStep DEF DropReference, DestTypes
<1>4. release \in [Handlers -> ReleaseType]
  BY DEF DestTypes
<1>5. release' = [release EXCEPT ![h] = x]
  BY <1>4 DEF DropReference
<1>6. next \in {"own", "end"}
  BY <1>1
<1> HIDE DEF r, next
<1>7. /\ x \in [step : {"sync", "guard", "own", "end"}, path : Paths, handle : Nat, ok : BOOLEAN]
      /\ x.step = next /\ x.path = r.path /\ x.handle = r.handle /\ x.ok = r.ok
  BY <1>2, <1>6
<1> HIDE DEF x
<1>8. x \in ReleaseType /\ x # NotReleasing
  BY <1>6, <1>7 DEF ReleaseType, NotReleasing
<1>9. Moves(h, x)
  BY <1>4, <1>5, <1>8 DEF Moves
<1>10. QED
  BY <1>1, <1>2, <1>3, <1>7, <1>8, <1>9 DEF r, next

(* The step of SyncFile: fsync has worked, or it has not.                  *)
SyncsOk(h) ==
  /\ IsOpen(release[h].path, release[h].handle)
  /\ durable' = durable \cup (written \cap BlocksOf(release[h].path))
  /\ release'[h].ok = release[h].ok
  /\ unsynced' = unsynced
SyncsNot(h) ==
  /\ release'[h].ok = FALSE
  /\ unsynced' = (IF h = Committer THEN unsynced ELSE unsynced \cup {release[h].path})
  /\ durable' = durable

LEMMA SyncStep ==
  ASSUME DestTypes, NEW h \in Handlers, SyncFile(h)
  PROVE  LET r == release[h] IN
         /\ r # NotReleasing /\ r.step = "sync" /\ r.path \in Paths
         /\ SyncsOk(h) \/ SyncsNot(h)
         /\ \E x \in ReleaseType :
              /\ Moves(h, x) /\ x # NotReleasing
              /\ x.step = "guard" /\ x.path = r.path /\ x.handle = r.handle
<1> DEFINE r == release[h]
           x(b) == [r EXCEPT !.step = "guard", !.ok = b]
<1>1. r.step = "sync" /\ r # NotReleasing
  BY NotReleasingStep DEF SyncFile
<1>2. r \in [step : {"sync", "guard", "own", "end"}, path : Paths, handle : Nat, ok : BOOLEAN]
      /\ r.path \in Paths /\ r.ok \in BOOLEAN
  BY <1>1, ReleaseRecord
<1>3. release \in [Handlers -> ReleaseType]
  BY DEF DestTypes
<1>4. \/ release' = [release EXCEPT ![h] = [r EXCEPT !.step = "guard"]] /\ SyncsOk(h)
      \/ release' = [release EXCEPT ![h] = x(FALSE)] /\ SyncsNot(h)
  <2>1. CASE /\ IsOpen(r.path, r.handle)
             /\ durable' = durable \cup (written \cap BlocksOf(r.path))
             /\ release' = [release EXCEPT ![h].step = "guard"]
             /\ UNCHANGED unsynced
    <3>1. release' = [release EXCEPT ![h] = [r EXCEPT !.step = "guard"]]
      BY <2>1, <1>3
    <3>2. release'[h].ok = r.ok
      BY <3>1, <1>2, <1>3
    <3>3. QED
      BY <2>1, <3>1, <3>2 DEF SyncsOk
  <2>2. CASE /\ release' = [release EXCEPT ![h].step = "guard", ![h].ok = FALSE]
             /\ unsynced' = IF h = Committer THEN unsynced ELSE unsynced \cup {r.path}
             /\ UNCHANGED durable
    <3>1. release' = [release EXCEPT ![h] = x(FALSE)]
      BY Zenon, <2>2, <1>3
    <3>2. release'[h].ok = FALSE
      BY <3>1, <1>2, <1>3
    <3>3. QED
      BY Zenon, <2>2, <3>1, <3>2 DEF SyncsNot
  <2>3. QED
    BY <2>1, <2>2 DEF SyncFile
<1>5. \E b \in BOOLEAN : release' = [release EXCEPT ![h] = x(b)]
  <2>1. [r EXCEPT !.step = "guard"] = x(r.ok)
    BY Zenon, <1>2
  <2>2. QED
    BY Zenon, <1>2, <1>4, <2>1
<1>6. PICK b \in BOOLEAN : release' = [release EXCEPT ![h] = x(b)]
  BY Zenon, <1>5
<1> HIDE DEF r
<1>7. /\ x(b) \in [step : {"sync", "guard", "own", "end"}, path : Paths, handle : Nat, ok : BOOLEAN]
      /\ x(b).step = "guard" /\ x(b).path = r.path /\ x(b).handle = r.handle
  BY Zenon, <1>2
<1> HIDE DEF x
<1>8. x(b) \in ReleaseType /\ x(b) # NotReleasing
  BY <1>7 DEF ReleaseType, NotReleasing
<1>9. Moves(h, x(b))
  BY <1>3, <1>6, <1>8 DEF Moves
<1>10. QED
  BY Zenon, <1>1, <1>2, <1>4, <1>7, <1>8, <1>9 DEF r

(* The map of the handles of a Write handler.                              *)
Keeps(s, p, v) ==
  /\ files' \in [Streams -> [Paths -> Nat]] /\ files'[s][p] = v
  /\ \A t \in Streams, q \in Paths : t # s \/ q # p => files'[t][q] = files[t][q]

LEMMA KeepStep ==
  ASSUME DestTypes, NEW s \in Streams, NEW p \in Paths, NEW v \in Nat,
         files' = [files EXCEPT ![s][p] = v]
  PROVE  Keeps(s, p, v)
<1>1. files \in [Streams -> [Paths -> Nat]]
  BY DEF DestTypes
<1> DEFINE f == [files[s] EXCEPT ![p] = v]
<1>2. f \in [Paths -> Nat] /\ f[p] = v /\ \A q \in Paths : q # p => f[q] = files[s][q]
  BY <1>1
<1>3. files' = [files EXCEPT ![s] = f]
  BY <1>1
<1> HIDE DEF f
<1>4. QED
  BY <1>1, <1>2, <1>3 DEF Keeps

AcquireEffect(s, b) ==
  /\ b \in unwritten[s] /\ b \in Blocks /\ PathOf[b] \in Paths
  /\ files[s][PathOf[b]] = 0
  /\ OpensOrShares(PathOf[b])
  /\ Keeps(s, PathOf[b], Handle(PathOf[b]))

LEMMA AcquireStep ==
  ASSUME DestTypes, NEW s \in Streams, AcquireFile(s)
  PROVE  \E b \in Blocks : AcquireEffect(s, b)
<1>1. PICK b \in unwritten[s] : /\ files[s][PathOf[b]] = 0
                                /\ Acquire(PathOf[b])
                                /\ files' = [files EXCEPT ![s][PathOf[b]] = Handle(PathOf[b])]
  BY Zenon DEF AcquireFile
<1>2. b \in Blocks /\ PathOf[b] \in Paths
  BY DestinationAssumption DEF DestTypes
<1>3. OpensOrShares(PathOf[b]) /\ Handle(PathOf[b]) \in Nat
  BY <1>1, <1>2, UpStep DEF DestTypes
<1>4. Keeps(s, PathOf[b], Handle(PathOf[b]))
  BY Zenon, <1>1, <1>2, <1>3, KeepStep
<1>5. QED
  BY <1>1, <1>2, <1>3, <1>4 DEF AcquireEffect

(* The three steps of the loop that cleans up.                             *)
Starts(h, p) ==
  /\ release[h] = NotReleasing /\ refCount[p] > 0 /\ CountsUp(p) /\ opened' = opened
  /\ Moves(h, [step |-> "sync", path |-> p, handle |-> opened[p], ok |-> TRUE])

CleanupEffect(s, p) ==
  /\ files[s][p] # 0
  /\ \/ Starts(s, p) /\ files' = files
     \/ /\ release[s] = NotReleasing /\ refCount[p] = 0
        /\ Keeps(s, p, 0) /\ release' = release /\ SameCache
     \/ /\ release[s] # NotReleasing /\ release[s].step = "end" /\ release[s].path = p
        /\ Keeps(s, p, 0) /\ Moves(s, NotReleasing) /\ SameCache

LEMMA StartStep ==
  ASSUME DestTypes, NEW h \in Handlers, NEW p \in Paths, release[h].step = "none", BeginRelease(h, p)
  PROVE  Starts(h, p)
BY BeginStep, NotReleasingStep DEF Starts

LEMMA ClearStep ==
  ASSUME DestTypes, NEW h \in Handlers, release' = [release EXCEPT ![h] = NotReleasing]
  PROVE  Moves(h, NotReleasing)
BY NotReleasingStep DEF DestTypes, Moves

LEMMA CleanupStep ==
  ASSUME DestTypes, NEW s \in Streams, CleanupFile(s)
  PROVE  failed' \subseteq Streams /\ \E p \in Paths : CleanupEffect(s, p)
<1>1. s \in Handlers
  BY DEF Handlers
<1>2. PICK p \in Paths :
        /\ files[s][p] # 0
        /\ \/ /\ release[s].step = "none"
              /\ BeginRelease(s, p)
              /\ UNCHANGED <<files, failed>>
           \/ /\ release[s].step = "none"
              /\ ~HasEntry(p)
              /\ files' = [files EXCEPT ![s][p] = 0]
              /\ UNCHANGED <<cacheVars, release, failed>>
           \/ /\ release[s].step = "end"
              /\ release[s].path = p
              /\ files' = [files EXCEPT ![s][p] = 0]
              /\ failed' = IF release[s].ok THEN failed ELSE failed \cup {s}
              /\ release' = [release EXCEPT ![s] = NotReleasing]
              /\ UNCHANGED cacheVars
  BY DEF CleanupFile
<1>3. failed \subseteq Streams
  BY DEF DestTypes
<1>4. CASE release[s].step = "none" /\ BeginRelease(s, p) /\ UNCHANGED <<files, failed>>
  BY <1>1, <1>2, <1>3, <1>4, StartStep DEF CleanupEffect
<1>5. CASE /\ release[s].step = "none" /\ ~HasEntry(p)
           /\ files' = [files EXCEPT ![s][p] = 0]
           /\ UNCHANGED <<cacheVars, release, failed>>
  <2>1. refCount[p] = 0
    BY <1>5 DEF HasEntry, DestTypes, CacheTypes
  <2>2. release[s] = NotReleasing
    BY <1>1, <1>5, NotReleasingStep
  <2>3. Keeps(s, p, 0)
    BY Zenon, <1>5, KeepStep
  <2>4. QED
    BY <1>2, <1>3, <1>5, <2>1, <2>2, <2>3 DEF CleanupEffect, SameCache, cacheVars
<1>6. CASE /\ release[s].step = "end" /\ release[s].path = p
           /\ files' = [files EXCEPT ![s][p] = 0]
           /\ failed' = IF release[s].ok THEN failed ELSE failed \cup {s}
           /\ release' = [release EXCEPT ![s] = NotReleasing]
           /\ UNCHANGED cacheVars
  <2>1. Moves(s, NotReleasing)
    BY Zenon, <1>1, <1>6, ClearStep
  <2>2. release[s] # NotReleasing
    BY <1>1, <1>6, NotReleasingStep
  <2>3. Keeps(s, p, 0)
    BY Zenon, <1>6, KeepStep
  <2>4. failed' \subseteq Streams
    BY <1>3, <1>6
  <2>5. QED
    BY <1>2, <1>6, <2>1, <2>2, <2>3, <2>4 DEF CleanupEffect, SameCache, cacheVars
<1>7. QED
  BY <1>2, <1>4, <1>5, <1>6

(* The three steps of the loop of Commit.                                  *)
CommitEffect(p) ==
  /\ p \in uncommitted
  /\ \/ Starts(Committer, p) /\ uncommitted' = uncommitted
     \/ /\ release[Committer] = NotReleasing /\ refCount[p] = 0
        /\ uncommitted' = uncommitted \ {p} /\ release' = release /\ SameCache
     \/ /\ release[Committer] # NotReleasing
        /\ release[Committer].step = "end" /\ release[Committer].path = p /\ release[Committer].ok
        /\ uncommitted' = uncommitted \ {p} /\ Moves(Committer, NotReleasing) /\ SameCache

LEMMA CommitterHandles == Committer \in Handlers
BY DEF Handlers

LEMMA CommitStep ==
  ASSUME DestTypes, CommitFile
  PROVE  \E p \in Paths : CommitEffect(p)
<1>1. PICK p \in uncommitted :
        \/ /\ release[Committer].step = "none"
           /\ BeginRelease(Committer, p)
           /\ UNCHANGED uncommitted
        \/ /\ release[Committer].step = "none"
           /\ ~HasEntry(p)
           /\ uncommitted' = uncommitted \ {p}
           /\ UNCHANGED <<cacheVars, release>>
        \/ /\ release[Committer].step = "end"
           /\ release[Committer].path = p
           /\ release[Committer].ok
           /\ uncommitted' = uncommitted \ {p}
           /\ release' = [release EXCEPT ![Committer] = NotReleasing]
           /\ UNCHANGED cacheVars
  BY DEF CommitFile
<1>2. p \in Paths
  BY DEF DestTypes
<1>3. CASE release[Committer].step = "none" /\ BeginRelease(Committer, p) /\ UNCHANGED uncommitted
  BY <1>2, <1>3, StartStep, CommitterHandles DEF CommitEffect
<1>4. CASE /\ release[Committer].step = "none" /\ ~HasEntry(p)
           /\ uncommitted' = uncommitted \ {p}
           /\ UNCHANGED <<cacheVars, release>>
  <2>1. refCount[p] = 0
    BY <1>2, <1>4 DEF HasEntry, DestTypes, CacheTypes
  <2>2. release[Committer] = NotReleasing
    BY <1>4, NotReleasingStep, CommitterHandles
  <2>3. QED
    BY <1>2, <1>4, <2>1, <2>2 DEF CommitEffect, SameCache, cacheVars
<1>5. CASE /\ release[Committer].step = "end" /\ release[Committer].path = p /\ release[Committer].ok
           /\ uncommitted' = uncommitted \ {p}
           /\ release' = [release EXCEPT ![Committer] = NotReleasing]
           /\ UNCHANGED cacheVars
  <2>1. Moves(Committer, NotReleasing)
    BY Zenon, <1>5, ClearStep, CommitterHandles
  <2>2. release[Committer] # NotReleasing
    BY <1>5, NotReleasingStep, CommitterHandles
  <2>3. QED
    BY <1>2, <1>5, <2>1, <2>2 DEF CommitEffect, SameCache, cacheVars
<1>6. QED
  BY <1>1, <1>3, <1>4, <1>5

-----------------------------------------------------------------------------
(* Types and control of the destination                                    *)

LEMMA DestTypesKept ==
  ASSUME DestTypes, DestNext
  PROVE  DestTypes'
<1>1. ASSUME NEW s \in Streams, ReceiveWrite(s) PROVE DestTypes'
  BY <1>1 DEF ReceiveWrite, DestTypes, CacheTypes, cacheVars
<1>2. ASSUME NEW s \in Streams, AcquireFile(s) PROVE DestTypes'
  <2>1. PICK b \in Blocks : AcquireEffect(s, b)
    BY <1>2, AcquireStep
  <2>2. CacheTypes'
    BY <2>1, CacheKept DEF AcquireEffect, DestTypes
  <2>3. files' \in [Streams -> [Paths -> Nat]]
    BY <2>1 DEF AcquireEffect, Keeps
  <2>4. QED
    BY <1>2, <2>2, <2>3 DEF AcquireFile, DestTypes
<1>3. ASSUME NEW s \in Streams, WriteBlock(s) PROVE DestTypes'
  BY <1>3 DEF WriteBlock, DestTypes, CacheTypes, cacheVars
<1>4. ASSUME NEW s \in Streams, SendAck(s) PROVE DestTypes'
  BY <1>4 DEF SendAck, DestTypes, CacheTypes, cacheVars
<1>5. ASSUME NEW s \in Streams, WriteFails(s) PROVE DestTypes'
  BY <1>5 DEF WriteFails, DestTypes, CacheTypes, cacheVars
<1>6. ASSUME NEW s \in Streams, StreamEnds(s) PROVE DestTypes'
  BY <1>6 DEF StreamEnds, DestTypes, CacheTypes, cacheVars
<1>7. ASSUME NEW s \in Streams, CleanupFile(s) PROVE DestTypes'
  <2>1. PICK p \in Paths : CleanupEffect(s, p)
    BY Zenon, <1>7, CleanupStep
  <2>2. CacheTypes'
    BY <2>1, CacheKept DEF CleanupEffect, Starts, DestTypes
  <2>3. files' \in [Streams -> [Paths -> Nat]]
    BY <2>1 DEF CleanupEffect, Keeps, DestTypes
  <2>4. release' \in [Handlers -> ReleaseType]
    BY <2>1 DEF CleanupEffect, Moves, Starts, DestTypes
  <2>5. failed' \subseteq Streams
    BY <1>7, CleanupStep
  <2>6. QED
    BY <1>7, <2>2, <2>3, <2>4, <2>5 DEF CleanupFile, DestTypes
<1>8. ASSUME NEW s \in Streams, WriteReturns(s) PROVE DestTypes'
  BY <1>8 DEF WriteReturns, DestTypes, CacheTypes, cacheVars
<1>9. ASSUME NEW h \in Handlers, SyncFile(h) PROVE DestTypes'
  <2>1. release' \in [Handlers -> ReleaseType] /\ release[h].path \in Paths
    BY <1>9, SyncStep DEF Moves
  <2>2. unsynced' \subseteq Paths
    BY <1>9, <2>1 DEF SyncFile, DestTypes
  <2>3. CacheTypes'
    BY <1>9 DEF SyncFile, DestTypes, CacheTypes, cacheVars
  <2>4. QED
    BY <1>9, <2>1, <2>2, <2>3 DEF SyncFile, DestTypes
<1>10. ASSUME NEW h \in Handlers, DropReference(h) PROVE DestTypes'
  <2>1. release' \in [Handlers -> ReleaseType]
    BY <1>10, DropStep DEF Moves
  <2>2. CacheTypes'
    BY <1>10, DropStep, CacheKept DEF DestTypes
  <2>3. QED
    BY <1>10, <2>1, <2>2 DEF DropReference, DestTypes
<1>11. ASSUME ReceiveCommit PROVE DestTypes'
  BY <1>11 DEF ReceiveCommit, DestTypes, CacheTypes, cacheVars
<1>12. ASSUME CommitFile PROVE DestTypes'
  <2>1. PICK p \in Paths : CommitEffect(p)
    BY <1>12, CommitStep
  <2>2. CacheTypes'
    BY <2>1, CacheKept DEF CommitEffect, Starts, DestTypes
  <2>3. release' \in [Handlers -> ReleaseType]
    BY <2>1 DEF CommitEffect, Moves, Starts, DestTypes
  <2>4. uncommitted' \subseteq uncommitted
    BY <2>1 DEF CommitEffect
  <2>5. QED
    BY <1>12, <2>2, <2>3, <2>4 DEF CommitFile, DestTypes
<1>13. ASSUME SendCommitted PROVE DestTypes'
  BY <1>13 DEF SendCommitted, DestTypes, CacheTypes, cacheVars
<1>14. ASSUME CommitReturns PROVE DestTypes'
  <2>1. release' \in [Handlers -> ReleaseType]
    BY Zenon, <1>14, ClearStep, CommitterHandles DEF CommitReturns, Moves
  <2>2. QED
    BY <1>14, <2>1 DEF CommitReturns, DestTypes, CacheTypes, cacheVars
<1>15. ASSUME ExitServer PROVE DestTypes'
  BY <1>15 DEF ExitServer, CloseAll, DestTypes, CacheTypes
<1>16. QED
  BY Zenon, <1>1, <1>2, <1>3, <1>4, <1>5, <1>6, <1>7, <1>8, <1>9, <1>10, <1>11, <1>12, <1>13, <1>14, <1>15
     DEF DestNext

(* Steps that leave SyncAndRelease and the handles kept alone.             *)
Aside == release' = release /\ files' = files

LEMMA ControlKept ==
  ASSUME DestTypes, DestTypes', ControlInv, DestNext
  PROVE  ControlInv'
<1>1. /\ \A s \in Streams : release[s] # NotReleasing =>
           writer[s] = "cleanup" /\ files[s][release[s].path] # 0
      /\ release[Committer] # NotReleasing =>
           committer = "commit" /\ release[Committer].path \in uncommitted
      /\ \A s \in Streams : writer[s] = "returned" => files[s] = [p \in Paths |-> 0]
  BY DEF ControlInv
<1>2. Streams \subseteq Handlers /\ Committer \notin Streams
  BY DestinationAssumption DEF Handlers
<1>3. writer \in [Streams -> {"recv", "write", "cleanup", "returned"}]
  BY DEF DestTypes
<1>4. ASSUME NEW s \in Streams, Aside, committer' = committer, uncommitted' = uncommitted,
             \/ writer[s] \in {"recv", "write"} /\ writer' = [writer EXCEPT ![s] = "cleanup"]
             \/ writer[s] = "recv" /\ writer' = [writer EXCEPT ![s] = "write"]
             \/ writer[s] = "write" /\ writer' = [writer EXCEPT ![s] = "recv"]
             \/ writer' = writer
      PROVE ControlInv'
  <2>1. \A t \in Streams : /\ writer[t] = "cleanup" => writer'[t] = "cleanup"
                           /\ writer'[t] = "returned" => writer[t] = "returned"
    BY <1>4, <1>3
  <2>2. QED
    BY <1>1, <1>4, <2>1, Zenon DEF ControlInv, Aside
<1>5. ASSUME NEW s \in Streams, ReceiveWrite(s) PROVE ControlInv'
  BY Zenon, <1>4, <1>5 DEF ReceiveWrite, Aside
<1>6. ASSUME NEW s \in Streams, AcquireFile(s) PROVE ControlInv'
  <2>1. PICK b \in Blocks : AcquireEffect(s, b)
    BY Zenon, <1>6, AcquireStep
  <2> DEFINE p == PathOf[b]
  <2>2. /\ p \in Paths /\ files[s][p] = 0 /\ files'[s][p] # 0
        /\ \A t \in Streams, q \in Paths : t # s \/ q # p => files'[t][q] = files[t][q]
    BY <2>1 DEF AcquireEffect, Keeps, OpensOrShares
  <2>3. /\ writer' = writer /\ release' = release /\ writer[s] = "write"
        /\ committer' = committer /\ uncommitted' = uncommitted
    BY <1>6 DEF AcquireFile
  <2> HIDE DEF p
  <2>4. ASSUME NEW t \in Streams, release'[t] # NotReleasing
        PROVE writer'[t] = "cleanup" /\ files'[t][release'[t].path] # 0
    <3>1. writer[t] = "cleanup" /\ files[t][release[t].path] # 0 /\ release[t].path \in Paths
      BY <1>1, <1>2, <2>3, <2>4, ReleaseRecord
    <3>2. QED
      BY <3>1, <2>2, <2>3
  <2>5. ASSUME NEW t \in Streams, writer'[t] = "returned" PROVE files'[t] = [q \in Paths |-> 0]
    <3>1. t # s /\ files[t] = [q \in Paths |-> 0]
      BY <1>1, <2>3, <2>5
    <3>2. files'[t] \in [Paths -> Nat]
      BY DEF DestTypes
    <3>3. \A q \in Paths : files'[t][q] = 0
      BY Zenon, <3>1, <2>2
    <3>4. QED
      BY <3>2, <3>3
  <2>6. QED
    BY <1>1, <2>3, <2>4, <2>5 DEF ControlInv
<1>7. ASSUME NEW s \in Streams, WriteBlock(s) PROVE ControlInv'
  BY <1>4, <1>7 DEF WriteBlock, Aside
<1>8. ASSUME NEW s \in Streams, SendAck(s) PROVE ControlInv'
  BY Zenon, <1>4, <1>8 DEF SendAck, Aside
<1>9. ASSUME NEW s \in Streams, WriteFails(s) PROVE ControlInv'
  BY Zenon, <1>4, <1>9 DEF WriteFails, Aside
<1>10. ASSUME NEW s \in Streams, StreamEnds(s) PROVE ControlInv'
  BY ZenonT(30), <1>4, <1>10 DEF StreamEnds, Aside
<1>11. ASSUME NEW s \in Streams, CleanupFile(s) PROVE ControlInv'
  <2>1. PICK p \in Paths : CleanupEffect(s, p)
    BY <1>11, CleanupStep
  <2>2. writer' = writer /\ writer[s] = "cleanup" /\ committer' = committer /\ uncommitted' = uncommitted
    BY Zenon, <1>11 DEF CleanupFile
  <2>3. \A g \in Handlers \ {s} : release'[g] = release[g]
    BY Zenon, <2>1 DEF CleanupEffect, Starts, Moves
  <2>4. /\ files' \in [Streams -> [Paths -> Nat]] /\ files \in [Streams -> [Paths -> Nat]]
        /\ \A t \in Streams \ {s}, q \in Paths : files'[t][q] = files[t][q]
    BY <2>1 DEF CleanupEffect, Keeps, DestTypes
  <2>5. \A t \in Streams \ {s} : files'[t] = files[t]
    BY <2>4
  <2>6. release'[s] # NotReleasing => files'[s][release'[s].path] # 0
    BY <2>1 DEF CleanupEffect, Starts, Moves
  <2>7. QED
    BY Zenon, <1>1, <1>2, <2>2, <2>3, <2>5, <2>6, CommitterHandles DEF ControlInv
<1>12. ASSUME NEW s \in Streams, WriteReturns(s) PROVE ControlInv'
  <2>1. /\ writer[s] = "cleanup" /\ files[s] = [p \in Paths |-> 0]
        /\ writer' = [writer EXCEPT ![s] = "returned"]
        /\ Aside /\ committer' = committer /\ uncommitted' = uncommitted
    BY <1>12 DEF WriteReturns, Aside
  <2>2. release[s] = NotReleasing
    <3>1. SUFFICES ASSUME release[s] # NotReleasing PROVE FALSE
      OBVIOUS
    <3>2. release[s].path \in Paths
      BY Zenon, <1>2, <3>1, ReleaseRecord
    <3>3. QED
      BY <1>1, <2>1, <3>1, <3>2
  <2>3. QED
    BY Zenon, <1>1, <1>3, <2>1, <2>2 DEF ControlInv, Aside
<1>13. ASSUME NEW h \in Handlers, NEW x \in ReleaseType, release[h] # NotReleasing, Moves(h, x),
              x.path = release[h].path, files' = files, writer' = writer,
              committer' = committer, uncommitted' = uncommitted
       PROVE ControlInv'
  <2>1. release'[h] = x /\ \A g \in Handlers \ {h} : release'[g] = release[g]
    BY <1>13 DEF Moves
  <2>2. QED
    BY <1>1, <1>2, <1>13, <2>1, CommitterHandles DEF ControlInv
<1>14. ASSUME NEW h \in Handlers, SyncFile(h) PROVE ControlInv'
  <2>1. release[h] # NotReleasing /\ \E x \in ReleaseType : Moves(h, x) /\ x.path = release[h].path
    BY <1>14, SyncStep
  <2>2. QED
    BY <1>13, <1>14, <2>1 DEF SyncFile
<1>15. ASSUME NEW h \in Handlers, DropReference(h) PROVE ControlInv'
  <2>1. release[h] # NotReleasing /\ \E x \in ReleaseType : Moves(h, x) /\ x.path = release[h].path
    BY <1>15, DropStep
  <2>2. QED
    BY <1>13, <1>15, <2>1 DEF DropReference
<1>16. ASSUME ReceiveCommit PROVE ControlInv'
  <2>1. release[Committer] = NotReleasing /\ Aside /\ writer' = writer
    BY Zenon, <1>1, <1>16 DEF ReceiveCommit, Aside
  <2>2. QED
    BY <1>1, <2>1 DEF ControlInv, Aside
<1>17. ASSUME CommitFile PROVE ControlInv'
  <2>1. PICK p \in Paths : CommitEffect(p)
    BY <1>17, CommitStep
  <2>2. writer' = writer /\ files' = files /\ committer = "commit" /\ committer' = committer
    BY <1>17 DEF CommitFile
  <2>3. \A s \in Streams : release'[s] = release[s]
    BY <1>2, <2>1 DEF CommitEffect, Starts, Moves
  <2>4. release'[Committer] # NotReleasing => release'[Committer].path \in uncommitted'
    BY <2>1 DEF CommitEffect, Starts, Moves
  <2>5. QED
    BY <1>1, <2>2, <2>3, <2>4 DEF ControlInv
<1>18. ASSUME SendCommitted PROVE ControlInv'
  <2>1. release[Committer] = NotReleasing /\ Aside /\ writer' = writer
    BY Zenon, <1>1, <1>18 DEF SendCommitted, Aside
  <2>2. QED
    BY <1>1, <2>1 DEF ControlInv, Aside
<1>19. ASSUME CommitReturns PROVE ControlInv'
  <2>1. Moves(Committer, NotReleasing) /\ files' = files /\ writer' = writer
    BY Zenon, <1>19, ClearStep, CommitterHandles DEF CommitReturns
  <2>2. release'[Committer] = NotReleasing /\ \A s \in Streams : release'[s] = release[s]
    BY Zenon, <1>2, <2>1 DEF Moves
  <2>3. QED
    BY <1>1, <2>1, <2>2 DEF ControlInv
<1>20. ASSUME ExitServer PROVE ControlInv'
  BY <1>1, <1>20 DEF ExitServer, ControlInv
<1>21. QED
  BY Zenon, <1>5, <1>6, <1>7, <1>8, <1>9, <1>10, <1>11, <1>12, <1>14, <1>15, <1>16, <1>17, <1>18, <1>19, <1>20
     DEF DestNext

-----------------------------------------------------------------------------
(* Blocks of the destination                                               *)

LEMMA BlockKept ==
  ASSUME DestTypes, BlockInv, DestNext
  PROVE  BlockInv'
<1>1. /\ unwritten \in [Streams -> SUBSET Blocks] /\ request \in [Streams -> SUBSET Blocks]
  BY DEF DestTypes
<1>2. ASSUME NEW s \in Streams, ReceiveWrite(s) PROVE BlockInv'
  <2>1. PICK B \in (SUBSET unsent) \ {{}} :
          /\ request' = [request EXCEPT ![s] = B]
          /\ unwritten' = [unwritten EXCEPT ![s] = B]
          /\ unsent' = unsent \ B
    BY Zenon, <1>2 DEF ReceiveWrite
  <2>2. /\ request'[s] = B /\ unwritten'[s] = B
        /\ \A t \in Streams \ {s} : request'[t] = request[t] /\ unwritten'[t] = unwritten[t]
    BY <1>1, <2>1
  <2>3. /\ acked' = acked /\ asked' = asked /\ written' = written
        /\ durable' = durable /\ early' = early
    BY <1>2 DEF ReceiveWrite
  <2>4. \A t \in Streams : /\ unwritten'[t] \subseteq request'[t]
                           /\ request'[t] \cap (unsent' \cup acked') = {}
                           /\ request'[t] \ unwritten'[t] \subseteq written'
    BY <2>1, <2>2, <2>3 DEF BlockInv
  <2>5. \A t, u \in Streams : t # u => request'[t] \cap request'[u] = {}
    BY <2>1, <2>2 DEF BlockInv
  <2>6. QED
    BY <2>1, <2>3, <2>4, <2>5 DEF BlockInv
<1>3. ASSUME NEW s \in Streams, WriteBlock(s) PROVE BlockInv'
  <2>1. PICK b \in unwritten[s] :
          /\ written' = written \cup {b}
          /\ unwritten' = [unwritten EXCEPT ![s] = @ \ {b}]
    BY Zenon, <1>3 DEF WriteBlock
  <2>2. /\ unwritten'[s] = unwritten[s] \ {b}
        /\ \A t \in Streams \ {s} : unwritten'[t] = unwritten[t]
    BY Zenon, SMTT(20), <1>1, <2>1
  <2>3. /\ acked' = acked /\ asked' = asked /\ request' = request /\ unsent' = unsent
        /\ durable' = durable /\ early' = early
    BY <1>3 DEF WriteBlock
  <2>4. \A t \in Streams : /\ unwritten'[t] \subseteq request'[t]
                           /\ request'[t] \ unwritten'[t] \subseteq written'
    BY Zenon, <2>1, <2>2, <2>3 DEF BlockInv
  <2>5. QED
    BY <2>1, <2>3, <2>4 DEF BlockInv
<1>4. ASSUME NEW s \in Streams, SendAck(s) PROVE BlockInv'
  <2>1. /\ unwritten[s] = {} /\ acked' = acked \cup request[s]
        /\ request' = [request EXCEPT ![s] = {}]
        /\ asked' = asked /\ unwritten' = unwritten /\ unsent' = unsent
        /\ written' = written /\ durable' = durable /\ early' = early
    BY <1>4 DEF SendAck
  <2>2. request'[s] = {} /\ \A t \in Streams \ {s} : request'[t] = request[t]
    BY Zenon, <1>1, <2>1
  <2>3. \A t \in Streams : /\ unwritten'[t] \subseteq request'[t]
                           /\ request'[t] \cap (unsent' \cup acked') = {}
                           /\ request'[t] \ unwritten'[t] \subseteq written'
    BY <2>1, <2>2 DEF BlockInv
  <2>4. \A t, u \in Streams : t # u => request'[t] \cap request'[u] = {}
    BY <2>2 DEF BlockInv
  <2>5. unsent' \cap acked' = {} /\ acked' \subseteq written'
    BY Zenon, <2>1 DEF BlockInv
  <2>6. QED
    BY Zenon, <2>1, <2>3, <2>4, <2>5 DEF BlockInv
<1>5. ASSUME NEW h \in Handlers, SyncFile(h) PROVE BlockInv'
  <2>1. durable \subseteq written => durable' \subseteq written
    BY <1>5 DEF SyncFile
  <2>2. /\ acked' = acked /\ asked' = asked /\ request' = request /\ unwritten' = unwritten
        /\ unsent' = unsent /\ written' = written /\ early' = early
    BY Zenon, <1>5 DEF SyncFile
  <2>3. QED
    BY <2>1, <2>2 DEF BlockInv
<1>6. ASSUME ReceiveCommit PROVE BlockInv'
  <2>1. PICK P \in (SUBSET (Paths \ asked)) \ {{}} :
          /\ asked' = asked \cup P
          /\ early' = (early \/ \E p \in P : ~ BlocksOf(p) \subseteq acked)
    BY <1>6 DEF ReceiveCommit
  <2>2. /\ acked' = acked /\ request' = request /\ unwritten' = unwritten
        /\ unsent' = unsent /\ written' = written /\ durable' = durable
    BY <1>6 DEF ReceiveCommit
  <2>3. ~early' => \A p \in asked' : BlocksOf(p) \subseteq acked'
    BY Zenon, <2>1, <2>2 DEF BlockInv
  <2>4. QED
    BY <2>2, <2>3 DEF BlockInv
<1>7. ASSUME UNCHANGED <<unsent, acked, request, unwritten, written, durable, asked, early>>
      PROVE  BlockInv'
  BY Zenon, <1>7 DEF BlockInv
<1>8. ASSUME NEW s \in Streams, AcquireFile(s) \/ WriteFails(s) \/ StreamEnds(s)
                                \/ CleanupFile(s) \/ WriteReturns(s)
      PROVE  BlockInv'
  BY <1>7, <1>8 DEF AcquireFile, WriteFails, StreamEnds, CleanupFile, WriteReturns
<1>9. ASSUME NEW h \in Handlers, DropReference(h) PROVE BlockInv'
  BY Zenon, <1>7, <1>9 DEF DropReference
<1>10. ASSUME CommitFile \/ SendCommitted \/ CommitReturns \/ ExitServer PROVE BlockInv'
  BY <1>7, <1>10 DEF CommitFile, SendCommitted, CommitReturns, ExitServer
<1>11. QED
  BY Zenon, <1>2, <1>3, <1>4, <1>5, <1>6, <1>8, <1>9, <1>10 DEF DestNext

-----------------------------------------------------------------------------
(* References of the destination                                           *)

LEMMA HandlersFinite ==
  IsFiniteSet(Handlers) /\ Cardinality(Handlers) = Cardinality(Streams) + 1
BY DestinationAssumption, FS_AddElement DEF Handlers

LEMMA RefsAreNumbers ==
  ASSUME NEW p \in Paths
  PROVE  /\ IsFiniteSet(Owners(p)) /\ Cardinality(Owners(p)) \in Nat
         /\ Cardinality(Owners(p)) <= Cardinality(Streams)
         /\ IsFiniteSet(Guardians(p)) /\ Cardinality(Guardians(p)) \in Nat
         /\ Cardinality(Guardians(p)) <= Cardinality(Handlers)
         /\ Refs(p) \in Nat
<1>1. Owners(p) \subseteq Streams /\ Guardians(p) \subseteq Handlers
  BY DEF Owners, Guardians
<1>2. /\ IsFiniteSet(Owners(p)) /\ Cardinality(Owners(p)) <= Cardinality(Streams)
      /\ IsFiniteSet(Guardians(p)) /\ Cardinality(Guardians(p)) <= Cardinality(Handlers)
  BY <1>1, FS_Subset, HandlersFinite, DestinationAssumption
<1>3. Cardinality(Owners(p)) \in Nat /\ Cardinality(Guardians(p)) \in Nat
  BY <1>2, FS_CardinalityType
<1>4. QED
  BY <1>2, <1>3 DEF Refs

(* What a step does to the count and the references of p.                  *)
StolenStays(p) == Stolen(p) => Stolen(p)'

SameRefs(p) == Refs(p)' = Refs(p) /\ refCount'[p] = refCount[p]
TakesRef(p) == Refs(p)' = Refs(p) + 1 /\ refCount'[p] = refCount[p] + 1
DropsRef(p) ==
  /\ Refs(p)' = Refs(p) - 1 /\ Refs(p) > 0
  /\ refCount'[p] = (IF refCount[p] = 0 THEN 0 ELSE refCount[p] - 1)
StealsRef(p) ==
  /\ Refs(p)' = Refs(p) /\ Stolen(p)'
  /\ refCount'[p] = (IF refCount[p] = 0 THEN 0 ELSE refCount[p] - 1)
  /\ ~Stolen(p)

LEMMA CountStep ==
  ASSUME CacheTypes, CountInv, ~early' => ~early,
         \A p \in Paths : \/ StolenStays(p) /\ (SameRefs(p) \/ TakesRef(p) \/ DropsRef(p))
                          \/ StealsRef(p)
  PROVE  CountInv'
<1> SUFFICES ASSUME NEW p \in Paths
             PROVE  /\ refCount'[p] <= Refs(p)'
                    /\ ~early' => Refs(p)' <= refCount'[p] + (IF Stolen(p)' THEN 1 ELSE 0)
  BY Zenon DEF CountInv
<1>1. refCount[p] \in Nat /\ Refs(p) \in Nat
  BY RefsAreNumbers DEF CacheTypes
<1>2. /\ refCount[p] <= Refs(p)
      /\ ~early => Refs(p) <= refCount[p] + (IF Stolen(p) THEN 1 ELSE 0)
  BY Zenon DEF CountInv
<1>3. CASE StolenStays(p) /\ SameRefs(p)
  BY <1>1, <1>2, <1>3 DEF StolenStays, SameRefs
<1>4. CASE StolenStays(p) /\ TakesRef(p)
  BY <1>1, <1>2, <1>4 DEF StolenStays, TakesRef
<1>5. CASE StolenStays(p) /\ DropsRef(p)
  BY <1>1, <1>2, <1>5 DEF StolenStays, DropsRef
<1>6. CASE StealsRef(p)
  BY <1>1, <1>2, <1>6 DEF StealsRef
<1>7. QED
  BY <1>3, <1>4, <1>5, <1>6

(* The references change with the record of h and the handles it keeps.    *)
LEMMA OthersSame ==
  ASSUME NEW h \in Handlers, NEW p \in Paths,
         \A g \in Handlers \ {h} : release'[g] = release[g],
         \A t \in Streams \ {h} : files'[t][p] = files[t][p]
  PROVE  /\ Owners(p)' \ {h} = Owners(p) \ {h}
         /\ Guardians(p)' \ {h} = Guardians(p) \ {h}
<1>1. \A t \in Streams \ {h} : Owns(t, p)' <=> Owns(t, p)
  BY DEF Owns, In, Handlers
<1>2. \A g \in Handlers \ {h} : In(g, {"sync", "guard"}, p)' <=> In(g, {"sync", "guard"}, p)
  BY DEF In
<1>3. Owners(p)' \ {h} = Owners(p) \ {h}
  BY <1>1 DEF Owners
<1>4. Guardians(p)' \ {h} = Guardians(p) \ {h}
  BY <1>2 DEF Guardians
<1>5. QED
  BY <1>3, <1>4

LEMMA OwnerSame ==
  ASSUME NEW h \in Handlers, NEW p \in Paths,
         Owners(p)' \ {h} = Owners(p) \ {h}, h \in Streams => (Owns(h, p)' <=> Owns(h, p))
  PROVE  Owners(p)' = Owners(p)
<1>1. h \in Owners(p)' <=> h \in Owners(p)
  BY Zenon DEF Owners
<1>2. QED
  BY <1>1

LEMMA GuardianSame ==
  ASSUME NEW h \in Handlers, NEW p \in Paths,
         Guardians(p)' \ {h} = Guardians(p) \ {h},
         In(h, {"sync", "guard"}, p)' <=> In(h, {"sync", "guard"}, p)
  PROVE  Guardians(p)' = Guardians(p)
<1>1. h \in Guardians(p)' <=> h \in Guardians(p)
  BY Zenon DEF Guardians
<1>2. QED
  BY <1>1

LEMMA AsideRefs ==
  ASSUME NEW p \in Paths, Aside
  PROVE  Refs(p)' = Refs(p)
BY DEF Aside, Refs, Owners, Guardians, Owns, In

LEMMA StolenKept ==
  ASSUME NEW p \in Paths, asked' = asked, committer' = committer, uncommitted' = uncommitted,
         \/ release'[Committer] = release[Committer]
         \/ ~In(Committer, {"end"}, p) /\ ~In(Committer, {"end"}, p)'
  PROVE  Stolen(p)' <=> Stolen(p)
BY DEF Stolen, Pending, In

(* SyncAndRelease begins: a guardian more.                                 *)
LEMMA StartRefs ==
  ASSUME DestTypes, NEW h \in Handlers, NEW p \in Paths, Starts(h, p), files' = files
  PROVE  /\ TakesRef(p) /\ \A q \in Paths \ {p} : SameRefs(q)
         /\ \A q \in Paths : ~In(h, {"end"}, q) /\ ~In(h, {"end"}, q)'
<1>1. /\ release[h].step = "none" /\ release'[h].step = "sync" /\ release'[h].path = p
      /\ \A g \in Handlers \ {h} : release'[g] = release[g]
  BY NotReleasingStep DEF Starts, Moves
<1>2. refCount'[p] = refCount[p] + 1 /\ \A q \in Paths \ {p} : refCount'[q] = refCount[q]
  BY DEF Starts, CountsUp
<1>3. \A q \in Paths : ~In(h, {"end"}, q) /\ ~In(h, {"end"}, q)'
  BY <1>1 DEF In
<1>4. ASSUME NEW q \in Paths PROVE Owners(q)' = Owners(q)
  <2>1. Owners(q)' \ {h} = Owners(q) \ {h}
    BY <1>1, OthersSame
  <2>2. h \in Streams => (Owns(h, q)' <=> Owns(h, q))
    BY <1>3 DEF Owns
  <2>3. QED
    BY Zenon, <2>1, <2>2, OwnerSame
<1>5. ASSUME NEW q \in Paths \ {p} PROVE Guardians(q)' = Guardians(q)
  <2>1. Guardians(q)' \ {h} = Guardians(q) \ {h}
    BY Zenon, <1>1, OthersSame
  <2>2. ~In(h, {"sync", "guard"}, q)' /\ ~In(h, {"sync", "guard"}, q)
    BY <1>1 DEF In
  <2>3. QED
    BY Zenon, <2>1, <2>2, GuardianSame
<1>6. Cardinality(Guardians(p)') = Cardinality(Guardians(p)) + 1
  <2>1. Guardians(p)' \ {h} = Guardians(p) \ {h}
    BY Zenon, <1>1, OthersSame
  <2>2. In(h, {"sync", "guard"}, p)' /\ ~In(h, {"sync", "guard"}, p)
    BY <1>1 DEF In
  <2>3. h \in Guardians(p)' /\ h \notin Guardians(p)
    BY <2>2, Zenon DEF Guardians
  <2>4. Guardians(p)' = Guardians(p) \cup {h}
    BY Zenon, <2>1, <2>3
  <2>5. QED
    BY Zenon, <2>3, <2>4, OneMore, RefsAreNumbers
<1>7. TakesRef(p)
  <2>1. Cardinality(Owners(p)) \in Nat /\ Cardinality(Guardians(p)) \in Nat
    BY RefsAreNumbers
  <2>2. QED
    BY <1>2, <1>4, <1>6, <2>1 DEF TakesRef, Refs
<1>8. \A q \in Paths \ {p} : SameRefs(q)
  BY Zenon, <1>2, <1>4, <1>5 DEF SameRefs, Refs
<1>9. QED
  BY Zenon, <1>3, <1>7, <1>8

(* DropReference gives back the guard, or what the stream keeps.           *)
LEMMA DropRefs ==
  ASSUME DestTypes, ControlInv, NEW h \in Handlers, DropReference(h),
         NEW p \in Paths, p = release[h].path
  PROVE  /\ \A q \in Paths \ {p} : SameRefs(q)
         /\ release[h].step = "guard" \/ h \in Streams => DropsRef(p)
         /\ release[h].step = "own" /\ h = Committer => Refs(p)' = Refs(p)
<1>1. /\ release[h].step \in {"guard", "own"} /\ p \in Paths /\ release[h] # NotReleasing
      /\ release'[h].step = (IF release[h].step = "guard" THEN "own" ELSE "end")
      /\ release'[h].path = p
      /\ \A g \in Handlers \ {h} : release'[g] = release[g]
  BY ZenonT(30), DropStep DEF Moves
<1>2. /\ refCount'[p] = (IF refCount[p] = 0 THEN 0 ELSE refCount[p] - 1)
      /\ \A q \in Paths \ {p} : refCount'[q] = refCount[q]
  BY DropStep DEF CountsDown
<1>3. files' = files
  BY DEF DropReference
<1>4. h \in Streams => files[h][p] # 0
  BY Zenon, <1>1 DEF ControlInv
<1>5. \A q \in Paths : Owners(q)' \ {h} = Owners(q) \ {h} /\ Guardians(q)' \ {h} = Guardians(q) \ {h}
  BY Zenon, <1>1, <1>3, OthersSame
<1>6. ASSUME NEW q \in Paths \ {p} PROVE SameRefs(q)
  <2>1. ~In(h, {"sync", "guard"}, q)' /\ ~In(h, {"sync", "guard"}, q) /\ ~In(h, {"end"}, q)' /\ ~In(h, {"end"}, q)
    BY <1>1 DEF In
  <2>2. Guardians(q)' = Guardians(q)
    BY Zenon, <1>5, <2>1, GuardianSame
  <2>3. h \in Streams => (Owns(h, q)' <=> Owns(h, q))
    BY <1>3, <2>1 DEF Owns
  <2>4. Owners(q)' = Owners(q)
    BY Zenon, <1>5, <2>3, OwnerSame
  <2>5. QED
    BY Zenon, <1>2, <2>2, <2>4 DEF SameRefs, Refs
<1>7. Cardinality(Owners(p)) \in Nat /\ Cardinality(Guardians(p)) \in Nat
  BY Zenon, <1>1, RefsAreNumbers
<1>8. CASE release[h].step = "guard"
  <2>1. /\ ~In(h, {"sync", "guard"}, p)' /\ In(h, {"sync", "guard"}, p)
        /\ ~In(h, {"end"}, p)' /\ ~In(h, {"end"}, p)
    BY <1>1, <1>8 DEF In
  <2>2. h \in Guardians(p) /\ h \notin Guardians(p)'
    BY <2>1, Zenon DEF Guardians
  <2>3. Guardians(p)' = Guardians(p) \ {h}
    BY Zenon, <1>1, <1>5, <2>2
  <2>4. Cardinality(Guardians(p)') = Cardinality(Guardians(p)) - 1 /\ Cardinality(Guardians(p)) > 0
    BY Zenon, SMTT(20), <1>1, <2>2, <2>3, OneLess, RefsAreNumbers
  <2>5. h \in Streams => (Owns(h, p)' <=> Owns(h, p))
    BY Zenon, <1>3, <2>1 DEF Owns
  <2>6. Owners(p)' = Owners(p)
    BY Zenon, <1>1, <1>5, <2>5, OwnerSame
  <2>7. DropsRef(p)
    BY <1>2, <1>7, <2>4, <2>6 DEF DropsRef, Refs
  <2>8. QED
    BY Zenon, <1>6, <1>8, <2>7
<1>9. CASE release[h].step = "own"
  <2>1. /\ ~In(h, {"sync", "guard"}, p)' /\ ~In(h, {"sync", "guard"}, p)
        /\ In(h, {"end"}, p)' /\ ~In(h, {"end"}, p)
    BY Zenon, <1>1, <1>9 DEF In
  <2>2. Guardians(p)' = Guardians(p)
    BY <1>1, <1>5, <2>1, GuardianSame
  <2>3. CASE h \in Streams
    <3>1. Owns(h, p) /\ ~Owns(h, p)'
      BY <1>4, <2>1, <2>3 DEF Owns
    <3>2. h \in Owners(p) /\ h \notin Owners(p)'
      BY <2>3, <3>1, Zenon DEF Owners
    <3>3. Owners(p)' = Owners(p) \ {h}
      BY Zenon, <1>1, <1>5, <3>2
    <3>4. Cardinality(Owners(p)') = Cardinality(Owners(p)) - 1 /\ Cardinality(Owners(p)) > 0
      BY Zenon, SMTT(20), <1>1, <3>2, <3>3, OneLess, RefsAreNumbers
    <3>5. DropsRef(p)
      BY <1>2, <1>7, <2>2, <3>4 DEF DropsRef, Refs
    <3>6. h # Committer
      BY <2>3, DestinationAssumption
    <3>7. QED
      BY Zenon, <1>6, <3>5, <3>6
  <2>4. CASE h \notin Streams
    <3>1. Owners(p)' = Owners(p)
      BY Zenon, <1>1, <1>5, <2>4, OwnerSame
    <3>2. Refs(p)' = Refs(p)
      BY <2>2, <3>1 DEF Refs
    <3>3. QED
      BY Zenon, <1>6, <1>9, <2>4, <3>2
  <2>5. QED
    BY <2>3, <2>4
<1>10. QED
  BY Zenon, <1>1, <1>8, <1>9

LEMMA AcquireRefs ==
  ASSUME DestTypes, ControlInv, NEW s \in Streams, writer[s] = "write", release' = release,
         NEW b \in Blocks, AcquireEffect(s, b)
  PROVE  TakesRef(PathOf[b]) /\ \A q \in Paths \ {PathOf[b]} : SameRefs(q)
<1>1. PICK p \in Paths : p = PathOf[b]
  BY Zenon DEF AcquireEffect
<1>2. /\ files[s][p] = 0 /\ files'[s][p] # 0
      /\ \A t \in Streams, q \in Paths : t # s \/ q # p => files'[t][q] = files[t][q]
      /\ refCount'[p] = refCount[p] + 1 /\ \A q \in Paths \ {p} : refCount'[q] = refCount[q]
  BY <1>1 DEF AcquireEffect, Keeps, OpensOrShares, CountsUp
<1>3. s \in Handlers /\ release[s] = NotReleasing
  BY DEF ControlInv, Handlers
<1>4. \A q \in Paths : ~In(s, {"end"}, q) /\ ~In(s, {"end"}, q)'
  BY Zenon, <1>3, NotReleasingStep DEF In
<1>5. ASSUME NEW q \in Paths
      PROVE  Owners(q)' \ {s} = Owners(q) \ {s} /\ Guardians(q)' = Guardians(q)
  <2>1. \A t \in Streams \ {s} : files'[t][q] = files[t][q]
    BY ZenonT(30), <1>2
  <2>2. QED
    BY <1>3, <2>1, OthersSame DEF Guardians, In
<1>6. ASSUME NEW q \in Paths \ {p} PROVE SameRefs(q)
  <2>1. Owns(s, q)' <=> Owns(s, q)
    BY ZenonT(30), <1>2, <1>4 DEF Owns
  <2>2. Owners(q)' = Owners(q)
    BY ZenonT(30), <1>3, <1>5, <2>1, OwnerSame
  <2>3. QED
    BY Zenon, <1>2, <1>5, <2>2 DEF SameRefs, Refs
<1>7. TakesRef(p)
  <2>1. Owns(s, p)' /\ ~Owns(s, p)
    BY Zenon, <1>2, <1>4 DEF Owns
  <2>2. s \in Owners(p)' /\ s \notin Owners(p)
    BY <2>1, Zenon DEF Owners
  <2>3. Owners(p)' = Owners(p) \cup {s}
    BY Zenon, <1>5, <2>2
  <2>4. Cardinality(Owners(p)') = Cardinality(Owners(p)) + 1
    BY Zenon, <2>2, <2>3, OneMore, RefsAreNumbers
  <2>5. Cardinality(Owners(p)) \in Nat /\ Cardinality(Guardians(p)) \in Nat
    BY RefsAreNumbers
  <2>6. QED
    BY <1>2, <1>5, <2>4, <2>5 DEF TakesRef, Refs
<1>8. QED
  BY <1>1, <1>6, <1>7

(* The two last steps of the loop: the handle is forgotten.                *)
LEMMA ForgetRefs ==
  ASSUME DestTypes, NEW s \in Streams, NEW p \in Paths, files[s][p] # 0, Keeps(s, p, 0), SameCache,
         \/ release[s] = NotReleasing /\ refCount[p] = 0 /\ release' = release
         \/ /\ release[s] # NotReleasing /\ release[s].step = "end" /\ release[s].path = p
            /\ Moves(s, NotReleasing)
  PROVE  \A q \in Paths : SameRefs(q) \/ DropsRef(q)
<1>1. /\ files'[s][p] = 0
      /\ \A t \in Streams, q \in Paths : t # s \/ q # p => files'[t][q] = files[t][q]
      /\ refCount' = refCount
  BY Zenon DEF Keeps, SameCache
<1>2. s \in Handlers
  BY DEF Handlers
<1>3. \A g \in Handlers \ {s} : release'[g] = release[g]
  BY DEF Moves
<1>4. \A q \in Paths : ~In(s, {"sync", "guard"}, q) /\ ~In(s, {"sync", "guard"}, q)'
  BY Zenon, SMTT(20), <1>2, NotReleasingStep DEF In, Moves
<1>5. ASSUME NEW q \in Paths
      PROVE  Owners(q)' \ {s} = Owners(q) \ {s} /\ Guardians(q)' = Guardians(q)
  <2>1. \A t \in Streams \ {s} : files'[t][q] = files[t][q]
    BY <1>1
  <2>2. Owners(q)' \ {s} = Owners(q) \ {s} /\ Guardians(q)' \ {s} = Guardians(q) \ {s}
    BY Zenon, <1>2, <1>3, <2>1, OthersSame
  <2>3. QED
    BY Zenon, <1>2, <1>4, <2>2, GuardianSame
<1>6. ASSUME NEW q \in Paths \ {p} PROVE SameRefs(q)
  <2>1. ~In(s, {"end"}, q) /\ ~In(s, {"end"}, q)'
    BY <1>2, NotReleasingStep DEF In, Moves
  <2>2. Owns(s, q)' <=> Owns(s, q)
    BY ZenonT(30), <1>1, <2>1 DEF Owns
  <2>3. Owners(q)' = Owners(q)
    BY Zenon, <1>2, <1>5, <2>2, OwnerSame
  <2>4. QED
    BY Zenon, <1>1, <1>5, <2>3 DEF SameRefs, Refs
<1>7. ~Owns(s, p)'
  BY <1>1 DEF Owns
<1>8. CASE release[s] = NotReleasing /\ refCount[p] = 0 /\ release' = release
  <2>1. Owns(s, p)
    BY <1>2, <1>8, NotReleasingStep DEF Owns, In
  <2>2. s \in Owners(p) /\ s \notin Owners(p)'
    BY <1>7, <2>1, Zenon DEF Owners
  <2>3. Owners(p)' = Owners(p) \ {s}
    BY Zenon, SMTT(20), <1>5, <2>2
  <2>4. Cardinality(Owners(p)') = Cardinality(Owners(p)) - 1 /\ Cardinality(Owners(p)) > 0
    BY Zenon, SMTT(20), <2>2, <2>3, OneLess, RefsAreNumbers
  <2>5. Cardinality(Owners(p)) \in Nat /\ Cardinality(Guardians(p)) \in Nat
    BY Zenon, RefsAreNumbers
  <2>6. DropsRef(p)
    BY <1>1, <1>5, <1>8, <2>4, <2>5 DEF DropsRef, Refs
  <2>7. QED
    BY Zenon, <1>6, <2>6
<1>9. CASE release[s].step = "end" /\ release[s].path = p /\ Moves(s, NotReleasing)
  <2>1. ~Owns(s, p)
    BY Zenon, <1>9 DEF Owns, In
  <2>2. Owners(p)' = Owners(p)
    BY Zenon, <1>2, <1>5, <1>7, <2>1, OwnerSame
  <2>3. SameRefs(p)
    BY <1>1, <1>5, <2>2 DEF SameRefs, Refs
  <2>4. QED
    BY Zenon, <1>6, <2>3
<1>10. QED
  BY Zenon, <1>8, <1>9

(* What Commit has taken is never given back to a stream.                  *)
LEMMA StolenMonotone ==
  ASSUME DestTypes, ControlInv, DestNext
  PROVE  \A p \in Paths : StolenStays(p)
<1>1. Committer \in Handlers /\ Committer \notin Streams
  BY Zenon, DestinationAssumption DEF Handlers
<1>2. ASSUME asked' = asked, committer' = committer, uncommitted' = uncommitted,
             release'[Committer] = release[Committer]
      PROVE  \A p \in Paths : StolenStays(p)
  BY <1>2, StolenKept DEF StolenStays
<1>3. ASSUME NEW s \in Streams, ReceiveWrite(s) \/ AcquireFile(s) \/ WriteBlock(s) \/ SendAck(s)
                                \/ WriteFails(s) \/ StreamEnds(s) \/ WriteReturns(s)
      PROVE  \A p \in Paths : StolenStays(p)
  <2>1. asked' = asked /\ committer' = committer /\ uncommitted' = uncommitted /\ release' = release
    BY <1>3, Zenon DEF ReceiveWrite, AcquireFile, WriteBlock, SendAck, WriteFails, StreamEnds, WriteReturns
  <2>2. QED
    BY <1>2, <2>1
<1>4. ASSUME NEW s \in Streams, CleanupFile(s) PROVE \A p \in Paths : StolenStays(p)
  <2>1. \E p \in Paths : CleanupEffect(s, p)
    BY Zenon, <1>4, CleanupStep
  <2>2. release'[Committer] = release[Committer]
    BY <1>1, <2>1 DEF CleanupEffect, Starts, Moves
  <2>3. QED
    BY <1>2, <1>4, <2>2 DEF CleanupFile
<1>5. ASSUME NEW h \in Handlers, SyncFile(h) \/ DropReference(h) PROVE \A p \in Paths : StolenStays(p)
  <2>1. asked' = asked /\ committer' = committer /\ uncommitted' = uncommitted
    BY <1>5 DEF SyncFile, DropReference
  <2>2. /\ release[h].step # "end" /\ \A g \in Handlers \ {h} : release'[g] = release[g]
    <3>1. CASE SyncFile(h)
      BY Zenon, <3>1, SyncStep DEF Moves
    <3>2. CASE DropReference(h)
      BY Zenon, <3>2, DropStep DEF Moves
    <3>3. QED
      BY Zenon, <1>5, <3>1, <3>2
  <2>3. CASE h = Committer
    BY Zenon, <2>1, <2>2, <2>3 DEF StolenStays, Stolen, Pending, In
  <2>4. CASE h # Committer
    BY Zenon, <1>1, <1>2, <2>1, <2>2, <2>4
  <2>5. QED
    BY Zenon, <2>3, <2>4
<1>6. ASSUME ReceiveCommit PROVE \A p \in Paths : StolenStays(p)
  <2>1. \E P \in (SUBSET (Paths \ asked)) \ {{}} : uncommitted' = P /\ asked' = asked \cup P
    BY Zenon, <1>6 DEF ReceiveCommit
  <2>2. QED
    BY <2>1 DEF StolenStays, Stolen, Pending
<1>7. ASSUME CommitFile PROVE \A p \in Paths : StolenStays(p)
  <2>1. PICK p \in Paths : CommitEffect(p)
    BY Zenon, <1>7, CommitStep
  <2>2. asked' = asked /\ committer' = committer
    BY Zenon, <1>7 DEF CommitFile
  <2>3. CASE uncommitted' = uncommitted /\ release[Committer] = NotReleasing
    BY Zenon, <1>1, <2>2, <2>3, NotReleasingStep DEF StolenStays, Stolen, Pending, In
  <2>4. CASE uncommitted' = uncommitted \ {p} /\ release' = release
    BY Zenon, <2>2, <2>4 DEF StolenStays, Stolen, Pending, In
  <2>5. CASE uncommitted' = uncommitted \ {p} /\ release[Committer].path = p
    BY Zenon, <2>2, <2>5 DEF StolenStays, Stolen, Pending, In
  <2>6. QED
    BY Zenon, <2>1, <2>3, <2>4, <2>5 DEF CommitEffect, Starts
<1>8. ASSUME SendCommitted \/ CommitReturns \/ ExitServer PROVE \A p \in Paths : StolenStays(p)
  <2>1. asked' = asked /\ committer' = "commit" => committer = "commit" /\ uncommitted' = uncommitted /\ release' = release
    BY Zenon, <1>8 DEF SendCommitted, CommitReturns, ExitServer
  <2>2. asked' = asked
    BY <1>8 DEF SendCommitted, CommitReturns, ExitServer
  <2>3. QED
    BY Zenon, <2>1, <2>2 DEF StolenStays, Stolen, Pending, In
<1>9. QED
  BY Zenon, <1>3, <1>4, <1>5, <1>6, <1>7, <1>8 DEF DestNext

LEMMA CountKept ==
  ASSUME DestTypes, ControlInv, CountInv, DestNext
  PROVE  CountInv'
<1>1. CacheTypes /\ Committer \in Handlers /\ Committer \notin Streams /\ Streams \subseteq Handlers
  BY DestinationAssumption DEF DestTypes, Handlers
<1>2. \A p \in Paths : StolenStays(p)
  BY Zenon, StolenMonotone
<1>3. ASSUME Aside, refCount' = refCount, ~early' => ~early
      PROVE  CountInv'
  <2>1. \A p \in Paths : SameRefs(p)
    BY <1>3, AsideRefs DEF SameRefs
  <2>2. QED
    BY Zenon, <1>1, <1>2, <1>3, <2>1, CountStep
<1>4. ASSUME NEW s \in Streams, ReceiveWrite(s) \/ WriteBlock(s) \/ SendAck(s) \/ WriteFails(s)
                                \/ StreamEnds(s) \/ WriteReturns(s)
      PROVE CountInv'
  <2>1. Aside /\ refCount' = refCount /\ early' = early
    BY <1>4, Zenon DEF ReceiveWrite, WriteBlock, SendAck, WriteFails, StreamEnds, WriteReturns, Aside, cacheVars
  <2>2. QED
    BY <1>3, <2>1
<1>5. ASSUME NEW s \in Streams, AcquireFile(s) PROVE CountInv'
  <2>1. PICK b \in Blocks : AcquireEffect(s, b)
    BY Zenon, <1>5, AcquireStep
  <2>2. writer[s] = "write" /\ release' = release /\ early' = early
    BY <1>5 DEF AcquireFile
  <2>3. \A p \in Paths : SameRefs(p) \/ TakesRef(p)
    <3>1. TakesRef(PathOf[b]) /\ \A q \in Paths \ {PathOf[b]} : SameRefs(q)
      BY <2>1, <2>2, AcquireRefs
    <3>2. QED
      BY <3>1
  <2>4. QED
    BY Zenon, <1>1, <1>2, <2>2, <2>3, CountStep
<1>6. ASSUME NEW s \in Streams, CleanupFile(s) PROVE CountInv'
  <2>1. PICK p \in Paths : CleanupEffect(s, p)
    BY Zenon, <1>6, CleanupStep
  <2>2. early' = early
    BY <1>6 DEF CleanupFile
  <2>3. CASE Starts(s, p) /\ files' = files
    <3>1. TakesRef(p) /\ \A q \in Paths \ {p} : SameRefs(q)
      BY <1>1, <2>3, StartRefs
    <3>2. \A q \in Paths : SameRefs(q) \/ TakesRef(q)
      BY Zenon, <3>1
    <3>3. QED
      BY Zenon, <1>1, <1>2, <2>2, <3>2, CountStep
  <2>4. CASE ~(Starts(s, p) /\ files' = files)
    <3>1. \A q \in Paths : SameRefs(q) \/ DropsRef(q)
      BY <2>1, <2>4, ForgetRefs DEF CleanupEffect
    <3>2. QED
      BY Zenon, <1>1, <1>2, <2>2, <3>1, CountStep
  <2>5. QED
    BY <2>3, <2>4
<1>7. ASSUME NEW h \in Handlers, SyncFile(h) PROVE CountInv'
  <2>1. /\ release[h].step = "sync" /\ release'[h].step = "guard" /\ release'[h].path = release[h].path
        /\ \A g \in Handlers \ {h} : release'[g] = release[g]
    BY <1>7, SyncStep DEF Moves
  <2>2. early' = early /\ files' = files /\ refCount' = refCount
    BY Zenon, <1>7 DEF SyncFile, cacheVars
  <2>3. \A p \in Paths : /\ ~In(h, {"end"}, p) /\ ~In(h, {"end"}, p)'
                         /\ In(h, {"sync", "guard"}, p)' <=> In(h, {"sync", "guard"}, p)
    BY <2>1 DEF In
  <2>4. ASSUME NEW p \in Paths PROVE SameRefs(p)
    <3>1. Owners(p)' \ {h} = Owners(p) \ {h} /\ Guardians(p)' \ {h} = Guardians(p) \ {h}
      BY Zenon, <2>1, <2>2, OthersSame
    <3>2. Owns(h, p)' <=> Owns(h, p)
      BY Zenon, <2>2, <2>3 DEF Owns
    <3>3. Owners(p)' = Owners(p)
      BY <3>1, <3>2, OwnerSame
    <3>4. Guardians(p)' = Guardians(p)
      BY Zenon, <2>3, <3>1, GuardianSame
    <3>5. QED
      BY Zenon, <2>2, <3>3, <3>4 DEF SameRefs, Refs
  <2>5. QED
    BY Zenon, <1>1, <1>2, <2>2, <2>4, CountStep
<1>8. ASSUME NEW h \in Handlers, DropReference(h) PROVE CountInv'
  <2>1. PICK p \in Paths : p = release[h].path
    BY Zenon, <1>8, DropStep
  <2>2. /\ release[h] # NotReleasing /\ release[h].step \in {"guard", "own"}
        /\ release'[h].step = (IF release[h].step = "guard" THEN "own" ELSE "end")
        /\ release'[h].path = p
        /\ \A g \in Handlers \ {h} : release'[g] = release[g]
        /\ refCount'[p] = (IF refCount[p] = 0 THEN 0 ELSE refCount[p] - 1)
    BY <1>8, <2>1, DropStep DEF Moves, CountsDown
  <2>3. /\ early' = early /\ asked' = asked /\ committer' = committer /\ uncommitted' = uncommitted
    BY Zenon, <1>8 DEF DropReference
  <2>4. \A q \in Paths \ {p} : SameRefs(q)
    BY Zenon, <1>8, <2>1, DropRefs
  <2>5. CASE release[h].step = "guard" \/ h \in Streams
    <3>1. DropsRef(p)
      BY <1>8, <2>1, <2>5, DropRefs
    <3>2. \A q \in Paths : StolenStays(q) /\ (SameRefs(q) \/ DropsRef(q))
      BY Zenon, <1>2, <2>4, <3>1
    <3>3. QED
      BY Zenon, <1>1, <2>3, <3>2, CountStep
  <2>6. CASE release[h].step = "own" /\ h = Committer
    <3>1. Refs(p)' = Refs(p)
      BY Zenon, <1>8, <2>1, <2>6, DropRefs
    <3>2. committer = "commit" /\ p \in uncommitted /\ p \in asked
      BY Zenon, <2>1, <2>2, <2>6 DEF ControlInv, DestTypes
    <3>3. ~Stolen(p)
      BY Zenon, <2>6, <3>2 DEF Stolen, Pending, In
    <3>4. In(Committer, {"end"}, p)'
      BY Zenon, <2>2, <2>6 DEF In
    <3>5. Stolen(p)'
      BY Zenon, <2>3, <3>2, <3>4 DEF Stolen, Pending
    <3>6. StealsRef(p)
      BY <2>2, <3>1, <3>3, <3>5 DEF StealsRef
    <3>7. \A q \in Paths : (StolenStays(q) /\ SameRefs(q)) \/ StealsRef(q)
      BY Zenon, <1>2, <2>4, <3>6
    <3>8. QED
      BY Zenon, <1>1, <2>3, <3>7, CountStep
  <2>7. QED
    BY Zenon, <2>2, <2>5, <2>6 DEF Handlers
<1>9. ASSUME ReceiveCommit PROVE CountInv'
  <2>1. PICK P \in (SUBSET (Paths \ asked)) \ {{}} :
          /\ uncommitted' = P /\ asked' = asked \cup P
          /\ early' = (early \/ \E p \in P : ~ BlocksOf(p) \subseteq acked)
    BY <1>9 DEF ReceiveCommit
  <2>2. Aside /\ refCount' = refCount
    BY <1>9 DEF ReceiveCommit, Aside, cacheVars
  <2>3. ~early' => ~early
    BY Zenon, <2>1
  <2>4. QED
    BY Zenon, <1>3, <2>2, <2>3
<1>10. ASSUME CommitFile PROVE CountInv'
  <2>1. PICK p \in Paths : CommitEffect(p)
    BY Zenon, <1>10, CommitStep
  <2>2. early' = early /\ files' = files
    BY <1>10 DEF CommitFile
  <2>3. CASE Starts(Committer, p) /\ uncommitted' = uncommitted
    <3>1. TakesRef(p) /\ \A q \in Paths \ {p} : SameRefs(q)
      BY <1>1, <2>2, <2>3, StartRefs
    <3>2. \A q \in Paths : SameRefs(q) \/ TakesRef(q)
      BY Zenon, <3>1
    <3>3. QED
      BY Zenon, <1>1, <1>2, <2>2, <3>2, CountStep
  <2>4. CASE release[Committer] = NotReleasing /\ uncommitted' = uncommitted \ {p} /\ release' = release /\ SameCache
    BY <1>3, <2>2, <2>4 DEF Aside, SameCache
  <2>5. CASE /\ release[Committer].step = "end" /\ release[Committer].path = p
             /\ uncommitted' = uncommitted \ {p} /\ Moves(Committer, NotReleasing) /\ SameCache
    <3>1. release'[Committer].step = "none" /\ \A g \in Handlers \ {Committer} : release'[g] = release[g]
      BY Zenon, <1>1, <2>5, NotReleasingStep DEF Moves
    <3>2. ASSUME NEW q \in Paths PROVE SameRefs(q)
      <4>1. Owners(q)' \ {Committer} = Owners(q) \ {Committer} /\ Guardians(q)' \ {Committer} = Guardians(q) \ {Committer}
        BY Zenon, <1>1, <2>2, <3>1, OthersSame
      <4>2. Owners(q)' = Owners(q)
        BY Zenon, <1>1, <4>1, OwnerSame
      <4>3. ~In(Committer, {"sync", "guard"}, q) /\ ~In(Committer, {"sync", "guard"}, q)'
        BY Zenon, <2>5, <3>1 DEF In
      <4>4. Guardians(q)' = Guardians(q)
        BY Zenon, <1>1, <4>1, <4>3, GuardianSame
      <4>5. QED
        BY Zenon, <2>5, <4>2, <4>4 DEF SameRefs, Refs, SameCache
    <3>3. QED
      BY <1>1, <1>2, <2>2, <3>2, CountStep
  <2>6. QED
    BY <2>1, <2>3, <2>4, <2>5 DEF CommitEffect
<1>11. ASSUME SendCommitted PROVE CountInv'
  BY Zenon, <1>3, <1>11 DEF SendCommitted, Aside, cacheVars
<1>12. ASSUME CommitReturns PROVE CountInv'
  <2>1. /\ early' = early /\ asked' = asked /\ committer' = "returned" /\ files' = files /\ refCount' = refCount
        /\ Moves(Committer, NotReleasing)
    BY Zenon, <1>1, <1>12, ClearStep DEF CommitReturns, cacheVars
  <2>2. release'[Committer].step = "none" /\ \A g \in Handlers \ {Committer} : release'[g] = release[g]
    BY <1>1, <2>1, NotReleasingStep DEF Moves
  <2>3. release[Committer].step \in {"none", "end"}
    <3>1. CASE committer = "commit" /\ uncommitted # {}
      BY Zenon, <1>12, <3>1 DEF CommitReturns
    <3>2. CASE committer # "commit" \/ uncommitted = {}
      BY Zenon, <1>1, <3>2, NotReleasingStep DEF ControlInv
    <3>3. QED
      BY Zenon, <3>1, <3>2
  <2>4. ASSUME NEW q \in Paths PROVE SameRefs(q)
    <3>1. Owners(q)' \ {Committer} = Owners(q) \ {Committer} /\ Guardians(q)' \ {Committer} = Guardians(q) \ {Committer}
      BY Zenon, <1>1, <2>1, <2>2, OthersSame
    <3>2. Owners(q)' = Owners(q)
      BY Zenon, <1>1, <3>1, OwnerSame
    <3>3. ~In(Committer, {"sync", "guard"}, q) /\ ~In(Committer, {"sync", "guard"}, q)'
      BY Zenon, <2>2, <2>3 DEF In
    <3>4. Guardians(q)' = Guardians(q)
      BY Zenon, <1>1, <3>1, <3>3, GuardianSame
    <3>5. QED
      BY <2>1, <3>2, <3>4 DEF SameRefs, Refs
  <2>5. QED
    BY <1>1, <1>2, <2>1, <2>4, CountStep
<1>13. ASSUME ExitServer PROVE CountInv'
  <2>1. /\ Aside /\ asked' = asked /\ committer' = committer /\ uncommitted' = uncommitted
        /\ \A s \in Streams : writer[s] = "returned"
        /\ committer = "returned" /\ refCount' = [p \in Paths |-> 0]
    BY <1>13 DEF ExitServer, Aside, CloseAll, HandlersReturned
  <2>2. ASSUME NEW p \in Paths PROVE Refs(p)' = 0 /\ refCount'[p] = 0
    <3>1. \A s \in Streams : files[s][p] = 0
      BY <2>1 DEF ControlInv
    <3>2. \A h \in Handlers : release[h] = NotReleasing
      BY <2>1 DEF ControlInv, Handlers
    <3>3. \A h \in Handlers : ~In(h, {"sync", "guard"}, p)
      BY <3>2, NotReleasingStep DEF In
    <3>4. Owners(p) = {} /\ Guardians(p) = {}
      BY <3>1, <3>3 DEF Owners, Owns, Guardians
    <3>5. Refs(p) = 0
      BY <3>4, FS_EmptySet DEF Refs
    <3>6. QED
      BY Zenon, <2>1, <3>5, AsideRefs
  <2>3. QED
    BY <2>2 DEF CountInv
<1>14. QED
  BY Zenon, <1>4, <1>5, <1>6, <1>7, <1>8, <1>9, <1>10, <1>11, <1>12, <1>13 DEF DestNext

-----------------------------------------------------------------------------
(* Handles of the destination                                              *)

(* No step but AcquireFile opens a file or adds a handle to a map.         *)
HandlesStay ==
  /\ opened' = opened
  /\ \A s \in Streams, p \in Paths : Owns(s, p)' => Owns(s, p) /\ files'[s][p] = files[s][p]
  /\ \A h \in Handlers : release'[h].step = "sync" =>
       \/ release'[h] = release[h]
       \/ release'[h].handle = opened[release'[h].path]

LEMMA HandleStep ==
  ASSUME DestTypes, ControlInv, DestNext, \A s \in Streams : ~AcquireFile(s)
  PROVE  HandlesStay
<1>1. Committer \in Handlers /\ Committer \notin Streams /\ Streams \subseteq Handlers
  BY DestinationAssumption DEF Handlers
<1>2. ASSUME Aside, opened' = opened PROVE HandlesStay
  BY <1>2, Zenon DEF HandlesStay, Aside, Owns, In
<1>3. ASSUME NEW s \in Streams, ReceiveWrite(s) \/ WriteBlock(s) \/ SendAck(s) \/ WriteFails(s)
                                \/ StreamEnds(s) \/ WriteReturns(s)
      PROVE HandlesStay
  <2>1. Aside /\ opened' = opened
    BY <1>3, Zenon DEF ReceiveWrite, WriteBlock, SendAck, WriteFails, StreamEnds, WriteReturns, Aside, cacheVars
  <2>2. QED
    BY <1>2, <2>1
<1>4. ASSUME NEW h \in Handlers, NEW x \in ReleaseType, Moves(h, x), opened' = opened, files' = files,
             \A p \in Paths : In(h, {"end"}, p) /\ h \in Streams => x.step = "end" /\ x.path = p,
             x.step = "sync" => x.handle = opened[x.path]
      PROVE  HandlesStay
  <2>1. release'[h] = x /\ \A g \in Handlers \ {h} : release'[g] = release[g]
    BY <1>4 DEF Moves
  <2>2. ASSUME NEW s \in Streams, NEW p \in Paths, Owns(s, p)' PROVE Owns(s, p)
    <3>1. CASE s = h
      BY Zenon, <1>4, <2>1, <2>2, <3>1 DEF Owns, In
    <3>2. CASE s # h
      BY Zenon, <1>1, <1>4, <2>1, <2>2, <3>2 DEF Owns, In
    <3>3. QED
      BY Zenon, <3>1, <3>2
  <2>3. QED
    BY ZenonT(30), <1>4, <2>1, <2>2 DEF HandlesStay
<1>5. ASSUME NEW h \in Handlers, NEW p \in Paths, Starts(h, p), files' = files PROVE HandlesStay
  <2> DEFINE x == [step |-> "sync", path |-> p, handle |-> opened[p], ok |-> TRUE]
  <2>1. x \in ReleaseType /\ Moves(h, x) /\ x.step = "sync" /\ x.path = p /\ x.handle = opened[p]
    BY Zenon, <1>5 DEF Starts, ReleaseType, DestTypes, CacheTypes
  <2>2. release[h].step = "none" /\ opened' = opened
    BY <1>5, NotReleasingStep DEF Starts
  <2> HIDE DEF x
  <2>3. QED
    BY Zenon, <1>4, <1>5, <2>1, <2>2 DEF In
<1>6. ASSUME NEW s \in Streams, CleanupFile(s) PROVE HandlesStay
  <2>1. PICK p \in Paths : CleanupEffect(s, p)
    BY <1>6, CleanupStep
  <2>2. CASE Starts(s, p) /\ files' = files
    BY <1>1, <1>5, <2>2
  <2>3. CASE Keeps(s, p, 0) /\ release' = release /\ SameCache
    BY Zenon, <2>3 DEF Keeps, HandlesStay, SameCache, Owns, In
  <2>4. CASE Keeps(s, p, 0) /\ Moves(s, NotReleasing) /\ SameCache /\ release[s].path = p
    <3>1. release'[s].step = "none" /\ \A g \in Handlers \ {s} : release'[g] = release[g]
      BY <1>1, <2>4, NotReleasingStep DEF Moves
    <3>2. /\ files'[s][p] = 0
          /\ \A t \in Streams, q \in Paths : t # s \/ q # p => files'[t][q] = files[t][q]
      BY ZenonT(30), <2>4 DEF Keeps
    <3>3. ASSUME NEW t \in Streams, NEW q \in Paths, Owns(t, q)'
          PROVE  Owns(t, q) /\ files'[t][q] = files[t][q]
      <4>1. t # s \/ q # p
        BY Zenon, <3>2, <3>3 DEF Owns
      <4>2. ~In(t, {"end"}, q)
        BY Zenon, <1>1, <2>4, <3>1, <3>3, <4>1 DEF Owns, In
      <4>3. QED
        BY Zenon, <3>2, <3>3, <4>1, <4>2 DEF Owns
    <3>4. \A g \in Handlers : release'[g].step = "sync" => release'[g] = release[g]
      BY <3>1
    <3>5. QED
      BY ZenonT(30), <2>4, <3>3, <3>4 DEF HandlesStay, SameCache
  <2>5. QED
    BY Zenon, <2>1, <2>2, <2>3, <2>4 DEF CleanupEffect
<1>7. ASSUME NEW h \in Handlers, SyncFile(h) PROVE HandlesStay
  <2>1. PICK x \in ReleaseType : Moves(h, x) /\ x.step = "guard"
    BY Zenon, <1>7, SyncStep
  <2>2. ~ \E p \in Paths : In(h, {"end"}, p)
    BY <1>7, SyncStep DEF In
  <2>3. QED
    BY Zenon, <1>4, <1>7, <2>1, <2>2 DEF SyncFile, cacheVars
<1>8. ASSUME NEW h \in Handlers, DropReference(h) PROVE HandlesStay
  <2>1. PICK x \in ReleaseType : Moves(h, x) /\ x.step \in {"own", "end"}
    BY Zenon, <1>8, DropStep
  <2>2. opened' = opened /\ ~ \E p \in Paths : In(h, {"end"}, p)
    BY <1>8, DropStep DEF In
  <2>3. QED
    BY Zenon, <1>4, <1>8, <2>1, <2>2 DEF DropReference
<1>9. ASSUME ReceiveCommit \/ SendCommitted \/ ExitServer PROVE HandlesStay
  <2>1. Aside /\ opened' = opened
    BY <1>9, Zenon DEF ReceiveCommit, SendCommitted, ExitServer, CloseAll, Aside, cacheVars
  <2>2. QED
    BY <1>2, <2>1
<1>10. ASSUME Moves(Committer, NotReleasing), opened' = opened, files' = files PROVE HandlesStay
  BY Zenon, <1>1, <1>4, <1>10, NotReleasingStep
<1>11. ASSUME CommitFile PROVE HandlesStay
  <2>1. PICK p \in Paths : CommitEffect(p)
    BY Zenon, <1>11, CommitStep
  <2>2. files' = files
    BY <1>11 DEF CommitFile
  <2>3. CASE Starts(Committer, p)
    BY Zenon, <1>1, <1>5, <2>2, <2>3
  <2>4. CASE release' = release /\ SameCache
    BY Zenon, <1>2, <2>2, <2>4 DEF Aside, SameCache
  <2>5. CASE Moves(Committer, NotReleasing) /\ SameCache
    BY <1>10, <2>2, <2>5 DEF SameCache
  <2>6. QED
    BY Zenon, <2>1, <2>3, <2>4, <2>5 DEF CommitEffect
<1>12. ASSUME CommitReturns PROVE HandlesStay
  BY Zenon, <1>1, <1>10, <1>12, ClearStep DEF CommitReturns, cacheVars
<1>13. QED
  BY Zenon, <1>3, <1>6, <1>7, <1>8, <1>9, <1>11, <1>12 DEF DestNext

(* Commits only get more, and an early one stays early.                    *)
LEMMA AskedGrows ==
  ASSUME DestNext
  PROVE  asked \subseteq asked' /\ (~early' => ~early)
<1>1. CASE ReceiveCommit
  BY Zenon, <1>1 DEF ReceiveCommit
<1>2. CASE ~ReceiveCommit
  <2>1. asked' = asked /\ early' = early
    BY <1>2, Zenon DEF DestNext, ReceiveWrite, AcquireFile, WriteBlock, SendAck, WriteFails, StreamEnds,
       CleanupFile, WriteReturns, SyncFile, DropReference, CommitFile, SendCommitted, CommitReturns, ExitServer
  <2>2. QED
    BY <2>1
<1>3. QED
  BY <1>1, <1>2

(* A path without entry that Commit has not passed is held by nobody.      *)
LEMMA NobodyHolds ==
  ASSUME CacheTypes, CountInv, ~early, NEW p \in Paths, refCount[p] = 0, ~Stolen(p)
  PROVE  Owners(p) = {} /\ Guardians(p) = {}
<1>1. Refs(p) <= 0
  BY DEF CountInv
<1>2. Cardinality(Owners(p)) = 0 /\ Cardinality(Guardians(p)) = 0
  BY <1>1, RefsAreNumbers DEF Refs
<1>3. QED
  BY <1>2, RefsAreNumbers, FS_EmptySet

(* A path that a stream still writes is not committed.                     *)
LEMMA WritingIsNotAsked ==
  ASSUME BlockInv, ~early, NEW s \in Streams, NEW b \in Blocks, b \in unwritten[s]
  PROVE  PathOf[b] \notin asked
<1>1. b \notin acked
  BY Zenon DEF BlockInv
<1>2. b \in BlocksOf(PathOf[b])
  BY Zenon DEF BlocksOf
<1>3. QED
  BY Zenon, <1>1, <1>2 DEF BlockInv

LEMMA HandleKept ==
  ASSUME DestTypes, ControlInv, BlockInv, CountInv, HandleInv, DestNext
  PROVE  HandleInv'
<1>1. SUFFICES ASSUME ~early'
      PROVE  /\ \A s \in Streams, p \in Paths \ asked' : Owns(s, p)' => files'[s][p] = opened'[p]
             /\ \A h \in Handlers : release'[h].step = "sync" =>
                  release'[h].handle = opened'[release'[h].path]
  BY DEF HandleInv
<1>2. ~early /\ asked \subseteq asked'
  BY Zenon, <1>1, AskedGrows
<1>3. /\ \A s \in Streams, p \in Paths \ asked : Owns(s, p) => files[s][p] = opened[p]
      /\ \A h \in Handlers : release[h].step = "sync" => release[h].handle = opened[release[h].path]
  BY Zenon, <1>2 DEF HandleInv
<1>4. CASE \A s \in Streams : ~AcquireFile(s)
  <2>1. HandlesStay
    BY <1>4, HandleStep
  <2>2. opened' = opened
    BY Zenon, <2>1 DEF HandlesStay
  <2>3. ASSUME NEW s \in Streams, NEW p \in Paths \ asked', Owns(s, p)' PROVE files'[s][p] = opened'[p]
    <3>1. p \in Paths \ asked /\ Owns(s, p) /\ files'[s][p] = files[s][p]
      BY Zenon, <1>2, <2>1, <2>3 DEF HandlesStay
    <3>2. QED
      BY Zenon, <1>3, <2>2, <3>1
  <2>4. ASSUME NEW h \in Handlers, release'[h].step = "sync"
        PROVE  release'[h].handle = opened'[release'[h].path]
    <3>1. release'[h] = release[h] \/ release'[h].handle = opened[release'[h].path]
      BY Zenon, <2>1, <2>4 DEF HandlesStay
    <3>2. QED
      BY Zenon, <1>3, <2>2, <2>4, <3>1
  <2>5. QED
    BY <2>3, <2>4
<1>5. ASSUME NEW s \in Streams, AcquireFile(s)
      PROVE  /\ \A t \in Streams, p \in Paths \ asked' : Owns(t, p)' => files'[t][p] = opened'[p]
             /\ \A h \in Handlers : release'[h].step = "sync" =>
                  release'[h].handle = opened'[release'[h].path]
  <2>1. PICK b \in Blocks : AcquireEffect(s, b)
    BY <1>5, AcquireStep
  <2>2. PICK p \in Paths : p = PathOf[b]
    BY Zenon, <2>1 DEF AcquireEffect
  <2>3. /\ b \in unwritten[s] /\ files'[s][p] = Handle(p) /\ opened'[p] = Handle(p)
        /\ \A t \in Streams, q \in Paths : t # s \/ q # p => files'[t][q] = files[t][q]
        /\ \A q \in Paths \ {p} : opened'[q] = opened[q]
    BY Zenon, <2>1, <2>2 DEF AcquireEffect, Keeps, OpensOrShares
  <2>4. release' = release /\ asked' = asked
    BY <1>5 DEF AcquireFile
  <2>5. \/ opened'[p] = opened[p]
        \/ Owners(p) = {} /\ Guardians(p) = {}
    <3>1. CASE HasEntry(p)
      BY ZenonT(30), <2>3, <3>1 DEF Handle
    <3>2. CASE ~HasEntry(p)
      <4>1. refCount[p] = 0
        BY <3>2 DEF HasEntry, DestTypes, CacheTypes
      <4>2. ~Stolen(p)
        BY ZenonT(30), <1>2, <2>2, <2>3, WritingIsNotAsked DEF Stolen
      <4>3. QED
        BY Zenon, <1>2, <4>1, <4>2, NobodyHolds DEF DestTypes
    <3>3. QED
      BY Zenon, <3>1, <3>2
  <2>6. ASSUME NEW t \in Streams, NEW q \in Paths \ asked', Owns(t, q)' PROVE files'[t][q] = opened'[q]
    <3>1. CASE t = s /\ q = p
      BY Zenon, <2>3, <3>1
    <3>2. CASE t # s \/ q # p
      <4>1. files'[t][q] = files[t][q] /\ Owns(t, q)
        BY Zenon, <2>3, <2>4, <2>6, <3>2 DEF Owns, In
      <4>2. files[t][q] = opened[q]
        BY Zenon, <1>3, <2>4, <4>1
      <4>3. opened'[q] = opened[q]
        <5>1. CASE q = p
          <6>1. t \in Owners(p)
            BY Zenon, <4>1, <5>1 DEF Owners
          <6>2. QED
            BY <2>5, <5>1, <6>1
        <5>2. CASE q # p
          BY Zenon, <2>3, <5>2
        <5>3. QED
          BY Zenon, <5>1, <5>2
      <4>4. QED
        BY <4>1, <4>2, <4>3
    <3>3. QED
      BY ZenonT(30), <3>1, <3>2
  <2>7. ASSUME NEW h \in Handlers, release'[h].step = "sync"
        PROVE  release'[h].handle = opened'[release'[h].path]
    <3>1. release[h].step = "sync" /\ release[h].handle = opened[release[h].path]
      BY Zenon, <1>3, <2>4, <2>7
    <3>2. release[h].path \in Paths
      BY Zenon, <3>1, ReleaseRecord, NotReleasingStep
    <3>3. opened'[release[h].path] = opened[release[h].path]
      <4>1. CASE release[h].path = p
        <5>1. h \in Guardians(p)
          BY Zenon, <3>1, <4>1 DEF Guardians, In
        <5>2. QED
          BY Zenon, <2>5, <4>1, <5>1
      <4>2. CASE release[h].path # p
        BY <2>3, <3>2, <4>2
      <4>3. QED
        BY Zenon, <4>1, <4>2
    <3>4. QED
      BY Zenon, <2>4, <3>1, <3>3
  <2>8. QED
    BY <2>6, <2>7
<1>6. QED
  BY Zenon, <1>4, <1>5
=============================================================================
