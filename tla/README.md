# A TLA+ model of ceph-volsync-plugin

This directory holds TLA+ specifications of the replication path of
ceph-volsync-plugin, the TLC configurations that check them on small instances,
and machine-checked proofs (TLAPS) of most of their safety properties for every
value of the constants. Paths below are relative to the repository (`src/` in
`PROJECT.json`). `PROJECT.json` lists components, runs, the source lines behind
every definition (`map`), hazards, findings and theorems.

## 1. The system

A ReplicationSource and a ReplicationDestination live in two clusters. In each
an operator (VolSync's state machine with this plugin's mover) creates
snapshots, PVCs and a Job. The source Job's worker computes what changed
between two snapshots, and streams the changed blocks over gRPC to the
destination Job's worker, which writes them to a device (RBD) or to files
(CephFS), and finally receives `Done`.

    operator --> VolumeSnapshot, PVC, Job              operator --> Job, image, latestImage
    SnapshotLifecycle        |                         ImageLifecycle |
               \------------ | ------- Replication ------------------ | ---/
                             v                                        v
                       source worker --> stunnel, gRPC --> destination worker
                       MoverProcess with     Tunnels     MoverProcess with DestinationServer
                       ConnPool          | CephFSSync (the whole CephFS sync)
                                               | diff iterator (RBDTransfer, CephFSTransfer)
                                               v
                         feeder --> readers --> senders --> streams --> Write handler
                                   |    ^            Pipeline               |
                       MemSemaphore|    | WindowSemaphore <-- ack receivers <
                                        |
                                        +-- commit drainer / Sync ask IsReleased
    file handles of both workers: FileCache with SourceFiles, DestinationFiles

### Inventory

| Component (sources) | State | Operations | Interacts through | What is hard | What makes it correct |
|---|---|---|---|---|---|
| Window semaphore (`internal/worker/pipeline/semaphore.go`) | `base`, ring `released`, `inFlight`, sorted waiters, one-element `releaseCh` | Acquire, Release, IsReleased, ReleaseChan | called by readers, senders' error paths, ack receivers, commit drainer, RBD Sync | acks in any order, slots reused modulo the ring, grant racing cancellation | exact watermark, no lost wake-up, exact count, nobody stays parked |
| Memory semaphore (same file) | `cur`, FIFO of waiters | Acquire, Release, wake loop | called by readers and senders | a cancelled waiter wakes nobody; large requests behind small ones | exact budget, a waiter always has a waker, no starvation |
| Transfer pipeline (`internal/worker/pipeline/`) | two channels, workers, batches, streams, three nested errgroups | Run: feeder, StageRead, StageSendData, ackReceiver | both semaphores, gRPC stream, caller's context | every error path must give back exactly what it holds; shutdown order; waiting cycles | one owner per slot and byte; nil means delivered; Run returns |
| CephFS block transfer (`internal/worker/cephfs/block_iterator.go`, `commit_drainer.go`, part of `source.go`) | iterator position, boundary channel and backlog, drainer's pending list and batch | Next, Close, Run, drainQualified, flushAll, sendCommitBatch | `boundaryCh`, the window, `committedCh`, an errgroup | boundaries overtake each other, a release is read as an ack, one side fails first | commit only what is stored, once, all of it; the join returns |
| CephFS source worker (rest of `source.go`, `cephfs_reader.go`, `zero.go`) | producers/consumers, file cache | Sync, stateless sync, walk, rsync passes, retry | channels, child rsync, gRPC | one failing consumer among walkers; shared file handles | every changed path is handled once; a failed pass is retried or reported |
| CephFS destination (`cephfs/destination.go`) | reference-counted open files | Write, Commit, Delete | concurrent streams | a commit closing a handle another stream is writing | no use after close, truncation after the last write |
| RBD worker (`internal/worker/rbd/`, `internal/ceph/rbd/`) | diff goroutine and channel, adapter position, device | Sync, Next, loadNext, emitFromRemainder, Close, Write, Commit | librbd callback, the pipeline, the window | early exit while the callback is blocked, overlapping extents, an error that looks like the end | blocks disjoint; Done means complete and synced; Sync returns |
| Worker runtime (`internal/worker/common/`, `cmd/mover`) | two servers, pinned certificate, mutex, shutdown channel | RunDestinationServer, ExchangeCerts, StopDirectTLS, Done, runMover | gRPC | a replaced source pod asks while its predecessor still writes; two servers shut down in turn; a mutex held while waiting | one source writes at a time, nothing is left running, nothing waits for ever |
| Tunnels (`internal/worker/tunnel/`) | child processes | Setup, Start, Stop, Cleanup | files, processes | a failure between two starts, a child that dies | what was started is told to stop |
| Snapshot life cycle (`internal/mover/ceph/{mover,pvc,job,snapshot_method}.go`) | VolumeSnapshots with status label and cleanup mark, the client's cache of them, PVCs, Job | Synchronize, Cleanup | Kubernetes API, snapshotter, provisioner, Job controller | restart between any two API calls; retries; a cache that lags | the base of the next diff survives and is the right one; partial transfers are resumed |
| Destination image life cycle (same files, `replicationdestination_controller.go`) | Job, images, annotation of the PVC, latestImage | Synchronize, Cleanup | Kubernetes API, VolSync's volume handler | status recorded after the old image is marked; a source that is retried | the published image exists and is whole |
| Mover resources (`service.go`, `secrets.go`, `networkpolicy.go`, `builder.go`) | Services, Secrets, ConfigMaps | ensure* | Kubernetes API | - | idempotent creation |
| Controllers (`internal/controller/`, `cmd/manager`) | status | Reconcile, Synchronize and Cleanup of the machines | VolSync's state machine | status update that fails | alternation of Synchronize and Cleanup |
| Ceph connections (`internal/ceph/connection/`, `cephfs/`) | pool of counted connections with expiry | Get, Put, gc | mutex, timer | expiry racing reuse, connecting outside the lock | nothing in use is destroyed, nothing is lost |
| Ceph configuration, volume ids (`internal/ceph/config`, `volid`, ...) | - | parse, encode | - | length fields, overflow | decoding inverts encoding |
| Statistics, generated protocol stubs | counters | - | - | - | - |

## 2. Modules

| Module | Models | State and actions |
|---|---|---|
| `WindowSemaphore` | the type `WindowSemaphore` | one operator per critical section: `WinAcquire`, `WinPark`, `WinWake`, `WinCancel`, `WinRelease`, `WinSignalReceived`. The waiters' slice is sorted and its ids are unique, so it is a set. The advance loop is the unique `k` with `Advances`. |
| `AckWindow` | abstract | what the window promises: ids that own a place, ids that are done, no ring. |
| `WindowClients` | callers of the window | each id is acquired once and released once; the properties, and the inductive invariant `WindowInv`. |
| `MemSemaphore`, `MemClients` | the type `MemSemaphore` and readers that use it for ever | the FIFO list is a sequence; the wake loop is the unique prefix `WakesFirst`. |
| `Pipeline` | `Pipeline.Run`, `StageRead`, `StageSendData`, the stream and the destination's Write loop | composes both semaphores. One step is one channel operation, critical section, Send/Recv, or errgroup cancellation. `errs` is the set of cancelled errgroups. Blocks are `zero` (marked by the iterator), `hole` (read as zeros) or `data`. |
| `BlockTransfer` | abstract | what Run promises to the code around it: blocks taken, stored, released, outcome. |
| `CephFSTransfer` | `runSnapdiffBlockPipeline`, iterator, drainer | uses `BlockTransfer` in place of the pipeline and `AckWindow`'s reading of `IsReleased`. |
| `CephFSSync` | a sync of the CephFS source from connecting to Done | both methods. Plain rsync: two passes per attempt, retries. Snapshot diffs: producer, three category channels, the peek and the proxy in front of the block pipeline, two pools of rsync workers with batches, the delete consumer, the errgroup and its context, the convergence pass. The block pipeline with its drainer (`CephFSTransfer`) is here a goroutine that takes files and commits them, or fails. |
| `FileCache` | the type `FileCache` | a reference count and a handle number per path; `Acquire`, `Release`, the guard of `SyncAndRelease`, `Close`. |
| `DestinationFiles` | Write and Commit handlers of the CephFS destination, end of the server | one step per critical section of the cache, per block written, per fsync. |
| `SourceFiles` | `CephFSReader` with its read workers and `CloseFile` | `ReadAt` is acquire, LoadOrStore, release of the extra reference, read. |
| `WorkerFiles` | a worker of either type | the union of the two, and their properties. |
| `RBDTransfer` | `SourceWorker.Sync` of RBD, diff goroutine, adapter, destination device | uses `BlockTransfer`. The device is a few positions that hold `old`, `data` or `zero`; `durable` is its content at the last fsync. |
| `SnapshotLifecycle` | source mover with copy method Snapshot | one action per API call that changes an object, because the operator may stop between any two; snapshotter, provisioner and Job controller are external actions. `view` is the client's cache: the lists are read from it, and an update of an outdated copy is refused. `doubled` collects snapshots that were `current` at the same time. |
| `ImageLifecycle` | destination mover with copy method Snapshot, `rdMachine` | Job, image, `status.latestImage`, the two steps of Cleanup. |
| `Replication` | the two operators and the pods between them | composes the two; `volume` is the destination's volume: what was sent last, what is half written, what was ever sent, what is at one place of it (a file or a block, whose contents in each snapshot are the constant `Data`), and whether a diff started from another base than the volume held (`strayed`). Its properties, and the inductive invariants `RotationInv`, `SyncedInv`, `ContentsInv`, `ImageInv` and `BoundsInv`. |
| `DestinationServer` | `RunDestinationServer`, `CertExchangeHandler`, `SyncServer`, and the source pods that call them | per source: what it does and which of its handlers runs; the mutex, the direct listener and whom it is pinned to, the shutdown channel, the steps of the shutdown. |
| `Tunnels` | `tunnel.Manager`, `Stunnel`, `RsyncDaemon` | one action per step of Setup, each with its failure; processes are none, up, signalled or dead. |
| `ConnPool` | `ConnPool`, `ClusterConnection` | one action per critical section; `up` are the connections that are not shut down. |
| `MoverProcess` | `runMover` | composes the three above: tunnels, then the worker, then Cleanup. |
| `CacheSteps` | - | what the operations of `FileCache` do to one path: the vocabulary of the proofs about its two clients. |
| `PipelineInvariant`, `PipelineProofs`, `RBDProofs` (with the window), `CephFSProofs`, `DestinationProofs`, `FilesProofs`, `MoverProofs`, `LifecycleProofs` | - | the theorems of section 5, with the inductive invariants that are not part of a model. |
| `MC*` | - | the small instances. |

Composition: `Pipeline` extends the two semaphores and is shown to implement
`BlockTransfer` (run `pipeline`, `PipelineKeepsPromise`; theorem `PromiseKept`); the
two transfers extend `BlockTransfer`. `BlockTransfer` states safety only.
The fairness the transfers add to it (what is fed is written and acknowledged) assumes that the
pipeline does not stall in the way of finding 1.

What `Replication` takes from the transfers is only this. A transfer writes a
place when it is a full copy, or when the place differs between base and target,
and not otherwise (`Concerned`). It writes what the mounted PVC has there
(`Written`). Before Done it may have written any part. In three cases the place
may be `Unknown` instead, and then nothing is claimed of it:

- after a full copy: an RBD worker is then given no target handle
  (`internal/mover/ceph/snapshot_method.go:371-385`), so librbd reports what is
  allocated in the live image (`internal/ceph/rbd/rbd.go:203`), and what that one
  does not have any more is zeroed although the snapshot has it. A full copy of
  CephFS is rsync's, whose second pass has `--delete`, and is exact;
- when Done was said although the diff had broken off (finding 3) or a file had
  been skipped;
- when another source wrote between Done and the end of the destination's pod.
  `DestinationServer` allows that: until `SelectDone` it accepts a further
  exchange of certificates and new streams.

Some modules contain, just before an operator X, an operator with the comment
"Mutant of X". These are deliberate mistakes, one for each property: put in
place of X they make TLC report the property (`mutants` in `PROJECT.json`), which
shows that the property depends on that piece of code. No specification uses
them.

## 3. Runs

`tlc -config <cfg> <module>`. All passing runs explore their complete state
space.

| Run | Checks | Distinct states | Shows |
|---|---|---|---|
| `window` | ClientTypeOK, WatermarkExact, NoLostWakeup, RingImplementsWindow, ParkedProceeds | 5,754 | the ring keeps an exact watermark, implements `AckWindow` and wedges nobody |
| `mem` | TypeOK, BudgetExact, WaiterHasWaker, LargeRequestProceeds | 18,566 | exact budget, no starvation |
| `pipeline` | TypeOK, OneOwner, MemoryExact, PipelineKeepsPromise, RunReturnsOrStalls | 400,728 | resources have one owner through every failure; nil means delivered and everything given back; Run returns, or waits for a batch nobody flushes, and there is no third possibility |
| `pipeline_stall` | RunTerminates, violated | - | finding 1 |
| `cephfs` | TypeOK, CommittedIsStoredUnlessFaulted, CommitsExact, JoinReturnsOrOrphaned | 384,976 | commits are sound while the pipeline is healthy, never doubled, complete on success; the join returns unless Close is left alone |
| `files` | TypeOK, HandleUsable, CommitMeansDurable, NoHandleLeak | 391,154 | a handle in use is open while the protocol between source and destination is followed; an answered commit is durable, whoever did the fsync; nothing stays open |
| `sync` | TypeOK, EntryOwned, DoneMeansApplied, SyncReturns | 612,955 | no changed entry is lost or handled twice between goroutines; Done is signalled only after a success of every part, with nothing left out but what was skipped; Sync returns whatever fails |
| `lifecycle` | TypeOK, LastSyncedKept, PartialIsResumed, PreviousWasApplied, LatestImageWhole | 3,349,352 | rotation never loses the snapshot the destination holds, a half written volume is completed with the same target, and the published image exists and is neither half written nor a mixture, through interrupted and repeated Cleanups, lost answers and a lagging cache |
| `lifecycle_base` | BaseIsLastSynced, violated | - | finding 2 |
| `rbd` | TypeOK, BlocksDisjoint, CompleteUnlessDiffFailed, SyncTerminates | 823,306 | Done is signalled only for a complete and synced device, if the diff was complete; Sync returns and takes the diff goroutine with it |
| `rbd_diff_error` | SignalMeansComplete, violated | - | finding 3 |
| `mover` | TypeOK, OneSourceWrites, NothingLeftRunning, PoolExact, NothingWaitsForever | 191,580 | a replaced source and its successor never write together, a mover leaves nothing running, the pool is exact, and neither the exchange of certificates nor the shutdown gets stuck |

### Bounds

- `window`: MaxWindow 2, so a ring of 4 slots, and 7 ids: slots are reused, and a
  release can move `base` by several ids and wake several waiters. The theorems
  remove the bound.
- `mem`: 4 readers, a budget of 3, requests of 1 to 3: a large request waits
  both behind and ahead of small ones, and a cancelled waiter can be anywhere in
  the list.
- `pipeline`: 2 readers and 1 sender, or 1 reader and 2 senders; 3 blocks of all
  three kinds on a ring of 2 slots, budget 2, batches of up to 2, channels of 2,
  and a byte limit that one data block reaches. The window fills, memory runs
  out, a batch is flushed both by a further chunk and by the end, one stream
  breaks while the other goes on, and Run can succeed, stall or fail. All four
  kinds of failure. The theorems remove the bounds for the two properties they
  prove.
- `pipeline_stall`: 6 blocks on a ring of 4 slots, ample memory, no failure.
- `cephfs`: files of 1, 2, 0 and 1 blocks, `boundaryCh` of 1 so that the backlog
  is used, commit batches of 2, distance MaxWindow + 2 = 3. A pipeline fault, a
  commit failure and a cancelled caller, at every point. The theorems remove the
  bounds.
- `files`: a destination with 2 Write streams, 2 paths, 2 blocks of one of them,
  or a source with 2 read workers and 3 chunks of 2 files. Handlers fail at every
  point, and the source may also ask for a commit too early (`early`) or close a
  file before it was read (`hasty`), as it does after a fault; HandleUsable
  speaks of the other behaviours. A larger instance, with blocks in both files
  (17 million states), was explored once without an error. The theorems remove
  the bounds.
- `sync`: 2 directories, 6 entries of all kinds, channels of 1 so that every
  sender blocks, batches of 2 so that the last one is partial, 2 workers in the
  metadata pool and 1 in the other, 3 attempts with exit codes -1, 0, 1 and 23.
  Every goroutine can fail and the process can be told to stop, at every point.
- `rbd`: a device of 4 positions, chunks of 2, `blocksChan` of 1, full and
  incremental, every list of up to 2 extents in offset order, also overlapping
  and nested. Every failure. The theorems remove the bounds.
- `lifecycle`: 3 snapshots, so that rotation drops an old one, a backoff limit of
  1, 2 images, and a cache that may lack the newest snapshot and hold an old copy
  of one more: that is enough for two snapshots to be `current` at once. The
  place changes with the second snapshot and changes back with the third
  (`ChangedBack`), which is the case in which a diff from too old a base leaves
  it out. The theorems remove these bounds. Explored once without an error, with
  an exact cache and 3 images: the other patterns (changed by the second only, by
  the third only, never).
- `lifecycle_base`: 3 snapshots and an exact cache, so that the cache has no part
  in it.
- `mover`: 2 source pods (a pod and its replacement), or 2 callers, 2 credentials
  and 3 connections. The theorems remove these bounds.

Only `files`, which has no temporal property, uses symmetry (of the blocks and
chunks of a file, the streams and the readers). Deadlock is checked in all passing runs but
`window`, where the clients stop when every id is done, and `files`, where the
process ends.

### Fairness

Weak fairness per goroutine: a goroutine that can go on does. That is what the
Go scheduler gives. The disjunction over a goroutine's steps is fair, not each
step, so a `select` may always choose the same ready case. Failures are never
fair, with one exception: a cancelled context does break the streams opened with
it. The destination's handlers, rsync and librbd are assumed to answer or to fail.
In `sync` the block pipeline is assumed to commit what it takes, or to fail:
findings and limits of section 4 apply to it.
In `mover` every handler, `runMover` and the servers are fair; the mutex is given
to whoever waits for it again and again (Go's mutex hands over to a waiter that
has waited a millisecond), which is strong fairness of the two lock actions; a
source ends its streams and rsync transfers; the connection of a vanished source
is given up by gRPC's keepalive. Pods need not die, and nobody has to send a
signal or call Done.
In `window` and `mem` what is held is eventually released, which is the
pipeline's duty; cancellation is never required.

## 4. Findings

Each is a run that TLC refutes, and the code does what the trace shows.

1. **A batch that is not flushed can stop the pipeline** (`pipeline_stall`).
   `dataSender` flushes only when a further chunk arrives or `readCh` closes. If
   the id at `base` is in a batch, and every reader that has a chunk is parked
   outside the window, neither happens.
2. **The base of an incremental may be too old** (`lifecycle_base`). Old
   `previous` snapshots are dropped before `current` is relabelled, so two are
   labelled `previous` from the second cycle on, and the first of an unordered
   list is used. The image can then be wrong: a place that the second snapshot
   changed and the third changed back is not in the diff from the first to the
   third, and keeps the contents of the second. Without the exception `strayed`
   TLC finds `LatestImageWhole` violated in this way. What `lifecycle` shows to
   hold is less: each `previous` snapshot was sent, the newest is never lost, and
   the published image exists until it is replaced.
3. **An error of the diff looks like its end** (`rbd_diff_error`). The error is
   only returned by `iter.Close`, and Sync ignores it.

More weak points are not runs of their own. Their extent is exactly the
exception in a property that holds, and checking the property without the
exception gives the trace:

- *Released is not acknowledged* (`CommittedIsStoredUnlessFaulted`; without the
  exception it is `CommittedIsStored`). Error paths release window slots of blocks
  that were not written. Until the errgroup cancels it the drainer reads these as
  acknowledgements and may commit the file. It needs a pipeline fault.
- *Close can wait for a drainer that has gone* (`JoinReturnsOrOrphaned`,
  `JoinTerminates`). `flushAllBoundaries` selects on the caller's context, not on
  the errgroup's.
- *Files passed over* (`DoneMeansApplied`, the set `skipped`). A changed file
  above the small-file threshold whose block diff cannot be opened, or is empty
  (only its metadata changed), gets no boundary. It is not committed, so it does
  not reach the metadata rsync either, and Done is signalled. Nor does rsync get a
  path whose line could not be written to the list of its batch
  (`internal/worker/cephfs/source.go:1075` ignores the error), and with an empty
  or missing list it is not run at all (`rsyncFromList` returns nil).
- *Two current snapshots* (`LastSyncedKept`, `PartialIsResumed`,
  `PreviousWasApplied`, `LatestImageWhole`; the set `doubled`). The name of a new
  snapshot ends in the time, so nothing refuses a second one when the cache does
  not show the first yet. Each of the four properties fails without the
  exception: a Job may be given the PVC of one and the handle of the other, and
  the one that was not transferred becomes `previous` in a later cycle.
- *Unknown contents* (`LatestImageWhole`, the value `Unknown`): the three cases of
  section 2.
- *rsync is not fenced* (`OneSourceWrites`). The streams of a replaced source are
  waited for, its rsync transfers are not: they go through stunnel to the rsync
  daemon, which knows no pinned certificate.
- *Processes without a signal* (`NothingLeftRunning`). A stunnel whose pid file or
  sockets do not show up in time is left alone by `Setup`, and after an error of
  the main server its handlers may still run when `Run` returns. `Stop` of the
  rsync daemon looks at `exitCh` without waiting, although its comment
  (`internal/worker/tunnel/rsync.go:111`) says "and waits".
- *Waiting for Done* (`NothingWaitsForever` speaks of a shutdown that has begun).
  Nobody watches stunnel or the rsync daemon: if stunnel dies before a source
  was served, the destination serves on until it is told to stop. The direct
  server sets no keepalive of its own, so a vanished source can hold up its
  replacement for gRPC's default of two hours.

One sentence of the documentation is wrong without consequence:
`internal/worker/pipeline/README.md:176` says "Resources held by in-flight chunks
are released on context cancellation". Chunks that are in `readCh` when the
context is cancelled keep their memory and their slots: nobody reads the channel
any more. Both semaphores end with the transfer. `MemoryExact` says who holds what
until then, and that everything was given back when Run returns nil.

## 5. Proofs

A theorem here has the form `Spec => []P` for a property `P` that a run checks
on a small instance, and holds for every value of the constants that the named
ASSUMEs allow. TLC evaluates these on every run, and every inductive invariant
was checked by TLC on the instance of its run before it was proved.

| Component | Proved | Inductive invariant |
|---|---|---|
| window | ClientTypeOK, WatermarkExact, NoLostWakeup, RingImplementsWindow | `WindowInv` |
| pipeline | OneOwner, PipelineKeepsPromise | `PipeInv` |
| RBD transfer | TypeOK, BlocksDisjoint, CompleteUnlessDiffFailed | `DisjointInv`, `CompleteInv` |
| CephFS transfer | TypeOK, CommittedIsStoredUnlessFaulted, CommitsExact | `CephFSInv` |
| file handles | TypeOK, HandleUsable, CommitMeansDurable, NoHandleLeak | `FilesInv` |
| mover process | TypeOK, OneSourceWrites, NothingLeftRunning, PoolExact | `MoverInv`, `PoolInv` |
| life cycle | TypeOK, LastSyncedKept, PartialIsResumed, PreviousWasApplied, LatestImageWhole | `RotationInv`, `SyncedInv`, `ContentsInv`, `ImageInv`, `BoundsInv` |

### The window (`RBDProofs`, second part)

Proved for every `MaxWindow \in Nat \ {0}` and every
`ReqIDs \subseteq Nat` (`MaxWindowAssumption`, `ReqIDsAssumption`; nothing else
is assumed):

- `WindowTypes`, `WatermarkIsExact`, `NoWakeupIsLost`: the invariants ClientTypeOK,
  WatermarkExact (sound and complete, each a theorem of its own) and NoLostWakeup;
- `RingRefinesWindow`: `ClientSpec => RingImplementsWindow`, the refinement of
  `AckWindow`, with the advance loop, slot reuse and wake loop.

None of these is inductive by itself. The watermark speaks of `base`, but
`base` moves over flags, and a flag says something about an id only if no other
id of the window has the same slot. `WindowInv` therefore adds: `RingExact`
(below `base` all ids are done, and inside the window a flag is set exactly when
its id is done), `WindowBounds` (owners are in the window, nothing beyond it is
owned or done, waiters are beyond it), `WaitersParked` (the lists agree with the
callers), and that the slot of `base` is not released.

The argument: arithmetic of the ring first (`ModInjective`, `ModPeriod`,
`SlotInjective`, `SlotPeriod`), by hand from the division theorem, because the
modulus is not a literal. Then one lemma per action. `ReleaseInv` is the long
one: it splits the new window into the ids the advance loop passes (their flags
were set, so they are done, and their slots, now clear, stand for the ids one
turn later, which are beyond the old window and so not done) and the ids that
stay. The refinement uses `FreedExact`: the abstract `done`, read off the ring,
is exactly the set of ids released.

### The pipeline (`PipelineInvariant`, `PipelineProofs`)

For any sets of readers and senders and every window, budget, channel capacity,
batch limit, set of request ids and choice of failures (`PipelineAssumption`,
`MaxWindowAssumption`, `ReqIDsAssumption`, and the assumptions of the budget).
`PromiseKept` is the refinement of `BlockTransfer`. The theorems about the CephFS
and RBD transfers start from `BlockTransfer`; with `PromiseKept` that is no longer an
assumption about the pipeline. `OneOwnerHolds` proves OneOwner.

`PipeInv` follows a request id on its way: in the iterator, in `chunkCh`, with a
reader, in `readCh`, in the batch of a sender or put aside by it, on a stream, in
an ack on its way back or in the hands of the ack receiver, and released. `Has`
names these places. `PlacesInv` says that an id is at one of them at most; that
one with a slot is below the end of the window, which is what makes a flag of the
ring stand for it and for no other; that an acknowledged one is written; and that
while nothing was given up every id is somewhere, and released means written.
`QueueInv` says that no queue has an id twice, so that the head is gone from the
rest when it is taken. `ReaderInv` and `SenderInv` say what each goroutine has at
each of its steps, and `ControlInv` in which order the stages end. With the last,
nil can only be returned when all places but the last are empty, so that by
`PlacesInv` every block is written and released.

The argument: first, what a release does to the ring. Then, what a step may do with
an id (`Handled`): leave it, bring it to one place, or give it up, in which case
something has failed. A step that does this with every id keeps `PlacesInv`
(`CarriedPlaces`), and `Move` is the common case of ids that go from one place to
another. Every action has a lemma that names what it moves; those that change
neither a place nor the window share one (`Quiet`).

### The RBD transfer (`RBDProofs`)

For every device, chunk size, capacity of `blocksChan` and set of diffs with
extents inside the volume (`RBDAssumption`). `BlocksNeverOverlap` needs nothing
else: blocks are disjoint whatever the order of the extents, and however they
overlap, because the adapter never goes back behind its position, and what it
holds lies ahead of it (`DisjointInv`).

`DoneMeansSnapshot` proves CompleteUnlessDiffFailed. It also uses
`DiffOrderAssumption`: librbd reports extents in the order of their offsets, as
its callback does. The code needs it, since an extent behind the position is
skipped, which is right only if all of it was sent. `CompleteInv` follows a
position of a reported extent on its way: in the channel, in hand, in a block,
on the device. `BehindInv` justifies the skipping: from the offset of the last
extent up to the adapter's position everything was sent as data. `FillInv` is
about the zeros between the extents of a full diff. All of this is claimed as
long as neither Run nor the diff has failed.

### The CephFS transfer (`CephFSProofs`)

For every list of files and their numbers of blocks, every capacity of
`boundaryCh`, batch size, window and choice of failures (`CephFSAssumption`).
`CephFSInv` says where a boundary may be: in the backlog, the channel or the
pending list, once, or in the batch, and only of a file the iterator is through
with (`PlaceInv`). It says that a file in a batch is not yet committed, and is
announced only after that (`CommitInv`), that a file that was taken for a batch
is stored while the pipeline is healthy (`StoredInv`), and that no boundary is
lost while nothing has failed (`KeptInv`). `CommitsAreStored` and
`EveryFileCommitted` follow.

The step from an acknowledged watermark to stored blocks is arithmetic of request
ids: the blocks of a file are those from its first id up to the first id of the
next file. The first ids are partial sums of the layout, a recursive function, and
that this function exists and is increasing is proved by induction, in the form
"a non-empty set of numbers has a least element" (`LeastNumber`).

### The file handles (`DestinationProofs`, `FilesProofs`)

For any number of streams, readers, paths, blocks and chunks
(`DestinationAssumption`, `SourceAssumption`: the sets of handlers, readers and
chunks are finite, and the names of "no file" and "no chunk" are not files or
chunks). A reference count is compared with the number of those who hold a
reference. On the destination these are the streams that keep the handle in their
map and everyone inside `SyncAndRelease`, and Commit may give back one reference
that it did not take (`CountInv`). So the count may be one too low, but only for a
file whose commit was asked for, which nobody writes any more unless it was asked
for too early. `DurableInv` says who still owes the fsync of a written file: a
stream that has it in its map, or Commit. On the source the count is exact until
a file is closed (`SourceExact`). `FilesInv` joins the two.

### The connection pool (`MoverProofs`)

`PoolStaysExact` proves `PoolExact` of the pool alone, and `MoverPoolExact` of a
mover process, for any finite set of callers, any keys and any number of
connections (`PoolAssumption`). `PoolExact` is not inductive: `Put` looks for the
entry by its connection, so two entries must never share one, and a connection
on its way into the pool must be nobody else's. `PoolInv` adds both. The counts
are cardinalities of sets of holders; `JoinCount` and `LeaveCount` say how they
change when one caller comes or goes, and every action is one of these, a caller
that moves without joining or leaving (`SameHolders`), or `gc`, which removes
only entries nobody holds.

### The mover process (`MoverProofs`)

`MoverTypes`, `SourcesFenced` and `ReturnedIsQuiet` prove TypeOK, `OneSourceWrites`
and `NothingLeftRunning` for any set of source pods (`SourcesAssumption`: they are
not the two names the model uses for "nobody" and "the server itself"). The
inductive invariant is `MoverInv`. `ServerInv`, its first part, says that a handler
of the direct server belongs to the pinned source and that the listener is then
up or draining; that who is between stopping the old listener and starting the
new one holds the mutex, so there is only one; that there is no listener while
one is being started; and how far the shutdown is. That a new listener is pinned
only when no stream of the old one runs follows from the third. `TunnelInv` says
what Setup has started at each step.

### The life cycle of snapshots and images (`LifecycleProofs`)

`BaseIsNeverLost`, `PartialKeepsTarget` and `PreviousIsComplete` prove
`LastSyncedKept`, `PartialIsResumed` and `PreviousWasApplied` of the composition
`Replication`, for any number of snapshots and images, any backoff limit and a
cache of any age (`LifecycleAssumption`, `ImageAssumption`; with `MaxLag` at least
`MaxSnapshots` the cache is not bounded at all).

The inductive invariant of the last two is `RotationInv`. A label moves from
current to previous to none, and the cache is behind the server, never ahead
(`LabelsMove`). A snapshot is *open* while the server or the cache has it as
current; two open ones have been current together (`OneOpen`). `CycleOf` follows
one that was current alone: nothing else is sent from its first transfer until
the cache has closed it, too, and when Cleanup runs, the volume holds it. That
covers the dangerous moment after Relabel, when the cache still shows a current
snapshot and Synchronize may start a Job for it again.

`SyncedInv` adds what `LastSyncedKept` needs. Cleanup drops every previous
snapshot but the newest, so the snapshot last sent has to be the newest of those
the cache lists. It is, because an open snapshot (outside `doubled`) is the newest of
all, and while Cleanup runs none is created.

Most steps open nothing and touch only what is marked or to be marked; they are
`QuietStep`s, which keep both invariants (`QuietRotation`, `QuietSynced`). The
others (CreateSnapshot, CreateJob, the ends of a pod, SyncCompletes, Relabel and
the writes) have a lemma each for either invariant.

`PublishedIsWhole` proves `LatestImageWhole`, for any contents of any snapshots
(`DataAssumption`), and so for every place of the volume. `ContentsInv` says that
a Job is given the PVC and the handle of the same snapshot, and that a place has
what the snapshot sent last has, or what the one has that is being sent, unless it
is Unknown. A diff keeps that because it starts from what the volume holds, or
from the target itself; where it did not, `strayed` says so. A volume left half
written keeps it because the next transfer has the same target (`PartialIsTarget`,
from the first invariant), and writes again all that differs from the base.
`ImageInv` follows an image from its name to the status: once a destination was
told Done, what is written to its volume until the Job is deleted is the same
snapshot again or makes the place Unknown, the image named in the annotation is
never marked, and the published one is marked only when another one is ready to
take its place. What the property says of contents excludes `doubled` and
`strayed`; that the image exists does not.

### Only model-checked

- Every liveness property: the prover knows neither fairness nor ENABLED.
- The memory semaphore (`BudgetExact`, `WaiterHasWaker`), the memory of the pipeline
  (`MemoryExact`) and the whole CephFS sync (`EntryOwned`, `DoneMeansApplied`), with
  their TypeOK. Nothing in them is out of reach in
  principle. The sums of `BudgetExact` and `MemoryExact` need an induction over
  finite sets, which the library's theorems only offer by way of a smallest
  counterexample.

## 6. Plan

Done: everything of section 2. Next, in this order:

1. The volume id codec against a reference definition.
2. `SnapshotLifecycle`: copy method Direct.
3. The order in which Synchronize creates Service, Secrets and Job.

Theorems to add: `EntryOwned` for any listing; `BudgetExact` and `MemoryExact` for
any budget.

## 7. What is left out

- Contents of blocks, checksums, compression, logging and statistics. A read of
  a block is all zero or not.
- Inside the pipeline `held.release` takes two locks in turn; they are one step.
- Of the operator's cache only the copies of snapshots lag. PVCs and Jobs have
  fixed names, so a second creation is refused by the API server, and the status
  is written with the resource version it was read with.
- Copy method Direct; the creation of Services, Secrets,
  ConfigMaps and NetworkPolicies, which is idempotent and precedes the Job; the
  watches, indexes and start of the manager; `ConnPool.Copy` and `Destroy`, which
  have no caller; the volume id codec and the parsing of Ceph's configuration.
- Contents of the configuration files of stunnel and rsync. Certificates are
  identities: a source has one, and nobody else has it.
- The end of a CephFS file's diff with an error (the metadata rsync repairs the
  file) and splitting of zero blocks.
- In `CephFSSync`: the directory walk yields a given list of snapshot diffs; a
  worker without a destination address, which only waits for its signal; the
  pauses between attempts, which do not look at the context; the names of
  directories (the convergence pass is skipped when no directory is listed).
- In `DestinationFiles`: the Delete handler, which uses no handle (its effect is
  `SendDeletes` of `CephFSSync`), truncation, and new streams after the first
  ones.
- How RBD pools, images and snapshots are resolved from volume handles.
- The wait at the end of `Stunnel.Stop`, which blocks only if stunnel has become
  a child of the mover; it is taken to end, since stunnel obeys the signal.
- VolSync's state machine, the CSI sidecars, the Job controller, gRPC and librbd
  are outside the repository and modelled by what the code relies on.
