----------------------------- MODULE CephFSSync -----------------------------
(* A sync of the CephFS source worker from connecting to Done              *)
(* (cephfs/source.go, common/base_source.go, common/client.go).            *)
(*                                                                         *)
(* Without snapshot handles rsync copies everything, with retries.  With   *)
(* them a producer walks the directories and routes every entry of the     *)
(* snapshot diff to one of three channels.  A block pipeline, two pools of *)
(* rsync workers and a delete consumer take them from there, all in one    *)
(* errgroup: the first error cancels its context.  The block pipeline with *)
(* its commit drainer is the one of CephFSTransfer; here it takes files    *)
(* and commits them, or fails.                                             *)
EXTENDS Integers, Sequences, FiniteSets, SequencesExt

CONSTANTS
  Listing,      \* for each directory of the walk, what its snapshot diff lists
  Kind,         \* Kind[e]: what entry e is
  Workers,      \* Workers[q]: the rsync workers of pool q (rsyncWorkers)
  ChanCap,      \* capacity of the channels
  RsyncBatch,   \* smallBatchSize
  DeleteBatch,  \* deleteBatchSize
  MaxRetries,   \* maxRetries
  ExitCodes     \* exit codes of rsync, -1 when it was killed

(* A "file" is a regular file that is not empty; "special" an empty one or *)
(* neither file nor directory; "gone" is in the base snapshot only.        *)
Kinds == {"file", "special", "gone", "dir"}
Entries == DOMAIN Kind

ASSUME SyncAssumption ==
  /\ Kind \in [Entries -> Kinds]
  /\ Listing \in Seq(Seq(Entries))
  /\ Entries = UNION {ToSet(Listing[d]) : d \in DOMAIN Listing}
  /\ ChanCap \in Nat \ {0} /\ RsyncBatch \in Nat \ {0} /\ DeleteBatch \in Nat \ {0}
  /\ MaxRetries \in Nat \ {0}
  /\ 0 \in ExitCodes /\ ExitCodes \subseteq -1 .. 99

Pools == {"meta", "special"}

VARIABLES
  main,        \* where Sync is
  cancelled,   \* the context of Run is done (SIGTERM)
  result,      \* what Sync returns
  signalled,   \* the destination has received Done
  rcA, rcB,    \* return codes of the two passes of rsync
  retry,       \* rsync attempts
  producer,    \* "walk", "ok" or "err"
  dir, pos,    \* the directory listed and the next entry of it
  dirChanged,  \* syncState.dirChanged
  chan,        \* the category channels, proxyCh and committedCh
  proxy,       \* the goroutine from largeCh to proxyCh
  pipeline,    \* runSnapdiffBlockPipeline
  inFlight,    \* the files taken from proxyCh and not yet committed
  unnotified,  \* the committed files not yet sent to committedCh
  worker,      \* worker[pool][w]: "loop", "ok" or "err"
  batch,       \* batch[pool][w]: its batch
  deleter,     \* consumeDeletes
  deleteBatch, \* its batch
  skipped,     \* the files the block iterator passed over, and the paths that
               \* did not get into the list of their batch
  stored,      \* files committed on the destination
  synced,      \* synced[pool]: the entries rsync was run for
  removed,     \* the entries removed on the destination
  converged    \* the metadata of the directories was synced

runVars == <<main, cancelled, result, signalled>>
rsyncVars == <<rcA, rcB, retry>>
producerVars == <<producer, dir, pos, dirChanged>>
pipeVars == <<proxy, pipeline, inFlight, unnotified, skipped, stored>>
poolVars == <<worker, batch, synced>>
deleteVars == <<deleter, deleteBatch, removed>>
groupVars == <<producerVars, chan, pipeVars, poolVars, deleteVars, converged>>
vars == <<runVars, rsyncVars, groupVars>>

Init ==
  /\ main = "connect" /\ cancelled = FALSE /\ result = "none" /\ signalled = FALSE
  /\ rcA = 0 /\ rcB = 0 /\ retry = 0
  /\ producer = "walk" /\ dir = 0 /\ pos = 1 /\ dirChanged = FALSE
  /\ chan = [c \in {"large", "special", "deleted", "proxy", "meta"} |-> <<>>]
  /\ proxy = "off" /\ pipeline = "peek" /\ inFlight = <<>> /\ unnotified = <<>>
  /\ skipped = {} /\ stored = {}
  /\ worker = [q \in Pools |-> [w \in Workers[q] |-> "loop"]]
  /\ batch = [q \in Pools |-> [w \in Workers[q] |-> {}]]
  /\ synced = [q \in Pools |-> {}]
  /\ deleter = "open" /\ deleteBatch = {} /\ removed = {}
  /\ converged = FALSE

Return(r) == main' = "returned" /\ result' = r

-----------------------------------------------------------------------------
(* Run and Sync up to the choice of the method *)

(* There is a destination address. The version handshake is repeated until *)
(* it succeeds or time is up.                                              *)
ConnectToDestination ==
  /\ main = "connect"
  /\ \/ /\ ~cancelled
        /\ main' = "exchange"
        /\ UNCHANGED result
     \/ Return("err")
  /\ UNCHANGED <<cancelled, signalled, rsyncVars, groupVars>>

(* Sync exchanges certificates and dials the direct connection. Which      *)
(* method follows depends on the environment: are all handles set?         *)
ExchangeCerts ==
  /\ main = "exchange"
  /\ \/ /\ ~cancelled
        /\ main' \in {"rsync", "differ"}
        /\ UNCHANGED result
     \/ Return("err")
  /\ UNCHANGED <<cancelled, signalled, rsyncVars, groupVars>>

(* runSnapdiffSync decodes the handles and opens the differ. *)
CreateDiffer ==
  /\ main = "differ"
  /\ \/ /\ main' = "group"
        /\ UNCHANGED result
     \/ Return("err")
  /\ UNCHANGED <<cancelled, signalled, rsyncVars, groupVars>>

(* SIGTERM. *)
Cancel ==
  /\ ~cancelled
  /\ main # "returned"
  /\ cancelled' = TRUE
  /\ UNCHANGED <<main, result, signalled, rsyncVars, groupVars>>

-----------------------------------------------------------------------------
(* rsync: two passes in each attempt, the second also after a failed first *)

(* A command whose context is done does not succeed. *)
PassCodes == IF cancelled THEN ExitCodes \ {0} ELSE ExitCodes

FirstPass ==
  /\ main = "rsync"
  /\ retry' = retry + 1
  /\ rcA' \in PassCodes
  /\ main' = "deletion"
  /\ UNCHANGED <<cancelled, result, signalled, rcB, groupVars>>

(* The combined code, zero if both passes succeeded. *)
ReturnCode(a, b) == a * 100 + b

(* Mutant of SecondPass: one attempt too many. *)
SecondPassOneMore ==
  /\ main = "deletion"
  /\ rcB' \in PassCodes
  /\ \/ /\ ReturnCode(rcA, rcB') = 0
        /\ main' = "signal"
        /\ UNCHANGED result
     \/ /\ ReturnCode(rcA, rcB') # 0
        /\ retry <= MaxRetries
        /\ main' = "rsync"
        /\ UNCHANGED result
     \/ /\ ReturnCode(rcA, rcB') # 0
        /\ retry > MaxRetries
        /\ Return("err")
  /\ UNCHANGED <<cancelled, signalled, rcA, retry, groupVars>>

(* The loop ends with the first success or the last attempt. *)
SecondPass ==
  /\ main = "deletion"
  /\ rcB' \in PassCodes
  /\ \/ /\ ReturnCode(rcA, rcB') = 0
        /\ main' = "signal"
        /\ UNCHANGED result
     \/ /\ ReturnCode(rcA, rcB') # 0
        /\ retry < MaxRetries
        /\ main' = "rsync"
        /\ UNCHANGED result
     \/ /\ ReturnCode(rcA, rcB') # 0
        /\ retry = MaxRetries
        /\ Return("err")
  /\ UNCHANGED <<cancelled, signalled, rcA, retry, groupVars>>

-----------------------------------------------------------------------------
(* The errgroup of runStatelessSync *)

PoolReturned(q) == \A w \in Workers[q] : worker[q][w] # "loop"
PoolFailed(q) == PoolReturned(q) /\ \E w \in Workers[q] : worker[q][w] = "err"

GroupFailed ==
  \/ "err" \in {producer, pipeline, deleter}
  \/ \E q \in Pools : PoolFailed(q)

(* The group's context is done. *)
GroupDone == cancelled \/ GroupFailed

(* The pool's own context: of the group, or a worker has failed. *)
PoolDone(q) == GroupDone \/ \E w \in Workers[q] : worker[q][w] = "err"

Room(c) == Len(chan[c]) < ChanCap
Send(c, e) == chan' = [chan EXCEPT ![c] = Append(@, e)]
Recv(c) == chan' = [chan EXCEPT ![c] = Tail(@)]

(* Which channels have been closed: by the producer, the proxy goroutine   *)
(* and runStatelessSync.                                                   *)
Closed(c) ==
  CASE c = "proxy" -> proxy = "done"
    [] c = "meta" -> pipeline \in {"ok", "err"}
    [] OTHER -> producer # "walk"

Drained(c) == chan[c] = <<>> /\ Closed(c)

InGroup == main = "group" /\ UNCHANGED <<runVars, rsyncVars, converged>>

(* categorizeDir: where an entry goes. *)
Channel(e) ==
  CASE Kind[e] = "gone" -> "deleted"
    [] Kind[e] = "special" -> "special"
    [] OTHER -> "large"

DirListed == dir > 0 => pos > Len(Listing[dir])

ListEntry ==
  /\ InGroup
  /\ producer = "walk"
  /\ dir > 0 /\ ~DirListed
  /\ LET e == Listing[dir][pos] IN
       \/ /\ Kind[e] = "dir"
          /\ dirChanged' = TRUE
          /\ UNCHANGED chan
       \/ /\ Kind[e] # "dir"
          /\ Room(Channel(e))
          /\ Send(Channel(e), e)
          /\ UNCHANGED dirChanged
  /\ pos' = pos + 1
  /\ UNCHANGED <<producer, dir, pipeVars, poolVars, deleteVars>>

(* The next directory of the walk, unless the context is done. *)
NextDir ==
  /\ InGroup
  /\ producer = "walk"
  /\ ~GroupDone
  /\ dir < Len(Listing) /\ DirListed
  /\ dir' = dir + 1
  /\ pos' = 1
  /\ UNCHANGED <<producer, dirChanged, chan, pipeVars, poolVars, deleteVars>>

(* The end of the walk does not look at the context. *)
WalkEnds ==
  /\ InGroup
  /\ producer = "walk"
  /\ dir = Len(Listing) /\ DirListed
  /\ producer' = "ok"
  /\ UNCHANGED <<dir, pos, dirChanged, chan, pipeVars, poolVars, deleteVars>>

(* Mutant of ProducerCancelled: the context is looked at between           *)
(* directories only.                                                       *)
ProducerCancelledLate ==
  /\ InGroup
  /\ producer = "walk"
  /\ GroupDone
  /\ dir < Len(Listing) /\ DirListed
  /\ producer' = "err"
  /\ UNCHANGED <<dir, pos, dirChanged, chan, pipeVars, poolVars, deleteVars>>

(* A select before a directory or on sending an entry sees the context     *)
(* done.                                                                   *)
ProducerCancelled ==
  /\ InGroup
  /\ producer = "walk"
  /\ GroupDone
  /\ \/ dir < Len(Listing) /\ DirListed
     \/ ~DirListed /\ Kind[Listing[dir][pos]] # "dir"
  /\ producer' = "err"
  /\ UNCHANGED <<dir, pos, dirChanged, chan, pipeVars, poolVars, deleteVars>>

(* The walk, a snapshot diff or a stat fails. *)
ProducerFails ==
  /\ InGroup
  /\ producer = "walk"
  /\ producer' = "err"
  /\ UNCHANGED <<dir, pos, dirChanged, chan, pipeVars, poolVars, deleteVars>>

-----------------------------------------------------------------------------
(* runSnapdiffBlockPipeline *)

(* Mutant of PeekFirst: the file looked at is not put back. *)
PeekFirstLost ==
  /\ InGroup
  /\ pipeline = "peek"
  /\ \/ /\ chan["large"] # <<>>
        /\ Recv("large")
        /\ proxy' = "run"
        /\ pipeline' \in {"run", "err"}
     \/ /\ Drained("large")
        /\ pipeline' = "ok"
        /\ UNCHANGED <<chan, proxy>>
  /\ UNCHANGED <<producerVars, inFlight, unnotified, skipped, stored, poolVars, deleteVars>>

(* The first file starts the pipeline; a closed channel ends it at once. *)
PeekFirst ==
  /\ InGroup
  /\ pipeline = "peek"
  /\ \/ /\ chan["large"] # <<>>
        /\ chan' = [chan EXCEPT !["large"] = Tail(@), !["proxy"] = <<Head(chan["large"])>>]
        /\ proxy' = "run"
        /\ pipeline' \in {"run", "err"}
     \/ /\ Drained("large")
        /\ pipeline' = "ok"
        /\ UNCHANGED <<chan, proxy>>
  /\ UNCHANGED <<producerVars, inFlight, unnotified, skipped, stored, poolVars, deleteVars>>

(* The proxy drops the file it holds when the context is done. *)
ProxyFile ==
  /\ InGroup
  /\ proxy = "run"
  /\ \/ /\ chan["large"] # <<>> /\ Room("proxy")
        /\ chan' = [chan EXCEPT !["large"] = Tail(@),
                                !["proxy"] = Append(@, Head(chan["large"]))]
        /\ UNCHANGED proxy
     \/ /\ chan["large"] # <<>> /\ GroupDone
        /\ Recv("large")
        /\ proxy' = "done"
     \/ /\ Drained("large")
        /\ proxy' = "done"
        /\ UNCHANGED chan
  /\ UNCHANGED <<producerVars, pipeline, inFlight, unnotified, skipped, stored, poolVars,
                 deleteVars>>

(* The block iterator takes a file. A large one without changed blocks, or *)
(* whose diff cannot be opened, is passed over.                            *)
IterateFile ==
  /\ InGroup
  /\ pipeline = "run"
  /\ chan["proxy"] # <<>>
  /\ LET f == Head(chan["proxy"]) IN
       \/ /\ inFlight' = Append(inFlight, f)
          /\ UNCHANGED skipped
       \/ /\ skipped' = skipped \cup {f}
          /\ UNCHANGED inFlight
  /\ Recv("proxy")
  /\ UNCHANGED <<producerVars, proxy, pipeline, unnotified, stored, poolVars, deleteVars>>

(* The drainer commits files in the order of the iterator. *)
CommitFile ==
  /\ InGroup
  /\ pipeline = "run"
  /\ inFlight # <<>>
  /\ stored' = stored \cup {Head(inFlight)}
  /\ unnotified' = Append(unnotified, Head(inFlight))
  /\ inFlight' = Tail(inFlight)
  /\ UNCHANGED <<producerVars, chan, proxy, pipeline, skipped, poolVars, deleteVars>>

NotifyCommitted ==
  /\ InGroup
  /\ pipeline = "run"
  /\ unnotified # <<>>
  /\ Room("meta")
  /\ Send("meta", Head(unnotified))
  /\ unnotified' = Tail(unnotified)
  /\ UNCHANGED <<producerVars, proxy, pipeline, inFlight, skipped, stored, poolVars, deleteVars>>

(* The iterator stops at the end of proxyCh, or when the context is done.  *)
(* Then the pipeline succeeds once everything taken is committed.          *)
PipelineEnds ==
  /\ InGroup
  /\ pipeline = "run"
  /\ Drained("proxy") \/ GroupDone
  /\ inFlight = <<>> /\ unnotified = <<>>
  /\ pipeline' = "ok"
  /\ UNCHANGED <<producerVars, chan, proxy, inFlight, unnotified, skipped, stored, poolVars,
                 deleteVars>>

PipelineCancelled ==
  /\ InGroup
  /\ pipeline = "run"
  /\ GroupDone
  /\ pipeline' = "err"
  /\ UNCHANGED <<producerVars, chan, proxy, inFlight, unnotified, skipped, stored, poolVars,
                 deleteVars>>

(* A read, a stream or a commit fails. *)
PipelineFails ==
  /\ InGroup
  /\ pipeline = "run"
  /\ pipeline' = "err"
  /\ UNCHANGED <<producerVars, chan, proxy, inFlight, unnotified, skipped, stored, poolVars,
                 deleteVars>>

-----------------------------------------------------------------------------
(* rsyncWorkerLoop of worker w of pool q *)

TakePath(q, w) ==
  /\ InGroup
  /\ worker[q][w] = "loop"
  /\ Cardinality(batch[q][w]) < RsyncBatch
  /\ chan[q] # <<>>
  /\ batch' = [batch EXCEPT ![q][w] = @ \cup {Head(chan[q])}]
  /\ Recv(q)
  /\ UNCHANGED <<producerVars, pipeVars, worker, synced, deleteVars>>

(* A full batch, or the last one. *)
BatchReady(q, w) ==
  \/ Cardinality(batch[q][w]) = RsyncBatch
  \/ Drained(q) /\ batch[q][w] # {}

(* rsync runs for the paths that could be written to its list: an error in *)
(* writing one is ignored, and with an empty list there is nothing to run. *)
RunRsync(q, w) ==
  /\ InGroup
  /\ worker[q][w] = "loop"
  /\ BatchReady(q, w)
  /\ \E list \in SUBSET batch[q][w] :
       /\ PoolDone(q) => list = {}
       /\ synced' = [synced EXCEPT ![q] = @ \cup list]
       /\ skipped' = skipped \cup (batch[q][w] \ list)
  /\ batch' = [batch EXCEPT ![q][w] = {}]
  /\ UNCHANGED <<producerVars, chan, proxy, pipeline, inFlight, unnotified, stored, worker,
                 deleteVars>>

(* Mutant of WorkerReturns: the last batch is not flushed. *)
WorkerReturnsUnflushed(q, w) ==
  /\ InGroup
  /\ worker[q][w] = "loop"
  /\ \/ /\ Drained(q)
        /\ worker' = [worker EXCEPT ![q][w] = "ok"]
     \/ /\ PoolDone(q)
        /\ worker' = [worker EXCEPT ![q][w] = "err"]
  /\ UNCHANGED <<producerVars, chan, pipeVars, batch, synced, deleteVars>>

(* The channel has ended and the last batch was flushed, or the select     *)
(* or a command sees the context done.                                     *)
WorkerReturns(q, w) ==
  /\ InGroup
  /\ worker[q][w] = "loop"
  /\ \/ /\ Drained(q) /\ batch[q][w] = {}
        /\ worker' = [worker EXCEPT ![q][w] = "ok"]
     \/ /\ PoolDone(q)
        /\ worker' = [worker EXCEPT ![q][w] = "err"]
  /\ UNCHANGED <<producerVars, chan, pipeVars, batch, synced, deleteVars>>

RsyncFails(q, w) ==
  /\ InGroup
  /\ worker[q][w] = "loop"
  /\ BatchReady(q, w)
  /\ worker' = [worker EXCEPT ![q][w] = "err"]
  /\ UNCHANGED <<producerVars, chan, pipeVars, batch, synced, deleteVars>>

-----------------------------------------------------------------------------
(* consumeDeletes *)

OpenDeletes ==
  /\ InGroup
  /\ deleter = "open"
  /\ deleter' \in {"loop", "err"}
  /\ UNCHANGED <<producerVars, chan, pipeVars, poolVars, deleteBatch, removed>>

TakeDelete ==
  /\ InGroup
  /\ deleter = "loop"
  /\ Cardinality(deleteBatch) < DeleteBatch
  /\ chan["deleted"] # <<>>
  /\ deleteBatch' = deleteBatch \cup {Head(chan["deleted"])}
  /\ Recv("deleted")
  /\ UNCHANGED <<producerVars, pipeVars, poolVars, deleter, removed>>

DeletesReady ==
  \/ Cardinality(deleteBatch) = DeleteBatch
  \/ Drained("deleted") /\ deleteBatch # {}

(* The request is sent and its answer received; the destination has        *)
(* removed every path of it. The stream lives in the group's context.      *)
SendDeletes ==
  /\ InGroup
  /\ deleter = "loop"
  /\ DeletesReady
  /\ ~GroupDone
  /\ removed' = removed \cup deleteBatch
  /\ deleteBatch' = {}
  /\ UNCHANGED <<producerVars, chan, pipeVars, poolVars, deleter>>

DeleterReturns ==
  /\ InGroup
  /\ deleter = "loop"
  /\ \/ /\ Drained("deleted") /\ deleteBatch = {}
        /\ deleter' = "ok"
     \/ /\ GroupDone
        /\ deleter' = "err"
  /\ UNCHANGED <<producerVars, chan, pipeVars, poolVars, deleteBatch, removed>>

DeleteFails ==
  /\ InGroup
  /\ deleter = "loop"
  /\ DeletesReady
  /\ deleter' = "err"
  /\ UNCHANGED <<producerVars, chan, pipeVars, poolVars, deleteBatch, removed>>

-----------------------------------------------------------------------------
(* After the group *)

GroupReturned ==
  /\ producer # "walk" /\ pipeline \in {"ok", "err"} /\ deleter \in {"ok", "err"}
  /\ \A q \in Pools : PoolReturned(q)

(* g.Wait. *)
Wait ==
  /\ main = "group"
  /\ GroupReturned
  /\ \/ /\ GroupFailed
        /\ Return("err")
     \/ /\ ~GroupFailed
        /\ main' = IF dirChanged THEN "converge" ELSE "signal"
        /\ UNCHANGED result
  /\ UNCHANGED <<cancelled, signalled, rsyncVars, groupVars>>

Converge ==
  /\ main = "converge"
  /\ \/ /\ ~cancelled
        /\ converged' = TRUE
        /\ main' = "signal"
        /\ UNCHANGED result
     \/ /\ Return("err")
        /\ UNCHANGED converged
  /\ UNCHANGED <<cancelled, signalled, rsyncVars, producerVars, chan, pipeVars, poolVars, deleteVars>>

(* SignalDone. The answer to Done can be lost; a call with a context that  *)
(* is done is not sent.                                                    *)
SignalDone ==
  /\ main = "signal"
  /\ \/ /\ ~cancelled
        /\ signalled' = TRUE
        /\ \E r \in {"ok", "err"} : Return(r)
     \/ /\ Return("err")
        /\ UNCHANGED signalled
  /\ UNCHANGED <<cancelled, rsyncVars, groupVars>>

Terminated == main = "returned" /\ UNCHANGED vars

Main ==
  \/ ConnectToDestination \/ ExchangeCerts \/ CreateDiffer
  \/ FirstPass \/ SecondPass \/ Wait \/ Converge \/ SignalDone
Producer == ListEntry \/ NextDir \/ WalkEnds \/ ProducerCancelled
Pipe == PeekFirst \/ IterateFile \/ CommitFile \/ NotifyCommitted \/ PipelineEnds \/ PipelineCancelled
Worker(q, w) == TakePath(q, w) \/ RunRsync(q, w) \/ WorkerReturns(q, w)
Deleter == OpenDeletes \/ TakeDelete \/ SendDeletes \/ DeleterReturns
Faults == ProducerFails \/ PipelineFails \/ DeleteFails \/ \E q \in Pools : \E w \in Workers[q] : RsyncFails(q, w)

Next ==
  \/ Main \/ Cancel \/ Producer \/ ProxyFile \/ Pipe \/ Deleter \/ Faults
  \/ \E q \in Pools : \E w \in Workers[q] : Worker(q, w)
  \/ Terminated

Spec == Init /\ [][Next]_vars

(* Every goroutine goes on if it can; rsync and the destination answer.    *)
(* Neither a failure nor a signal has to happen.                           *)
FairSpec ==
  /\ Spec
  /\ WF_vars(Main) /\ WF_vars(Producer) /\ WF_vars(ProxyFile) /\ WF_vars(Pipe)
  /\ WF_vars(Deleter) /\ \A q \in Pools : \A w \in Workers[q] : WF_vars(Worker(q, w))

-----------------------------------------------------------------------------
(* Types of all variables. *)
TypeOK ==
  /\ main \in {"connect", "exchange", "differ", "rsync", "deletion", "group", "converge", "signal", "returned"}
  /\ cancelled \in BOOLEAN /\ signalled \in BOOLEAN /\ converged \in BOOLEAN
  /\ result \in {"none", "ok", "err"}
  /\ rcA \in ExitCodes /\ rcB \in ExitCodes /\ retry \in 0 .. MaxRetries
  /\ producer \in {"walk", "ok", "err"} /\ dirChanged \in BOOLEAN
  /\ dir \in 0 .. Len(Listing) /\ pos \in Nat
  /\ \A c \in DOMAIN chan : chan[c] \in Seq(Entries) /\ Len(chan[c]) <= ChanCap
  /\ proxy \in {"off", "run", "done"} /\ pipeline \in {"peek", "run", "ok", "err"}
  /\ inFlight \in Seq(Entries) /\ unnotified \in Seq(Entries)
  /\ skipped \subseteq Entries /\ stored \subseteq Entries /\ removed \subseteq Entries
  /\ \A q \in Pools :
       worker[q] \in [Workers[q] -> {"loop", "ok", "err"}] /\ synced[q] \subseteq Entries
  /\ \A q \in Pools : \A w \in Workers[q] :
       batch[q][w] \subseteq Entries /\ Cardinality(batch[q][w]) <= RsyncBatch
  /\ deleter \in {"open", "loop", "ok", "err"}
  /\ deleteBatch \subseteq Entries /\ Cardinality(deleteBatch) <= DeleteBatch

(* The entries the producer has read from the snapshot diffs. *)
Listed ==
  {e \in Entries : \E d \in 1 .. dir : \E i \in 1 .. Len(Listing[d]) :
     Listing[d][i] = e /\ (d < dir \/ i < pos)}

(* Where an entry is on its way to the destination. *)
Places(e) ==
  {<<"chan", c>> : c \in {c \in DOMAIN chan : e \in ToSet(chan[c])}}
  \cup UNION {{<<"batch", q, w>> : w \in {w \in Workers[q] : e \in batch[q][w]}} : q \in Pools}
  \cup {<<"rsynced", q>> : q \in {q \in Pools : e \in synced[q]}}
  \cup (IF e \in ToSet(inFlight) THEN {"inFlight"} ELSE {})
  \cup (IF e \in ToSet(unnotified) THEN {"unnotified"} ELSE {})
  \cup (IF e \in skipped THEN {"skipped"} ELSE {})
  \cup (IF e \in deleteBatch THEN {"deleteBatch"} ELSE {})
  \cup (IF e \in removed THEN {"removed"} ELSE {})

(* Until the group is cancelled every entry read from the snapshot diffs   *)
(* is in exactly one channel, batch or stage, or has been applied: none is *)
(* lost between goroutines, in the peek of the first file or in a last     *)
(* batch, and none is handled twice.                                       *)
EntryOwned ==
  ~GroupDone => \A e \in Listed : Kind[e] # "dir" => Cardinality(Places(e)) = 1

(* The destination has entry e as it is in the target snapshot. *)
Applied(e) ==
  CASE Kind[e] = "file" -> e \in stored /\ e \in synced["meta"]
    [] Kind[e] = "special" -> e \in synced["special"]
    [] Kind[e] = "gone" -> e \in removed
    [] OTHER -> converged

(* Done is signalled only after a success. With snapshot diffs that is:    *)
(* every changed entry was applied, but for the files the block iterator   *)
(* passed over and the paths that rsync was not given (skipped); no last   *)
(* batch is left behind, and a cancelled group, which can return nil with  *)
(* files dropped between channels, does not get as far as Done. With plain *)
(* rsync: both passes of the last attempt succeeded, though one code is    *)
(* made of the two and a killed pass has the code -1.                      *)
DoneMeansApplied ==
  signalled =>
    IF retry > 0 THEN rcA = 0 /\ rcB = 0
    ELSE \A e \in Entries \ skipped : Applied(e)

(* Sync returns, whichever goroutine fails, full channels and batches      *)
(* notwithstanding.                                                        *)
SyncReturns == <>(main = "returned")
=============================================================================
