----------------------------- MODULE RBDTransfer -----------------------------
(***************************************************************************)
(* The sync of an RBD volume: SourceWorker.Sync of internal/worker/rbd,    *)
(* the diff iterator of internal/ceph/rbd and the destination's device.    *)
(* librbd reports the changed extents to a callback that blocks on a       *)
(* bounded channel; rbdIterAdapter cuts them into blocks, and in a full    *)
(* diff fills the gaps with zero blocks; the pipeline, here the abstract   *)
(* transfer of BlockTransfer, has the destination write the blocks in any  *)
(* order; then Sync commits, signals Done and closes the iterator.         *)
(*                                                                         *)
(* The device is a few positions.  A position holds "old" (what was on the *)
(* destination before), "data" (read from the PVC that was made of the     *)
(* target snapshot) or "zero".                                             *)
(*                                                                         *)
(* The model starts when the diff and the adapter are set up.  A diff from *)
(* a base is one between two snapshots.  A full one has no target either:  *)
(* Sync is given neither handle, targetSnapID stays 0, and librbd reports  *)
(* what is allocated in the live image, which may have changed since.  The *)
(* properties are about the extents reported (diff), not about which those *)
(* should be.                                                              *)
(***************************************************************************)
EXTENDS BlockTransfer, Integers, Sequences, FiniteSets

CONSTANTS Size,        \* volSize
          ChunkSize,   \* Config.ChunkSize
          DiffCap,     \* capacity of blocksChan
          Diffs,       \* what librbd may report: sequences of extents
          Failures     \* "diff", "pipe", "commit", "done", "cancel"

Positions == 0 .. Size - 1

(* Every block has at least one position, so there are at most Size.       *)
(* librbd is asked for the range of the volume (Length: volSize).          *)
ASSUME RBDAssumption ==
  /\ {Size, ChunkSize, DiffCap} \subseteq Nat \ {0}
  /\ Blocks = 0 .. Size - 1
  /\ Failures \subseteq {"diff", "pipe", "commit", "done", "cancel"}
  /\ \A d \in Diffs :
       /\ d \in Seq([off : Positions, len : 1 .. Size])
       /\ \A i \in DOMAIN d : d[i].off + d[i].len <= Size

(* librbd walks the image from front to back.  The adapter counts on that: *)
(* it takes what lies behind its position as already sent.                 *)
ASSUME DiffOrderAssumption ==
  \A d \in Diffs : \A i, j \in DOMAIN d : i < j => d[i].off <= d[j].off

VARIABLES full,        \* isFullDiff: there is no base snapshot
          diff,        \* the extents librbd reports, in order
          diffState,   \* "running" | "ended" | "failed"
          reported,    \* how many extents the callback has sent
          blocksChan,
          ad,          \* the adapter: currentPos, remainder, pending, iterDone
          emitted,     \* the blocks handed to the pipeline, block id + 1
          device,      \* the destination's block device
          durable,     \* its content at the last fsync
          main,        \* where Sync stands
          signalled,   \* the destination has received Done
          cancelled    \* the worker's context is cancelled

diffVars == <<full, diff, diffState, reported, blocksChan>>
syncVars == <<durable, main, signalled, cancelled>>
vars == <<transferVars, diffVars, ad, emitted, device, syncVars>>

Extent(off, len, zero) == [off |-> off, len |-> len, zero |-> zero]
NoExtent == Extent(0, 0, FALSE)
Span(e) == e.off .. e.off + e.len - 1
reqID == Len(emitted)

Covered == UNION {Span(diff[i]) : i \in DOMAIN diff}

Init ==
  /\ TransferInit
  /\ full \in BOOLEAN
  /\ diff \in Diffs
  /\ diffState = "running" /\ reported = 0 /\ blocksChan = <<>>
  /\ ad = [pos |-> 0, rem |-> NoExtent, pend |-> NoExtent, done |-> FALSE]
  /\ emitted = <<>>
  /\ device = [p \in Positions |-> "old"]
  /\ durable = device
  /\ main = "run" /\ signalled = FALSE /\ cancelled = FALSE

-----------------------------------------------------------------------------
(* The goroutine around DiffIterateByID.                                   *)
DiffKeeps == UNCHANGED <<transferVars, full, diff, ad, emitted, device, syncVars>>

DiffReports ==
  /\ diffState = "running" /\ reported < Len(diff)
  /\ Len(blocksChan) < DiffCap
  /\ blocksChan' = Append(blocksChan, diff[reported + 1])
  /\ reported' = reported + 1
  /\ DiffKeeps /\ UNCHANGED diffState

DiffEnds ==
  /\ diffState = "running" /\ reported = Len(diff)
  /\ diffState' = "ended"
  /\ DiffKeeps /\ UNCHANGED <<reported, blocksChan>>

DiffFails ==
  /\ "diff" \in Failures
  /\ diffState = "running"
  /\ diffState' = "failed"
  /\ DiffKeeps /\ UNCHANGED <<reported, blocksChan>>

-----------------------------------------------------------------------------
(* rbdIterAdapter.Next, called by the feeder while Run is active.          *)
AdapterKeeps == UNCHANGED <<full, diff, diffState, reported, device, syncVars>>
Loads == outcome = "none" /\ ad.rem = NoExtent /\ ~ad.done

(* Mutant of Clamped: an extent is taken as reported. *)
ClampedNot(e, pos) == Extent(e.off, e.len, FALSE)

(* What is left of an extent behind the current position.                  *)
Clamped(e, pos) ==
  IF e.off < pos THEN Extent(pos, e.len - (pos - e.off), FALSE)
                 ELSE Extent(e.off, e.len, FALSE)

LoadPending ==
  /\ Loads /\ ad.pend # NoExtent
  /\ ad' = [ad EXCEPT !.rem = ad.pend, !.pend = NoExtent]
  /\ AdapterKeeps /\ UNCHANGED <<transferVars, emitted, blocksChan>>

(* The next extent: a gap before it goes first, as zeros, in a full diff;  *)
(* an extent that lies behind the current position is skipped.             *)
LoadExtent ==
  /\ Loads /\ ad.pend = NoExtent /\ blocksChan # <<>>
  /\ LET e == Head(blocksChan)
         rest == Clamped(e, ad.pos)
     IN ad' = CASE full /\ e.off > ad.pos ->
                     [ad EXCEPT !.rem = Extent(ad.pos, e.off - ad.pos, TRUE),
                                !.pend = Extent(e.off, e.len, FALSE)]
                [] rest.len <= 0 -> ad
                [] OTHER -> [ad EXCEPT !.rem = rest]
  /\ blocksChan' = Tail(blocksChan)
  /\ AdapterKeeps /\ UNCHANGED <<transferVars, emitted>>

(* Mutant of LoadEnd: the end of the volume is not filled. *)
LoadEndWithoutTail ==
  /\ Loads /\ ad.pend = NoExtent
  /\ blocksChan = <<>> /\ diffState # "running"
  /\ ad' = [ad EXCEPT !.done = TRUE]
  /\ AdapterKeeps /\ UNCHANGED <<transferVars, emitted, blocksChan>>

(* blocksChan is closed: a full diff ends with zeros up to the size.       *)
LoadEnd ==
  /\ Loads /\ ad.pend = NoExtent
  /\ blocksChan = <<>> /\ diffState # "running"
  /\ ad' = [ad EXCEPT !.done = TRUE,
                      !.rem = IF full /\ ad.pos < Size
                                THEN Extent(ad.pos, Size - ad.pos, TRUE) ELSE NoExtent]
  /\ AdapterKeeps /\ UNCHANGED <<transferVars, emitted, blocksChan>>

(* Mutant of EmitFromRemainder: an extent is not cut. *)
EmitWhole ==
  /\ ad.rem # NoExtent
  /\ emitted' = Append(emitted, ad.rem)
  /\ ad' = [ad EXCEPT !.pos = ad.rem.off + ad.rem.len, !.rem = NoExtent]
  /\ Taken(reqID)
  /\ AdapterKeeps /\ UNCHANGED blocksChan

EmitFromRemainder ==
  /\ ad.rem # NoExtent
  /\ LET n == IF ad.rem.len > ChunkSize THEN ChunkSize ELSE ad.rem.len
     IN /\ emitted' = Append(emitted, Extent(ad.rem.off, n, ad.rem.zero))
        /\ ad' = [ad EXCEPT !.pos = ad.rem.off + n,
                            !.rem = IF ad.rem.len = n THEN NoExtent
                                    ELSE Extent(ad.rem.off + n, ad.rem.len - n, ad.rem.zero)]
  /\ Taken(reqID)
  /\ AdapterKeeps /\ UNCHANGED blocksChan

-----------------------------------------------------------------------------
(* The pipeline as promised by BlockTransfer, and the destination.         *)
TransferKeeps == UNCHANGED <<diffVars, ad, emitted, syncVars>>

(* writeBlocks: zeroRange or WriteAt, in whatever order blocks arrive.     *)
DestinationWrites(id) ==
  /\ id \in fed \ stored
  /\ Written({id})
  /\ device' = [p \in Positions |->
                  IF p \in Span(emitted[id + 1])
                    THEN IF emitted[id + 1].zero THEN "zero" ELSE "data"
                    ELSE device[p]]
  /\ TransferKeeps

BlockAcked(id) == Acked(id) /\ TransferKeeps /\ UNCHANGED device
BlockAbandoned(id) == Abandoned(id) /\ TransferKeeps /\ UNCHANGED device

PipelineFault ==
  /\ "pipe" \in Failures \/ cancelled
  /\ outcome = "none" /\ ~faulted
  /\ Fault({})
  /\ TransferKeeps /\ UNCHANGED device

(* A Write handler syncs the device when its stream ends: at the end of    *)
(* the blocks, or because something has failed.                            *)
WriteEnds ==
  /\ faulted \/ (ad.done /\ ad.rem = NoExtent)
  /\ stored # {} /\ durable # device
  /\ durable' = device
  /\ UNCHANGED <<transferVars, diffVars, ad, emitted, device, main, signalled, cancelled>>

(* Run returns nil once every stream has ended without an error; Sync goes *)
(* on to the acknowledgements, or fails.                                   *)
RunReturns(o) ==
  /\ main = "run"
  /\ o = "ok" => ad.done /\ ad.rem = NoExtent /\ durable = device
  /\ Return(o)
  /\ main' = IF o = "err" THEN "close" ELSE IF reqID = 0 THEN "signal" ELSE "acks"
  /\ UNCHANGED <<diffVars, ad, emitted, device, durable, signalled, cancelled>>

-----------------------------------------------------------------------------
(* The rest of Sync.                                                       *)
SyncKeeps == UNCHANGED <<transferVars, full, diff, diffState, reported, ad, emitted, device>>

(* WindowSemaphore.IsReleased, as AckWindow states it.                     *)
IsReleased(id) == \A j \in 0 .. id : j \in free

AcksSeen ==
  /\ main = "acks" /\ IsReleased(reqID - 1)
  /\ main' = "commit"
  /\ SyncKeeps /\ UNCHANGED <<blocksChan, durable, signalled, cancelled>>

AcksCancelled ==
  /\ main = "acks" /\ cancelled
  /\ main' = "close"
  /\ SyncKeeps /\ UNCHANGED <<blocksChan, durable, signalled, cancelled>>

(* The destination syncs the device once more and answers.                 *)
CommitSent ==
  /\ main = "commit"
  /\ durable' = device
  /\ main' = "signal"
  /\ SyncKeeps /\ UNCHANGED <<blocksChan, signalled, cancelled>>

CommitFails ==
  /\ main = "commit"
  /\ "commit" \in Failures \/ cancelled
  /\ durable' \in {durable, device}
  /\ main' = "close"
  /\ SyncKeeps /\ UNCHANGED <<blocksChan, signalled, cancelled>>

(* closeAndSignalDone; the call may fail although Done was received.       *)
SignalDone ==
  /\ main = "signal"
  /\ signalled' \in {TRUE} \cup (IF "done" \in Failures \/ cancelled THEN {FALSE} ELSE {})
  /\ main' = "close"
  /\ SyncKeeps /\ UNCHANGED <<blocksChan, durable, cancelled>>

(* Mutant of CloseDrains: Close waits without draining. *)
CloseDrainsNot == FALSE /\ UNCHANGED vars

(* iter.Close drains blocksChan, so that the callback can go on, ...       *)
CloseDrains ==
  /\ main = "close" /\ blocksChan # <<>>
  /\ blocksChan' = Tail(blocksChan)
  /\ SyncKeeps /\ UNCHANGED syncVars

(* ... and waits for the diff to finish; its error is dropped.             *)
SyncReturns ==
  /\ main = "close" /\ blocksChan = <<>> /\ diffState # "running"
  /\ main' = "returned"
  /\ SyncKeeps /\ UNCHANGED <<blocksChan, durable, signalled, cancelled>>

Cancel ==
  /\ "cancel" \in Failures
  /\ ~cancelled /\ main # "returned"
  /\ cancelled' = TRUE
  /\ SyncKeeps /\ UNCHANGED <<blocksChan, durable, main, signalled>>

Finished == main = "returned" /\ UNCHANGED vars

-----------------------------------------------------------------------------
DiffStep == DiffReports \/ DiffEnds
AdapterStep == LoadPending \/ LoadExtent \/ LoadEnd \/ EmitFromRemainder
TransferStep(id) == DestinationWrites(id) \/ BlockAcked(id)
SyncStep ==
  \/ AcksSeen \/ AcksCancelled \/ CommitSent \/ SignalDone \/ CloseDrains \/ SyncReturns

Next ==
  \/ DiffStep \/ AdapterStep \/ SyncStep
  \/ \E id \in Blocks : TransferStep(id) \/ BlockAbandoned(id)
  \/ \E o \in {"ok", "err"} : RunReturns(o)
  \/ WriteEnds \/ DiffFails \/ PipelineFault \/ CommitFails \/ Cancel
  \/ Finished

Spec == Init /\ [][Next]_vars

(* librbd goes on reporting while there is room; the pipeline delivers     *)
(* what it was fed and notices a cancelled context.                        *)
FairSpec ==
  /\ Spec
  /\ WF_vars(DiffStep) /\ WF_vars(AdapterStep) /\ WF_vars(SyncStep)
  /\ \A id \in Blocks : WF_vars(TransferStep(id))
  /\ WF_vars(WriteEnds)
  /\ \A o \in {"ok", "err"} : WF_vars(RunReturns(o))
  /\ WF_vars(cancelled /\ PipelineFault)

-----------------------------------------------------------------------------
TypeOK ==
  /\ fed \subseteq Blocks /\ stored \subseteq fed /\ free \subseteq fed
  /\ diffState \in {"running", "ended", "failed"} /\ reported \in 0 .. Len(diff)
  /\ Len(blocksChan) <= DiffCap
  /\ ad.pos \in 0 .. Size /\ ad.done \in BOOLEAN
  /\ Len(emitted) <= Size
  /\ \A i \in DOMAIN emitted : emitted[i].len \in 1 .. ChunkSize
  /\ device \in [Positions -> {"old", "data", "zero"}]
  /\ durable \in [Positions -> {"old", "data", "zero"}]
  /\ main \in {"run", "acks", "commit", "signal", "close", "returned"}
  /\ {full, signalled, cancelled, faulted} \subseteq BOOLEAN

(* No two blocks share a position, whatever overlaps librbd reports:       *)
(* several senders may therefore write them in any order.                  *)
BlocksDisjoint ==
  \A i, j \in DOMAIN emitted :
    i # j => Span(emitted[i]) \cap Span(emitted[j]) = {}

(* What the destination must hold in the end.                              *)
Wanted == [p \in Positions |->
             IF p \in Covered THEN "data" ELSE IF full THEN "zero" ELSE "old"]

(* When the destination is told that the source is done, its device holds  *)
(* the data of every extent of the diff, and zeros elsewhere in a full     *)
(* one, and all of it was synced by a commit.                              *)
SignalMeansComplete == signalled => device = Wanted /\ durable = Wanted

(* The same as long as librbd reports the whole diff.                      *)
CompleteUnlessDiffFailed == diffState = "failed" \/ SignalMeansComplete

(* Sync returns and takes the diff goroutine with it: the callback is      *)
(* never left blocked on blocksChan.                                       *)
SyncTerminates == <>(main = "returned")
=============================================================================
