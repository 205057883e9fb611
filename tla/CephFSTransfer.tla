--------------------------- MODULE CephFSTransfer ---------------------------
(***************************************************************************)
(* runSnapdiffBlockPipeline: the CephFS block iterator that feeds the      *)
(* pipeline and announces file boundaries, the commit drainer that commits *)
(* a file once the window says that its blocks are acknowledged, and the   *)
(* errgroup that joins them.  The pipeline between them is the abstract    *)
(* transfer of BlockTransfer, which module Pipeline implements.            *)
(*                                                                         *)
(* One step is one channel operation, one look at the window, one commit   *)
(* round trip or one cancellation.                                         *)
(***************************************************************************)
EXTENDS BlockTransfer, Integers, Sequences, FiniteSets, Functions

CONSTANTS Layout,        \* the changed files: how many blocks each one yields
          MaxWindow,     \* Config.MaxWindow: distance check
          BoundaryCap,   \* capacity of boundaryCh
          CommitBatch,   \* commitBatchSize
          Failures       \* "pipe", "commit" and "cancel": what may fail

Files == DOMAIN Layout

(* Request ids are consecutive over the files.                             *)
FirstID[f \in 1 .. Len(Layout) + 1] ==
  IF f = 1 THEN 0 ELSE FirstID[f - 1] + Layout[f - 1]
BlocksOf(f) == FirstID[f] .. FirstID[f + 1] - 1

ASSUME CephFSAssumption ==
  /\ Layout \in Seq(Nat)
  /\ {BoundaryCap, CommitBatch, MaxWindow} \subseteq Nat \ {0}
  /\ Failures \subseteq {"pipe", "commit", "cancel"}
  /\ Blocks = 0 .. FirstID[Len(Layout) + 1] - 1

VARIABLES file,         \* the file the iterator is at, 0 before the first one
          iter,         \* "blocks" | "drain" | "end": where Next stands
          backlog,      \* pendingBoundaries
          boundaryCh,
          boundaryEnd,  \* boundaryCh is closed
          releaseCh,    \* the window's signal channel is full
          dr,           \* the drainer
          commits,      \* how often the destination has committed each file
          notified,     \* how often each file was sent to committedCh
          main,         \* the goroutine around Run: "run" | "close" | "end" | "returned"
          gerr,         \* the errgroup was cancelled by an error
          cancelled     \* the caller's context is cancelled

iterVars == <<file, iter, backlog>>
joinVars == <<main, gerr, cancelled>>
vars == <<transferVars, iterVars, boundaryCh, boundaryEnd, releaseCh, dr, commits,
          notified, joinVars>>

gctxDone == gerr \/ cancelled
reqID == Cardinality(fed)
Boundary(f) == [file |-> f, last |-> FirstID[f + 1] - 1]

(* WindowSemaphore.IsReleased, as AckWindow states it.                     *)
IsReleased(id) == \A j \in 0 .. id : j \in free

Init ==
  /\ TransferInit
  /\ file = 0 /\ iter = "drain" /\ backlog = <<>>
  /\ boundaryCh = <<>> /\ boundaryEnd = FALSE /\ releaseCh = FALSE
  /\ dr = [pc |-> "run", pending |-> <<>>, current |-> 0, batch |-> <<>>, flushing |-> FALSE]
  /\ commits = [f \in Files |-> 0]
  /\ notified = [f \in Files |-> 0]
  /\ main = "run" /\ gerr = FALSE /\ cancelled = FALSE

-----------------------------------------------------------------------------
(* CephFSBlockIterator.Next, called by the feeder while Run is active.     *)
IterKeeps == UNCHANGED <<boundaryEnd, releaseCh, dr, commits, notified, joinVars>>

NextBlock ==
  /\ iter = "blocks" /\ file \in Files /\ reqID \in BlocksOf(file)
  /\ Taken(reqID)
  /\ IterKeeps /\ UNCHANGED <<iterVars, boundaryCh>>

(* The file is exhausted: its boundary goes to the channel if there is     *)
(* room, else to the backlog.  A file without blocks has no boundary.      *)
EmitBoundary ==
  /\ outcome = "none"
  /\ iter = "blocks" /\ file \in Files /\ reqID = FirstID[file + 1]
  /\ CASE BlocksOf(file) = {} ->
            UNCHANGED <<boundaryCh, backlog>>
       [] BlocksOf(file) # {} /\ Len(boundaryCh) < BoundaryCap ->
            boundaryCh' = Append(boundaryCh, Boundary(file)) /\ UNCHANGED backlog
       [] OTHER ->
            backlog' = Append(backlog, Boundary(file)) /\ UNCHANGED boundaryCh
  /\ iter' = "drain"
  /\ IterKeeps /\ UNCHANGED <<transferVars, file>>

(* Mutant of DrainBacklog: does not look whether there is room. *)
DrainBacklogUnbounded ==
  /\ outcome = "none" /\ iter = "drain" /\ backlog # <<>>
  /\ boundaryCh' = Append(boundaryCh, Head(backlog))
  /\ backlog' = Tail(backlog)
  /\ IterKeeps /\ UNCHANGED <<transferVars, file, iter>>

(* Mutant of DrainBacklog: the boundary it sends stays in the backlog. *)
DrainBacklogKeeps ==
  /\ outcome = "none" /\ iter = "drain"
  /\ backlog # <<>> /\ Len(boundaryCh) < BoundaryCap
  /\ boundaryCh' = Append(boundaryCh, Head(backlog))
  /\ IterKeeps /\ UNCHANGED <<transferVars, file, iter, backlog>>

(* drainPendingBoundaries: while there is room.                            *)
DrainBacklog ==
  /\ outcome = "none" /\ iter = "drain"
  /\ backlog # <<>> /\ Len(boundaryCh) < BoundaryCap
  /\ boundaryCh' = Append(boundaryCh, Head(backlog))
  /\ backlog' = Tail(backlog)
  /\ IterKeeps /\ UNCHANGED <<transferVars, file, iter>>

(* nextFile: the next file, or none when there are no more or the caller's *)
(* context is cancelled.                                                   *)
AdvanceFile ==
  /\ outcome = "none" /\ iter = "drain"
  /\ backlog = <<>> \/ Len(boundaryCh) = BoundaryCap
  /\ file' = file + 1
  /\ \/ file + 1 \in Files /\ iter' = "blocks"
     \/ file + 1 \notin Files /\ iter' = "end"
     \/ cancelled /\ iter' = "end"
  /\ IterKeeps /\ UNCHANGED <<transferVars, backlog, boundaryCh>>

-----------------------------------------------------------------------------
(* The pipeline, as promised by BlockTransfer.                             *)
TransferKeeps == UNCHANGED <<iterVars, boundaryCh, boundaryEnd, dr, commits, notified>>

DestinationWrites(id) ==
  /\ id \notin stored
  /\ Written({id})
  /\ TransferKeeps /\ UNCHANGED <<releaseCh, joinVars>>

(* Every effective Release leaves a signal for the drainer.                *)
BlockAcked(id) ==
  /\ Acked(id)
  /\ releaseCh' = TRUE
  /\ TransferKeeps /\ UNCHANGED joinVars

BlockAbandoned(id) ==
  /\ Abandoned(id)
  /\ releaseCh' = TRUE
  /\ TransferKeeps /\ UNCHANGED joinVars

PipelineFault ==
  /\ "pipe" \in Failures \/ gctxDone
  /\ outcome = "none" /\ ~faulted
  /\ Fault({})
  /\ TransferKeeps /\ UNCHANGED <<releaseCh, joinVars>>

(* p.Run returns; after an error the iterator is marked failed, so that    *)
(* Close announces no boundary for the file it stopped in.                 *)
RunReturns(o) ==
  /\ main = "run"
  /\ o = "ok" => iter = "end"
  /\ Return(o)
  /\ main' = "close"
  /\ TransferKeeps /\ UNCHANGED <<releaseCh, gerr, cancelled>>

-----------------------------------------------------------------------------
(* iter.Close: flushAllBoundaries blocks until the drainer takes each one, *)
(* or until the iterator's own context, the caller's, is cancelled.        *)
CloseKeeps == UNCHANGED <<transferVars, file, iter, releaseCh, dr, commits, notified, cancelled>>

FlushBoundary ==
  /\ main = "close" /\ backlog # <<>>
  /\ \/ /\ Len(boundaryCh) < BoundaryCap
        /\ boundaryCh' = Append(boundaryCh, Head(backlog))
        /\ backlog' = Tail(backlog)
     \/ /\ cancelled
        /\ backlog' = <<>>
        /\ UNCHANGED boundaryCh
  /\ CloseKeeps /\ UNCHANGED <<boundaryEnd, main, gerr>>

(* Mutant of CloseBoundaryCh: the channel is left open. *)
CloseBoundaryChNot ==
  /\ main = "close" /\ backlog = <<>>
  /\ main' = "end"
  /\ CloseKeeps /\ UNCHANGED <<backlog, boundaryCh, boundaryEnd, gerr>>

CloseBoundaryCh ==
  /\ main = "close" /\ backlog = <<>>
  /\ boundaryEnd' = TRUE
  /\ main' = "end"
  /\ CloseKeeps /\ UNCHANGED <<backlog, boundaryCh, gerr>>

(* The goroutine returns pErr; only now is the drainer's context cancelled. *)
MainReturns ==
  /\ main = "end"
  /\ main' = "returned"
  /\ gerr' = (gerr \/ outcome = "err")
  /\ CloseKeeps /\ UNCHANGED <<backlog, boundaryCh, boundaryEnd>>

-----------------------------------------------------------------------------
(* commitDrainer.Run                                                       *)
DrainerAt(pc) == dr.pc = pc
DrainerKeeps == UNCHANGED <<transferVars, iterVars, boundaryEnd, joinVars>>

BoundaryReceived ==
  /\ DrainerAt("run") /\ boundaryCh # <<>>
  /\ dr' = [dr EXCEPT !.pc = "drain", !.current = Head(boundaryCh).last,
                      !.pending = Append(@, Head(boundaryCh))]
  /\ boundaryCh' = Tail(boundaryCh)
  /\ DrainerKeeps /\ UNCHANGED <<releaseCh, commits, notified>>

(* boundaryCh is closed and empty: flushAll.                               *)
BoundariesEnd ==
  /\ DrainerAt("run") /\ boundaryCh = <<>> /\ boundaryEnd
  /\ dr' = [dr EXCEPT !.pc = "drain", !.flushing = TRUE]
  /\ DrainerKeeps /\ UNCHANGED <<boundaryCh, releaseCh, commits, notified>>

(* drainQualified takes the head only when it is far enough behind and     *)
(* acknowledged; flushAll takes it as soon as it is acknowledged.          *)
FarEnough(fb) == dr.flushing \/ dr.current >= fb.last + MaxWindow + 2
(* Mutant of Qualifies: the distance alone decides. *)
QualifiesUnacked(fb) == FarEnough(fb)

Qualifies(fb) == FarEnough(fb) /\ IsReleased(fb.last)
HeadQualifies == dr.pending # <<>> /\ Qualifies(Head(dr.pending))

TakeHead ==
  /\ DrainerAt("drain")
  /\ HeadQualifies
  /\ dr' = [dr EXCEPT !.pending = Tail(@),
                      !.batch = Append(@, Head(dr.pending).file),
                      !.pc = IF Len(dr.batch) + 1 >= CommitBatch THEN "send" ELSE "drain"]
  /\ DrainerKeeps /\ UNCHANGED <<boundaryCh, releaseCh, commits, notified>>

(* The loop ends (or, in flushAll, waits on the head): what was collected  *)
(* is sent, and with nothing collected the drainer goes on or returns.     *)
StopTaking ==
  /\ DrainerAt("drain")
  /\ ~HeadQualifies
  /\ dr' = [dr EXCEPT !.pc =
       CASE dr.flushing /\ dr.pending # <<>> -> "wait"
         [] ~(dr.flushing /\ dr.pending # <<>>) /\ dr.batch # <<>> -> "send"
         [] dr.flushing /\ dr.pending = <<>> /\ dr.batch = <<>> -> "done"
         [] OTHER -> "run"]
  /\ DrainerKeeps /\ UNCHANGED <<boundaryCh, releaseCh, commits, notified>>

(* flushAll waits for a release signal and looks again.                    *)
ReleaseSignal ==
  /\ DrainerAt("wait") /\ releaseCh
  /\ releaseCh' = FALSE
  /\ dr' = [dr EXCEPT !.pc = "drain"]
  /\ DrainerKeeps /\ UNCHANGED <<boundaryCh, commits, notified>>

(* sendCommitBatch: the destination commits the entries and answers.       *)
CommitSent ==
  /\ DrainerAt("send")
  /\ commits' = [f \in Files |-> commits[f] + (IF f \in Range(dr.batch) THEN 1 ELSE 0)]
  /\ dr' = [dr EXCEPT !.pc = "notify"]
  /\ DrainerKeeps /\ UNCHANGED <<boundaryCh, releaseCh, notified>>

(* The stream fails, after any prefix of the batch has been committed.     *)
CommitFails ==
  /\ DrainerAt("send")
  /\ "commit" \in Failures \/ cancelled
  /\ \E k \in 0 .. Len(dr.batch) :
       commits' = [f \in Files |->
                     commits[f] + (IF f \in Range(SubSeq(dr.batch, 1, k)) THEN 1 ELSE 0)]
  /\ dr' = [dr EXCEPT !.pc = "fail"]
  /\ DrainerKeeps /\ UNCHANGED <<boundaryCh, releaseCh, notified>>

(* notifyCommitted: one path at a time into committedCh.                   *)
Notify ==
  /\ DrainerAt("notify")
  /\ notified' = [notified EXCEPT ![Head(dr.batch)] = @ + 1]
  /\ dr' = [dr EXCEPT !.batch = Tail(@),
                      !.pc = IF Len(dr.batch) > 1 THEN "notify" ELSE "drain"]
  /\ DrainerKeeps /\ UNCHANGED <<boundaryCh, releaseCh, commits>>

(* The context is cancelled in one of the drainer's selects.               *)
DrainerCancelled ==
  /\ gctxDone
  /\ dr.pc \in {"run", "wait", "notify"}
  /\ dr' = [dr EXCEPT !.pc = "fail"]
  /\ DrainerKeeps /\ UNCHANGED <<boundaryCh, releaseCh, commits, notified>>

DrainerFails ==
  /\ DrainerAt("fail")
  /\ dr' = [dr EXCEPT !.pc = "failed"]
  /\ gerr' = TRUE
  /\ UNCHANGED <<transferVars, iterVars, boundaryEnd, boundaryCh, releaseCh, commits,
                 notified, main, cancelled>>

-----------------------------------------------------------------------------
CancelCaller ==
  /\ "cancel" \in Failures
  /\ ~cancelled /\ main # "returned"
  /\ cancelled' = TRUE
  /\ UNCHANGED <<transferVars, iterVars, boundaryEnd, boundaryCh, releaseCh, dr, commits,
                 notified, main, gerr>>

(* g.Wait has both results.                                                *)
Joined == main = "returned" /\ dr.pc \in {"done", "failed"}
Finished == Joined /\ UNCHANGED vars

FeederStep == NextBlock \/ EmitBoundary \/ DrainBacklog \/ AdvanceFile
CloseStep == FlushBoundary \/ CloseBoundaryCh \/ MainReturns
DrainerStep ==
  \/ BoundaryReceived \/ BoundariesEnd \/ TakeHead \/ StopTaking \/ ReleaseSignal
  \/ CommitSent \/ Notify \/ DrainerCancelled \/ DrainerFails
TransferStep(id) == DestinationWrites(id) \/ BlockAcked(id)

Next ==
  \/ FeederStep \/ CloseStep \/ DrainerStep
  \/ \E id \in Blocks : TransferStep(id) \/ BlockAbandoned(id)
  \/ \E o \in {"ok", "err"} : RunReturns(o)
  \/ PipelineFault \/ CommitFails \/ CancelCaller
  \/ Finished

Spec == Init /\ [][Next]_vars

(* The goroutines run; the pipeline delivers and acknowledges what it was  *)
(* fed, and notices a cancelled context.                                   *)
FairSpec ==
  /\ Spec
  /\ WF_vars(FeederStep) /\ WF_vars(CloseStep) /\ WF_vars(DrainerStep)
  /\ \A id \in Blocks : WF_vars(TransferStep(id))
  /\ \A o \in {"ok", "err"} : WF_vars(RunReturns(o))
  /\ WF_vars(gctxDone /\ PipelineFault)

-----------------------------------------------------------------------------
TypeOK ==
  /\ fed \subseteq Blocks /\ stored \subseteq Blocks /\ free \subseteq Blocks
  /\ faulted \in BOOLEAN /\ outcome \in {"none", "ok", "err"}
  /\ file \in 0 .. Len(Layout) + 1 /\ iter \in {"blocks", "drain", "end"}
  /\ Range(backlog) \cup Range(boundaryCh) \cup Range(dr.pending)
       \subseteq {Boundary(f) : f \in Files}
  /\ Len(boundaryCh) <= BoundaryCap
  /\ dr.pc \in {"run", "drain", "wait", "send", "notify", "fail", "done", "failed"}
  /\ Range(dr.batch) \subseteq Files /\ dr.flushing \in BOOLEAN
  /\ commits \in [Files -> Nat] /\ notified \in [Files -> Nat]
  /\ main \in {"run", "close", "end", "returned"}
  /\ {boundaryEnd, releaseCh, gerr, cancelled} \subseteq BOOLEAN

(* "sends batched CommitRequests when files are safe to commit (all blocks *)
(* acked by destination)": a committed file has all its blocks on the      *)
(* destination.                                                            *)
CommittedIsStored ==
  \A f \in Files : commits[f] > 0 => BlocksOf(f) \subseteq stored

(* The same as long as the pipeline has not failed: then a release is an   *)
(* acknowledgement, whatever order the boundaries arrive in.               *)
CommittedIsStoredUnlessFaulted == faulted \/ CommittedIsStored

(* No file is committed or announced twice, also when boundaries overtake  *)
(* each other through the backlog: the destination releases a reference    *)
(* per commit.  When both goroutines return nil every file that had blocks *)
(* is on the destination, committed and announced for the metadata pass.   *)
(* With a cancelled caller nil does not say so: Close then drops its       *)
(* backlog.                                                                *)
CommitsExact ==
  /\ \A f \in Files : commits[f] <= 1 /\ notified[f] <= commits[f]
  /\ Joined /\ ~gerr /\ ~cancelled =>
       \A f \in Files : BlocksOf(f) # {} =>
         BlocksOf(f) \subseteq stored /\ commits[f] = 1 /\ notified[f] = 1

(* g.Wait returns.                                                         *)
JoinTerminates == <>Joined

(* Close waits for room in boundaryCh and the drainer, which would make    *)
(* it, has gone.                                                           *)
Orphaned == main = "close" /\ backlog # <<>> /\ DrainerAt("failed") /\ ~cancelled

(* Whatever fails, g.Wait returns, unless Close comes to wait for ever for *)
(* a drainer that has gone: nothing else can block the join.               *)
JoinReturnsOrOrphaned == JoinTerminates \/ <>[]Orphaned
=============================================================================
