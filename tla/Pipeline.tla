------------------------------ MODULE Pipeline ------------------------------
(***************************************************************************)
(* pipeline.Run: feeder -> read workers -> send workers, their two shared  *)
(* semaphores, one bidirectional gRPC stream per send worker and the       *)
(* destination's Write handler at the other end, with the errgroups that   *)
(* cancel each other.                                                      *)
(*                                                                         *)
(* One step is one operation on shared state: a channel send or receive, a *)
(* critical section of a semaphore, a Send or Recv on a stream, or the     *)
(* moment an errgroup records an error and cancels its context.  The two   *)
(* locks that held.release takes in turn are taken in one step.            *)
(*                                                                         *)
(* errs holds the errgroups that were cancelled: "pipe" (Run), "read"      *)
(* (StageRead), "send" (StageSendData) and, for each send worker, the      *)
(* worker itself (dataSendWorker).                                         *)
(***************************************************************************)
EXTENDS WindowSemaphore, MemSemaphore, Functions, FiniteSetsExt

CONSTANTS Senders,         \* the DataSendWorkers workers
          Pools,           \* which read and send workers a Run may start
          Kind,            \* id -> "zero" | "hole" | "data"
          Size,            \* id -> min(Length, ChunkSize)
          ChanBuf,         \* ReadChanBuf, the capacity of both channels
          BatchMaxCount,   \* DataBatchMaxCount
          BatchMaxBytes,   \* DataBatchMaxBytes
          Faults           \* the failures that may happen

(* A block marked zero by the iterator, one that is read and found to be   *)
(* all zero, and one with data.  The readers are the callers of memRaw.    *)
Readers == MemCallers
Kinds == {"zero", "hole", "data"}

ASSUME PipelineAssumption ==
  /\ Kind \in [ReqIDs -> Kinds]
  /\ Size \in [ReqIDs -> 1 .. Capacity]
  /\ {ChanBuf, BatchMaxCount, BatchMaxBytes} \subseteq Nat \ {0}
  /\ Faults \subseteq {"read", "stream", "factory", "cancel"}
  /\ Pools \subseteq ((SUBSET Readers) \ {{}}) \X ((SUBSET Senders) \ {{}})

VARIABLES nextID,      \* the id of the iterator's next block
          feeding,     \* the feeder runs; FALSE once it has closed chunkCh
          chunkCh,     \* ids
          rd,          \* the read workers
          readCh,      \* chunks with the resources they hold
          readClosed,
          snd,         \* the senders
          ack,         \* the ack receivers
          stream,      \* "none", "open", "eof" or "broken"
          wire,        \* batches sent and not yet handled
          acks,        \* acknowledgements not yet received
          written,     \* ids whose blocks the destination has written
          errs,        \* cancelled errgroups
          cancelled,   \* the caller cancelled Run's context
          faulty,      \* a failure has happened
          result       \* what Run returned

feedVars == <<nextID, feeding, chunkCh>>
readVars == <<rd, readCh, readClosed>>
netVars == <<stream, wire, acks, written>>
ctlVars == <<errs, cancelled, faulty, result>>
vars == <<winVars, memVars, feedVars, readVars, snd, ack, netVars, ctlVars>>

PipeDone == cancelled \/ "pipe" \in errs
ReadDone == PipeDone \/ "read" \in errs
SendDone == PipeDone \/ "send" \in errs
WorkerDone(s) == SendDone \/ s \in errs

(* A chunk's held record: its id and the bytes of memRaw it owns.          *)
Held(id, n) == [id |-> id, n |-> n]
Nothing == Held(-1, 0)
HeldIDs(chunks) == [i \in DOMAIN chunks |-> chunks[i].id]
Bytes(chunks) == MapThenSumSet(LAMBDA i : chunks[i].n, DOMAIN chunks)

(* A worker that is not started counts as one that has ended.              *)
Init ==
  /\ WinInit /\ MemInit
  /\ \E pool \in Pools :
       /\ rd = [r \in Readers |-> [pc |-> IF r \in pool[1] THEN "idle" ELSE "done",
                                   id |-> -1, mem |-> 0, win |-> FALSE]]
       /\ snd = [s \in Senders |-> [pc |-> IF s \in pool[2] THEN "open" ELSE "closed",
                                    batch |-> <<>>, cc |-> Nothing]]
       /\ ack = [s \in Senders |-> [pc |-> IF s \in pool[2] THEN "none" ELSE "done",
                                    ids |-> <<>>]]
  /\ nextID = 0 /\ feeding = TRUE /\ chunkCh = <<>>
  /\ readCh = <<>> /\ readClosed = FALSE
  /\ stream = [s \in Senders |-> "none"]
  /\ wire = [s \in Senders |-> <<>>]
  /\ acks = [s \in Senders |-> <<>>]
  /\ written = {}
  /\ errs = {} /\ cancelled = FALSE /\ faulty = FALSE /\ result = "none"

-----------------------------------------------------------------------------
(* feeder: the iterator hands out consecutive ids.                         *)
Feed ==
  /\ feeding /\ nextID \in ReqIDs
  /\ Len(chunkCh) < ChanBuf
  /\ chunkCh' = Append(chunkCh, nextID)
  /\ nextID' = nextID + 1
  /\ UNCHANGED <<feeding, winVars, memVars, readVars, snd, ack, netVars, ctlVars>>

(* feeder returns, nil at the end of the iterator or the context's error,  *)
(* and closes chunkCh.                                                     *)
FeederReturns ==
  /\ feeding
  /\ \/ nextID \notin ReqIDs /\ UNCHANGED errs
     \/ nextID \in ReqIDs /\ PipeDone /\ errs' = errs \cup {"pipe"}
  /\ feeding' = FALSE
  /\ UNCHANGED <<nextID, chunkCh, cancelled, faulty, result,
                 winVars, memVars, readVars, snd, ack, netVars>>

-----------------------------------------------------------------------------
(* readWorker                                                              *)
At(r, pc) == rd[r].pc = pc
GoesTo(r, pc) == rd' = [rd EXCEPT ![r].pc = pc]
ReaderKeeps == UNCHANGED <<readCh, readClosed, snd, ack, netVars, cancelled, faulty, result>>

ReadTake(r) ==
  /\ At(r, "idle") /\ chunkCh # <<>>
  /\ chunkCh' = Tail(chunkCh)
  /\ rd' = [rd EXCEPT ![r] =
              [pc |-> IF Kind[Head(chunkCh)] = "zero" THEN "win" ELSE "mem",
               id |-> Head(chunkCh), mem |-> 0, win |-> FALSE]]
  /\ ReaderKeeps /\ UNCHANGED <<nextID, feeding, errs, winVars, memVars>>

ReadDrained(r) ==
  /\ At(r, "idle") /\ chunkCh = <<>> /\ ~feeding
  /\ GoesTo(r, "done")
  /\ ReaderKeeps /\ UNCHANGED <<errs, feedVars, winVars, memVars>>

(* memRaw.Acquire: at once, parked, granted.                               *)
ReadMem(r) ==
  LET n == Size[rd[r].id] IN
  /\ \/ At(r, "mem") /\ MemAcquire(n) /\ rd' = [rd EXCEPT ![r].pc = "win", ![r].mem = n]
     \/ At(r, "mem") /\ MemPark(r, n) /\ GoesTo(r, "memwait")
     \/ At(r, "memwait") /\ MemWake(r) /\ rd' = [rd EXCEPT ![r].pc = "win", ![r].mem = n]
  /\ ReaderKeeps /\ UNCHANGED <<errs, feedVars, winVars>>

(* win.Acquire, after which a zero block is emitted without being read.    *)
ReadWin(r) ==
  LET id == rd[r].id
      Owns == rd' = [rd EXCEPT ![r].pc = IF Kind[id] = "zero" THEN "emit" ELSE "read",
                               ![r].win = TRUE]
  IN /\ \/ At(r, "win") /\ WinAcquire(id) /\ Owns
        \/ At(r, "win") /\ WinPark(id) /\ GoesTo(r, "winwait")
        \/ At(r, "winwait") /\ WinWake(id) /\ Owns
     /\ ReaderKeeps /\ UNCHANGED <<errs, feedVars, memVars>>

(* Mutant of ReadAt: the released memory stays in the held record. *)
ReadAtKeepsBytes(r) ==
  /\ At(r, "read")
  /\ IF Kind[rd[r].id] = "hole" THEN MemRelease(rd[r].mem) ELSE UNCHANGED memVars
  /\ GoesTo(r, "emit")
  /\ ReaderKeeps /\ UNCHANGED <<errs, feedVars, winVars>>

(* reader.ReadAt succeeds; a block of zeros gives its memory back at once. *)
ReadAt(r) ==
  /\ At(r, "read")
  /\ IF Kind[rd[r].id] = "hole"
       THEN MemRelease(rd[r].mem) /\ rd' = [rd EXCEPT ![r].pc = "emit", ![r].mem = 0]
       ELSE UNCHANGED memVars /\ GoesTo(r, "emit")
  /\ ReaderKeeps /\ UNCHANGED <<errs, feedVars, winVars>>

ReadFails(r) ==
  /\ "read" \in Faults
  /\ At(r, "read")
  /\ GoesTo(r, "drop")
  /\ faulty' = TRUE
  /\ UNCHANGED <<readCh, readClosed, snd, ack, netVars, errs, cancelled, result,
                 feedVars, winVars, memVars>>

Emit(r) ==
  /\ At(r, "emit")
  /\ Len(readCh) < ChanBuf
  /\ readCh' = Append(readCh, Held(rd[r].id, rd[r].mem))
  /\ rd' = [rd EXCEPT ![r] = [pc |-> "idle", id |-> -1, mem |-> 0, win |-> FALSE]]
  /\ UNCHANGED <<readClosed, snd, ack, netVars, ctlVars, feedVars, winVars, memVars>>

(* The context is cancelled in one of the four selects of the worker.      *)
ReadCancelled(r) ==
  /\ ReadDone
  /\ \/ rd[r].pc \in {"idle", "emit"} /\ UNCHANGED <<winVars, memVars>>
     \/ At(r, "memwait") /\ MemCancel(r) /\ UNCHANGED winVars
     \/ At(r, "winwait") /\ WinCancel(rd[r].id) /\ UNCHANGED memVars
  /\ GoesTo(r, "drop")
  /\ ReaderKeeps /\ UNCHANGED <<errs, feedVars>>

(* The error path gives back what the worker holds ...                     *)
ReadDrop(r) ==
  /\ At(r, "drop")
  /\ IF rd[r].mem > 0 THEN MemRelease(rd[r].mem) ELSE UNCHANGED memVars
  /\ IF rd[r].win THEN WinRelease(rd[r].id) ELSE UNCHANGED winVars
  /\ rd' = [rd EXCEPT ![r] = [pc |-> "failed", id |-> -1, mem |-> 0, win |-> FALSE]]
  /\ ReaderKeeps /\ UNCHANGED <<errs, feedVars>>

(* ... and returns the error, which cancels the other readers.             *)
ReadReturns(r) ==
  /\ At(r, "failed")
  /\ GoesTo(r, "done")
  /\ errs' = errs \cup {"read"}
  /\ ReaderKeeps /\ UNCHANGED <<feedVars, winVars, memVars>>

(* Mutant of CloseReadCh: not closed when a reader failed. *)
CloseReadChOnSuccess ==
  /\ ~readClosed /\ "read" \notin errs
  /\ \A r \in Readers : At(r, "done")
  /\ readClosed' = TRUE
  /\ UNCHANGED <<rd, readCh, snd, ack, netVars, ctlVars, feedVars, winVars, memVars>>

(* StageRead returns when its workers have; readCh is closed before the    *)
(* error reaches Run's errgroup.                                           *)
CloseReadCh ==
  /\ ~readClosed
  /\ \A r \in Readers : At(r, "done")
  /\ readClosed' = TRUE
  /\ UNCHANGED <<rd, readCh, snd, ack, netVars, ctlVars, feedVars, winVars, memVars>>

ReadStageFails ==
  /\ readClosed /\ "read" \in errs /\ "pipe" \notin errs
  /\ errs' = errs \cup {"pipe"}
  /\ UNCHANGED <<readVars, snd, ack, netVars, cancelled, faulty, result,
                 feedVars, winVars, memVars>>

-----------------------------------------------------------------------------
(* dataSendWorker and dataSender                                           *)
SenderAt(s, pc) == snd[s].pc = pc
SenderKeeps == UNCHANGED <<feedVars, rd, readClosed, ack, cancelled, faulty, result>>

OpenStream(s) ==
  /\ SenderAt(s, "open")
  /\ snd' = [snd EXCEPT ![s].pc = "recv"]
  /\ ack' = [ack EXCEPT ![s].pc = "recv"]
  /\ stream' = [stream EXCEPT ![s] = "open"]
  /\ UNCHANGED <<wire, acks, written, ctlVars, feedVars, readVars, winVars, memVars>>

OpenFails(s) ==
  /\ "factory" \in Faults \/ SendDone
  /\ SenderAt(s, "open")
  /\ snd' = [snd EXCEPT ![s].pc = "closed"]
  /\ ack' = [ack EXCEPT ![s].pc = "done"]
  /\ errs' = errs \cup {"send"}
  /\ faulty' = TRUE
  /\ UNCHANGED <<netVars, cancelled, result, feedVars, readVars, winVars, memVars>>

(* The batch must be flushed before a chunk of n bytes is added to it.     *)
MustFlush(batch, n) ==
  /\ batch # <<>>
  /\ Bytes(batch) + n >= BatchMaxBytes \/ Len(batch) >= BatchMaxCount

SendTake(s) ==
  /\ SenderAt(s, "recv") /\ readCh # <<>>
  /\ readCh' = Tail(readCh)
  /\ snd' = [snd EXCEPT ![s] =
       IF MustFlush(@.batch, Head(readCh).n)
         THEN [@ EXCEPT !.pc = "flush", !.cc = Head(readCh)]
         ELSE [@ EXCEPT !.batch = Append(snd[s].batch, Head(readCh))]]
  /\ SenderKeeps /\ UNCHANGED <<errs, netVars, winVars, memVars>>

(* readCh is closed: the last batch is flushed, an empty one is not.       *)
SendDrained(s) ==
  /\ SenderAt(s, "recv") /\ readCh = <<>> /\ readClosed
  /\ snd' = [snd EXCEPT ![s].pc = IF snd[s].batch = <<>> THEN "closed" ELSE "flush"]
  /\ SenderKeeps /\ UNCHANGED <<readCh, errs, netVars, winVars, memVars>>

SendCancelled(s) ==
  /\ SenderAt(s, "recv") /\ WorkerDone(s)
  /\ snd' = [snd EXCEPT ![s].pc = "drop"]
  /\ SenderKeeps /\ UNCHANGED <<readCh, errs, netVars, winVars, memVars>>

Flush(s) ==
  /\ SenderAt(s, "flush")
  /\ \/ /\ stream[s] = "open"
        /\ wire' = [wire EXCEPT ![s] = Append(@, HeldIDs(snd[s].batch))]
        /\ snd' = [snd EXCEPT ![s].pc = "sent"]
     \/ /\ stream[s] = "broken"
        /\ snd' = [snd EXCEPT ![s].pc = "drop"]
        /\ UNCHANGED wire
  /\ SenderKeeps /\ UNCHANGED <<readCh, errs, stream, acks, written, winVars, memVars>>

(* Mutant of ReleaseMemOnly: the chunk in hand is appended at the end, too. *)
ReleaseMemOnlyAppends(s) ==
  /\ SenderAt(s, "sent")
  /\ LET batch == snd[s].batch IN
     /\ IF Head(batch).n > 0 THEN MemRelease(Head(batch).n) ELSE UNCHANGED memVars
     /\ snd' = [snd EXCEPT ![s] =
          IF Len(batch) > 1 THEN [@ EXCEPT !.batch = Tail(batch)]
                            ELSE [pc |-> "recv", batch |-> <<@.cc>>, cc |-> Nothing]]
  /\ SenderKeeps /\ UNCHANGED <<readCh, errs, netVars, winVars>>

(* Mutant of ReleaseMemOnly: release where the code calls releaseMemOnly. *)
ReleaseBoth(s) ==
  /\ SenderAt(s, "sent")
  /\ LET batch == snd[s].batch IN
     /\ IF Head(batch).n > 0 THEN MemRelease(Head(batch).n) ELSE UNCHANGED memVars
     /\ WinRelease(Head(batch).id)
     /\ snd' = [snd EXCEPT ![s] =
          CASE Len(batch) > 1 -> [@ EXCEPT !.batch = Tail(batch)]
            [] Len(batch) = 1 /\ @.cc = Nothing -> [@ EXCEPT !.pc = "closed", !.batch = <<>>]
            [] OTHER -> [pc |-> "recv", batch |-> <<@.cc>>, cc |-> Nothing]]
  /\ SenderKeeps /\ UNCHANGED <<readCh, errs, netVars>>

(* After a successful Send the memory of the batch is given back, chunk by *)
(* chunk; the slots stay with the ack receiver.  Then the chunk that did   *)
(* not fit starts the next batch.                                          *)
ReleaseMemOnly(s) ==
  /\ SenderAt(s, "sent")
  /\ LET batch == snd[s].batch IN
     /\ IF Head(batch).n > 0 THEN MemRelease(Head(batch).n) ELSE UNCHANGED memVars
     /\ snd' = [snd EXCEPT ![s] =
          CASE Len(batch) > 1 -> [@ EXCEPT !.batch = Tail(batch)]
            [] Len(batch) = 1 /\ @.cc = Nothing -> [@ EXCEPT !.pc = "closed", !.batch = <<>>]
            [] OTHER -> [pc |-> "recv", batch |-> <<@.cc>>, cc |-> Nothing]]
  /\ SenderKeeps /\ UNCHANGED <<readCh, errs, netVars, winVars>>

(* Send failed or the context was cancelled: every pending chunk releases  *)
(* its memory and its slot, and so does the chunk in hand.                 *)
SendDrop(s) ==
  /\ SenderAt(s, "drop")
  /\ LET pending == snd[s].batch \o (IF snd[s].cc = Nothing THEN <<>> ELSE <<snd[s].cc>>)
     IN /\ pending # <<>>
        /\ IF Head(pending).n > 0 THEN MemRelease(Head(pending).n) ELSE UNCHANGED memVars
        /\ WinRelease(Head(pending).id)
        /\ snd' = [snd EXCEPT ![s].batch = Tail(pending), ![s].cc = Nothing]
  /\ SenderKeeps /\ UNCHANGED <<readCh, errs, netVars>>

SendReturns(s) ==
  /\ SenderAt(s, "drop") /\ snd[s].batch = <<>> /\ snd[s].cc = Nothing
  /\ snd' = [snd EXCEPT ![s].pc = "closed"]
  /\ errs' = errs \cup {s}
  /\ SenderKeeps /\ UNCHANGED <<readCh, netVars, winVars, memVars>>

-----------------------------------------------------------------------------
(* ackReceiver                                                             *)
AckKeeps == UNCHANGED <<feedVars, readVars, snd, stream, wire, written,
                        cancelled, faulty, result, memVars>>

AckRecv(s) ==
  /\ ack[s].pc = "recv" /\ acks[s] # <<>>
  /\ ack' = [ack EXCEPT ![s] = [pc |-> "release", ids |-> Head(acks[s])]]
  /\ acks' = [acks EXCEPT ![s] = Tail(@)]
  /\ AckKeeps /\ UNCHANGED <<errs, winVars>>

AckRelease(s) ==
  /\ ack[s].pc = "release"
  /\ WinRelease(Head(ack[s].ids))
  /\ ack' = [ack EXCEPT ![s] = [pc |-> IF Len(@.ids) > 1 THEN "release" ELSE "recv",
                                ids |-> Tail(@.ids)]]
  /\ AckKeeps /\ UNCHANGED <<errs, acks>>

(* Recv returned EOF, or an error, or the context was cancelled first.     *)
AckReturns(s) ==
  /\ ack[s].pc = "recv"
  /\ \/ acks[s] = <<>> /\ stream[s] = "eof" /\ UNCHANGED errs
     \/ (stream[s] = "broken" \/ WorkerDone(s)) /\ errs' = errs \cup {s}
  /\ ack' = [ack EXCEPT ![s].pc = "done"]
  /\ AckKeeps /\ UNCHANGED <<acks, winVars>>

(* dataSendWorker returns an error to StageSendData, and that to Run.      *)
SenderFinished(s) == SenderAt(s, "closed") /\ ack[s].pc = "done"

WorkerFails(s) ==
  /\ SenderFinished(s) /\ s \in errs /\ "send" \notin errs
  /\ errs' = errs \cup {"send"}
  /\ AckKeeps /\ UNCHANGED <<ack, acks, winVars>>

SendStageFails ==
  /\ \A s \in Senders : SenderFinished(s)
  /\ "send" \in errs /\ "pipe" \notin errs
  /\ errs' = errs \cup {"pipe"}
  /\ AckKeeps /\ UNCHANGED <<ack, acks, winVars>>

-----------------------------------------------------------------------------
(* The stream and the destination's Write handler.                         *)
NetKeeps == UNCHANGED <<feedVars, readVars, snd, ack, errs, cancelled, result,
                        winVars, memVars>>

(* Mutant of ServerWrite: acknowledges a batch it has not written. *)
ServerAcksUnwritten(s) ==
  /\ wire[s] # <<>>
  /\ acks' = [acks EXCEPT ![s] = IF stream[s] = "open" THEN Append(@, Head(wire[s])) ELSE @]
  /\ wire' = [wire EXCEPT ![s] = Tail(@)]
  /\ NetKeeps /\ UNCHANGED <<stream, written, faulty>>

(* Write: receive a batch, write its blocks, acknowledge all of its ids.   *)
(* A batch that was received before the stream broke is written, too.      *)
ServerWrite(s) ==
  /\ wire[s] # <<>>
  /\ written' = written \cup Range(Head(wire[s]))
  /\ acks' = [acks EXCEPT ![s] = IF stream[s] = "open" THEN Append(@, Head(wire[s])) ELSE @]
  /\ wire' = [wire EXCEPT ![s] = Tail(@)]
  /\ NetKeeps /\ UNCHANGED <<stream, faulty>>

(* The client has closed its side and all is acknowledged: Write returns.  *)
ServerReturns(s) ==
  /\ stream[s] = "open" /\ SenderAt(s, "closed") /\ wire[s] = <<>>
  /\ stream' = [stream EXCEPT ![s] = "eof"]
  /\ NetKeeps /\ UNCHANGED <<wire, acks, written, faulty>>

(* The handler fails, possibly in the middle of a batch, or the connection *)
(* is lost, or the stream's context is cancelled.                          *)
StreamBreaks(s) ==
  /\ stream[s] = "open"
  /\ "stream" \in Faults \/ SendDone
  /\ stream' = [stream EXCEPT ![s] = "broken"]
  /\ \E W \in SUBSET (IF wire[s] = <<>> THEN {} ELSE Range(Head(wire[s]))) :
       written' = written \cup W
  /\ faulty' = TRUE
  /\ NetKeeps /\ UNCHANGED <<wire, acks>>

(* The caller's context is cancelled.                                      *)
Cancel ==
  /\ "cancel" \in Faults
  /\ ~cancelled /\ result = "none"
  /\ cancelled' = TRUE
  /\ faulty' = TRUE
  /\ UNCHANGED <<errs, result, feedVars, readVars, snd, ack, netVars, winVars, memVars>>

(* g.Wait: Run returns the first error, or nil.                            *)
RunReturns ==
  /\ result = "none"
  /\ ~feeding /\ readClosed /\ \A s \in Senders : SenderFinished(s)
  /\ errs = {} \/ "pipe" \in errs
  /\ result' = IF errs = {} THEN "ok" ELSE "err"
  /\ UNCHANGED <<errs, cancelled, faulty, feedVars, readVars, snd, ack, netVars,
                 winVars, memVars>>

-----------------------------------------------------------------------------
FeederStep == Feed \/ FeederReturns
ReaderStep(r) ==
  \/ ReadTake(r) \/ ReadDrained(r) \/ ReadMem(r) \/ ReadWin(r) \/ ReadAt(r)
  \/ Emit(r) \/ ReadCancelled(r) \/ ReadDrop(r) \/ ReadReturns(r)
SenderStep(s) ==
  \/ OpenStream(s) \/ SendTake(s) \/ SendDrained(s) \/ SendCancelled(s)
  \/ Flush(s) \/ ReleaseMemOnly(s) \/ SendDrop(s) \/ SendReturns(s)
AckStep(s) == AckRecv(s) \/ AckRelease(s) \/ AckReturns(s)
StageStep == CloseReadCh \/ ReadStageFails \/ SendStageFails \/ RunReturns
FaultStep ==
  \/ \E r \in Readers : ReadFails(r)
  \/ \E s \in Senders : OpenFails(s) \/ StreamBreaks(s)
  \/ Cancel

(* The errgroups have returned and nothing is left to do.                  *)
Finished == result # "none" /\ UNCHANGED vars

Next ==
  \/ FeederStep
  \/ \E r \in Readers : ReaderStep(r)
  \/ \E s \in Senders : SenderStep(s) \/ AckStep(s) \/ WorkerFails(s)
                        \/ ServerWrite(s) \/ ServerReturns(s)
  \/ StageStep
  \/ FaultStep
  \/ Finished

Spec == Init /\ [][Next]_vars

(* Every goroutine and the destination keep running; failures need not     *)
(* happen, and a cancelled stream does break.                              *)
FairSpec ==
  /\ Spec
  /\ WF_vars(FeederStep) /\ WF_vars(StageStep)
  /\ \A r \in Readers : WF_vars(ReaderStep(r))
  /\ \A s \in Senders : /\ WF_vars(SenderStep(s)) /\ WF_vars(AckStep(s))
                        /\ WF_vars(WorkerFails(s))
                        /\ WF_vars(ServerWrite(s)) /\ WF_vars(ServerReturns(s))
                        /\ WF_vars(SendDone /\ StreamBreaks(s))

-----------------------------------------------------------------------------
TypeOK ==
  /\ WinTypeOK /\ MemTypeOK
  /\ nextID \in Nat /\ feeding \in BOOLEAN /\ readClosed \in BOOLEAN
  /\ chunkCh \in Seq(ReqIDs)
  /\ \A r \in Readers :
       /\ rd[r].pc \in {"idle", "mem", "memwait", "win", "winwait", "read", "emit",
                        "drop", "failed", "done"}
       /\ rd[r].id \in ReqIDs \cup {-1} /\ rd[r].mem \in Nat /\ rd[r].win \in BOOLEAN
  /\ readCh \in Seq([id : ReqIDs, n : Nat])
  /\ \A s \in Senders :
       /\ snd[s].pc \in {"open", "recv", "flush", "sent", "drop", "closed"}
       /\ snd[s].batch \in Seq([id : ReqIDs, n : Nat])
       /\ ack[s].pc \in {"none", "recv", "release", "done"}
       /\ ack[s].ids \in Seq(ReqIDs)
       /\ wire[s] \in Seq(Seq(ReqIDs)) /\ acks[s] \in Seq(Seq(ReqIDs))
  /\ stream \in [Senders -> {"none", "open", "eof", "broken"}]
  /\ written \subseteq ReqIDs
  /\ errs \subseteq {"pipe", "read", "send"} \cup Senders
  /\ cancelled \in BOOLEAN /\ faulty \in BOOLEAN
  /\ result \in {"none", "ok", "err"}

(* Where the slot of an id can be: with a reader, on its way to a sender,  *)
(* in a batch, on the wire, or in an acknowledgement.                      *)
Owned(chunks) == {chunks[i].id : i \in DOMAIN chunks}
Flat(batches) == UNION {Range(batches[i]) : i \in DOMAIN batches}
ReaderOwns(r) == IF rd[r].win \/ (At(r, "winwait") /\ rd[r].id \in granted)
                   THEN {rd[r].id} ELSE {}
SenderOwns(s) == IF SenderAt(s, "sent") THEN {} ELSE Owned(snd[s].batch)
Places ==
  {<<"reader", r, ReaderOwns(r)>> : r \in Readers}
    \cup {<<"readCh", 0, Owned(readCh)>>}
    \cup {<<"batch", s, SenderOwns(s)>> : s \in Senders}
    \cup {<<"cc", s, {snd[s].cc.id} \ {-1}>> : s \in Senders}
    \cup {<<"wire", s, Flat(wire[s])>> : s \in Senders}
    \cup {<<"acks", s, Flat(acks[s]) \cup Range(ack[s].ids)>> : s \in Senders}

(* Every slot has one owner, so it is released at most once: a second      *)
(* release would free the slot of the id one window later.  On every error *)
(* path the chunk is either still with its reader or sender, or already    *)
(* handed on.                                                              *)
OneOwner ==
  \A id \in ReqIDs, p \in Places :
    id \in p[3] => id \notin Freed /\ \A q \in Places \ {p} : id \notin q[3]

(* The memory budget is exact: cur is what the readers, readCh and the     *)
(* senders hold, through every hand-over, error and cancellation, and a    *)
(* Run that returns nil has given everything back: no chunk is left behind *)
(* in a channel or a batch.                                                *)
MemoryExact ==
  /\ cur = MapThenSumSet(LAMBDA r : rd[r].mem, Readers)
           + MapThenSumSet(LAMBDA r : Size[rd[r].id], memGranted)
           + Bytes(readCh)
           + MapThenSumSet(LAMBDA s : Bytes(snd[s].batch) + snd[s].cc.n, Senders)
  /\ cur <= Capacity
  /\ result = "ok" => cur = 0 /\ inFlight = 0

(* What Run promises its callers, as an abstract specification.            *)
Promised == INSTANCE BlockTransfer WITH
  Blocks <- ReqIDs, fed <- {id \in ReqIDs : id < nextID}, stored <- written,
  free <- Freed, faulted <- faulty, outcome <- result

(* Every step of the pipeline is a step of the abstract transfer: an id is *)
(* released only when its block is written, unless something has failed,   *)
(* nil means everything arrived, and an error means that something failed. *)
PipelineKeepsPromise == Promised!TransferSpec

(* Run always returns.                                                     *)
RunTerminates == <>(result # "none")

(* A sender waits for a chunk before it will flush what it has.            *)
UnflushedWaits ==
  \E s \in Senders : SenderAt(s, "recv") /\ snd[s].batch # <<>> /\ readCh = <<>> /\ ~readClosed

(* However the errgroups, channels, semaphores and streams fail, Run       *)
(* returns, unless it comes to wait for ever for a batch that is not       *)
(* flushed: nothing else can block it.                                     *)
RunReturnsOrStalls == RunTerminates \/ <>[]UnflushedWaits
=============================================================================
