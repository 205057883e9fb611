-------------------------- MODULE DestinationFiles --------------------------
(* The handlers of the CephFS destination (destination.go) on one          *)
(* FileCache: several Write streams, one Commit stream, and the server     *)
(* that stops when the source is done.                                     *)
(*                                                                         *)
(* A Write handler takes one reference for each path it writes and gives   *)
(* it back when its stream ends.  Commit gives back a reference too, one   *)
(* that it never took.                                                     *)
EXTENDS FileCache, FiniteSets

CONSTANTS
  Streams,    \* the Write streams of one sync
  Committer,  \* the Commit handler
  Blocks,     \* the changed blocks
  PathOf      \* PathOf[b]: the file of block b

ASSUME DestinationAssumption ==
  /\ IsFiniteSet(Streams) /\ Committer \notin Streams
  /\ PathOf \in [Blocks -> Paths]

Handlers == Streams \cup {Committer}
BlocksOf(p) == {b \in Blocks : PathOf[b] = p}

VARIABLES
  server,     \* RunDestinationServer: "serving" or "exited"
  writer,     \* writer[s]: where the Write handler of s is
  files,      \* files[s][p]: the handle s keeps for p, 0 if none
  request,    \* request[s]: the blocks of the request in hand
  unwritten,  \* unwritten[s]: those still to be written
  failed,     \* the Write handlers with an error to return
  committer,  \* where the Commit handler is
  batch,      \* the paths of the commit in hand
  uncommitted, \* those still to be synced
  release,    \* release[h]: the SyncAndRelease handler h is in
  unsent,     \* the blocks the source has not sent yet
  acked,      \* the blocks acknowledged
  asked,      \* the paths a commit was requested for
  committed,  \* the paths of the commits answered
  written,    \* the blocks in the files
  durable,    \* the blocks fsynced
  unsynced,   \* history: the files whose fsync failed in a Write handler
  early       \* the source asked for a commit before all was acknowledged

destVars == <<server, writer, files, request, unwritten, failed, committer, batch,
              uncommitted, release, unsent, acked, asked, committed, written,
              durable, unsynced, early>>

NotReleasing == [step |-> "none"]

DestInit ==
  /\ server = "serving"
  /\ writer = [s \in Streams |-> "recv"]
  /\ files = [s \in Streams |-> [p \in Paths |-> 0]]
  /\ request = [s \in Streams |-> {}]
  /\ unwritten = [s \in Streams |-> {}]
  /\ failed = {}
  /\ committer = "recv"
  /\ batch = {}
  /\ uncommitted = {}
  /\ release = [h \in Handlers |-> NotReleasing]
  /\ unsent = Blocks
  /\ acked = {}
  /\ asked = {}
  /\ committed = {}
  /\ written = {}
  /\ durable = {}
  /\ unsynced = {}
  /\ early = FALSE

-----------------------------------------------------------------------------
(* SyncAndRelease by handler h *)

(* There is an entry: take a guard reference. *)
BeginRelease(h, p) ==
  /\ Guard(p)
  /\ release' = [release EXCEPT ![h] =
       [step |-> "sync", path |-> p, handle |-> opened[p], ok |-> TRUE]]

(* Mutant of DropReference: only the guard reference is given back. *)
DropGuard(h) ==
  /\ release[h].step = "guard"
  /\ Release(release[h].path)
  /\ release' = [release EXCEPT ![h].step = "end"]
  /\ UNCHANGED <<server, writer, files, request, unwritten, failed, committer, batch,
                 uncommitted, unsent, acked, asked, committed, written, durable, unsynced, early>>

(* The guard reference, then the caller's own. *)
DropReference(h) ==
  /\ release[h].step \in {"guard", "own"}
  /\ Release(release[h].path)
  /\ release' = [release EXCEPT ![h].step = IF @ = "guard" THEN "own" ELSE "end"]
  /\ UNCHANGED <<server, writer, files, request, unwritten, failed, committer, batch,
                 uncommitted, unsent, acked, asked, committed, written, durable, unsynced, early>>

(* Sync outside the lock. A closed handle cannot be synced, and fsync can  *)
(* fail.                                                                   *)
SyncFile(h) ==
  /\ release[h].step = "sync"
  /\ \/ /\ IsOpen(release[h].path, release[h].handle)
        /\ durable' = durable \cup (written \cap BlocksOf(release[h].path))
        /\ release' = [release EXCEPT ![h].step = "guard"]
        /\ UNCHANGED unsynced
     \/ /\ release' = [release EXCEPT ![h].step = "guard", ![h].ok = FALSE]
        /\ unsynced' = IF h = Committer THEN unsynced ELSE unsynced \cup {release[h].path}
        /\ UNCHANGED durable
  /\ UNCHANGED <<cacheVars, server, writer, files, request, unwritten, failed, committer,
                 batch, uncommitted, unsent, acked, asked, committed, written, early>>

-----------------------------------------------------------------------------
(* The Write handler of stream s *)

ReceiveWrite(s) ==
  /\ writer[s] = "recv"
  /\ \E B \in (SUBSET unsent) \ {{}} :
       /\ request' = [request EXCEPT ![s] = B]
       /\ unwritten' = [unwritten EXCEPT ![s] = B]
       /\ unsent' = unsent \ B
  /\ writer' = [writer EXCEPT ![s] = "write"]
  /\ UNCHANGED <<cacheVars, server, files, failed, committer, batch, uncommitted, release,
                 acked, asked, committed, written, durable, unsynced, early>>

(* The first block of a path: its handle is acquired and kept. *)
AcquireFile(s) ==
  /\ writer[s] = "write"
  /\ \E b \in unwritten[s] :
       /\ files[s][PathOf[b]] = 0
       /\ Acquire(PathOf[b])
       /\ files' = [files EXCEPT ![s][PathOf[b]] = Handle(PathOf[b])]
  /\ UNCHANGED <<server, writer, request, unwritten, failed, committer, batch, uncommitted,
                 release, unsent, acked, asked, committed, written, durable, unsynced, early>>

(* WriteAt or zeroRange through the handle kept. *)
WriteBlock(s) ==
  /\ writer[s] = "write"
  /\ \E b \in unwritten[s] :
       /\ files[s][PathOf[b]] # 0
       /\ IsOpen(PathOf[b], files[s][PathOf[b]])
       /\ written' = written \cup {b}
       /\ unwritten' = [unwritten EXCEPT ![s] = @ \ {b}]
  /\ UNCHANGED <<cacheVars, server, writer, files, request, failed, committer, batch,
                 uncommitted, release, unsent, acked, asked, committed, durable, unsynced, early>>

SendAck(s) ==
  /\ writer[s] = "write"
  /\ unwritten[s] = {}
  /\ acked' = acked \cup request[s]
  /\ request' = [request EXCEPT ![s] = {}]
  /\ writer' = [writer EXCEPT ![s] = "recv"]
  /\ UNCHANGED <<cacheVars, server, files, unwritten, failed, committer, batch, uncommitted,
                 release, unsent, asked, committed, written, durable, unsynced, early>>

(* Receive, open, write or send fails; a write through a closed handle     *)
(* always does.                                                            *)
WriteFails(s) ==
  /\ writer[s] \in {"recv", "write"}
  /\ writer' = [writer EXCEPT ![s] = "cleanup"]
  /\ failed' = failed \cup {s}
  /\ UNCHANGED <<cacheVars, server, files, request, unwritten, committer, batch, uncommitted,
                 release, unsent, acked, asked, committed, written, durable, unsynced, early>>

(* io.EOF: the source has closed the stream. *)
StreamEnds(s) ==
  /\ writer[s] = "recv"
  /\ writer' = [writer EXCEPT ![s] = "cleanup"]
  /\ UNCHANGED <<cacheVars, server, files, request, unwritten, failed, committer, batch,
                 uncommitted, release, unsent, acked, asked, committed, written, durable, unsynced, early>>

(* Mutant of CleanupFile: the loop releases and leaves syncing to Commit. *)
CleanupUnsynced(s) ==
  /\ writer[s] = "cleanup"
  /\ \E p \in Paths :
       /\ files[s][p] # 0
       /\ Release(p)
       /\ files' = [files EXCEPT ![s][p] = 0]
  /\ UNCHANGED <<server, writer, request, unwritten, failed, committer, batch, uncommitted,
                 release, unsent, acked, asked, committed, written, durable, unsynced, early>>

(* The deferred loop: SyncAndRelease for each path of the stream's map. *)
CleanupFile(s) ==
  /\ writer[s] = "cleanup"
  /\ \E p \in Paths :
       /\ files[s][p] # 0
       /\ \/ /\ release[s].step = "none"
             /\ BeginRelease(s, p)
             /\ UNCHANGED <<files, failed>>
          \/ /\ release[s].step = "none"
             /\ ~HasEntry(p)
             /\ files' = [files EXCEPT ![s][p] = 0]
             /\ UNCHANGED <<cacheVars, release, failed>>
          \/ /\ release[s].step = "end"
             /\ release[s].path = p
             /\ files' = [files EXCEPT ![s][p] = 0]
             /\ failed' = IF release[s].ok THEN failed ELSE failed \cup {s}
             /\ release' = [release EXCEPT ![s] = NotReleasing]
             /\ UNCHANGED cacheVars
  /\ UNCHANGED <<server, writer, request, unwritten, committer, batch, uncommitted, unsent,
                 acked, asked, committed, written, durable, unsynced, early>>

WriteReturns(s) ==
  /\ writer[s] = "cleanup"
  /\ files[s] = [p \in Paths |-> 0]
  /\ writer' = [writer EXCEPT ![s] = "returned"]
  /\ UNCHANGED <<cacheVars, server, files, request, unwritten, failed, committer, batch,
                 uncommitted, release, unsent, acked, asked, committed, written, durable, unsynced, early>>

-----------------------------------------------------------------------------
(* The Commit handler *)

(* A request names paths not committed before. The source asks when every  *)
(* block is acknowledged, or too early after a fault of its own.           *)
ReceiveCommit ==
  /\ committer = "recv"
  /\ \E P \in (SUBSET (Paths \ asked)) \ {{}} :
       /\ batch' = P
       /\ uncommitted' = P
       /\ asked' = asked \cup P
       /\ early' = (early \/ \E p \in P : ~ BlocksOf(p) \subseteq acked)
  /\ committer' = "commit"
  /\ UNCHANGED <<cacheVars, server, writer, files, request, unwritten, failed, release,
                 unsent, acked, committed, written, durable, unsynced>>

CommitFile ==
  /\ committer = "commit"
  /\ \E p \in uncommitted :
       \/ /\ release[Committer].step = "none"
          /\ BeginRelease(Committer, p)
          /\ UNCHANGED uncommitted
       \/ /\ release[Committer].step = "none"
          /\ ~HasEntry(p)
          /\ uncommitted' = uncommitted \ {p}
          /\ UNCHANGED <<cacheVars, release>>
       \/ /\ release[Committer].step = "end"
          /\ release[Committer].path = p
          /\ release[Committer].ok
          /\ uncommitted' = uncommitted \ {p}
          /\ release' = [release EXCEPT ![Committer] = NotReleasing]
          /\ UNCHANGED cacheVars
  /\ UNCHANGED <<server, writer, files, request, unwritten, failed, committer, batch, unsent,
                 acked, asked, committed, written, durable, unsynced, early>>

SendCommitted ==
  /\ committer = "commit"
  /\ uncommitted = {}
  /\ committed' = committed \cup batch
  /\ batch' = {}
  /\ committer' = "recv"
  /\ UNCHANGED <<cacheVars, server, writer, files, request, unwritten, failed, uncommitted,
                 release, unsent, acked, asked, written, durable, unsynced, early>>

(* The stream ends, or a sync failed and its error ends the stream. *)
CommitReturns ==
  /\ \/ committer = "recv"
     \/ /\ committer = "commit"
        /\ release[Committer].step = "end"
        /\ ~release[Committer].ok
     \/ /\ committer = "commit"
        /\ uncommitted = {}
  /\ committer' = "returned"
  /\ release' = [release EXCEPT ![Committer] = NotReleasing]
  /\ UNCHANGED <<cacheVars, server, writer, files, request, unwritten, failed, batch,
                 uncommitted, unsent, acked, asked, committed, written, durable, unsynced, early>>

-----------------------------------------------------------------------------
(* The server *)

HandlersReturned ==
  /\ \A s \in Streams : writer[s] = "returned"
  /\ committer = "returned"

(* Done or a signal stops the server: GracefulStop of both listeners takes *)
(* no new stream and waits for the handlers, then Run returns and its      *)
(* deferred call closes the cache.                                         *)
ExitServer ==
  /\ server = "serving"
  /\ HandlersReturned
  /\ CloseAll
  /\ server' = "exited"
  /\ UNCHANGED <<writer, files, request, unwritten, failed, committer, batch, uncommitted,
                 release, unsent, acked, asked, committed, written, durable, unsynced, early>>

DestNext ==
  \/ \E s \in Streams :
       \/ ReceiveWrite(s) \/ AcquireFile(s) \/ WriteBlock(s)
       \/ SendAck(s) \/ WriteFails(s) \/ StreamEnds(s) \/ CleanupFile(s) \/ WriteReturns(s)
  \/ \E h \in Handlers : SyncFile(h) \/ DropReference(h)
  \/ ReceiveCommit \/ CommitFile \/ SendCommitted \/ CommitReturns
  \/ ExitServer
=============================================================================
