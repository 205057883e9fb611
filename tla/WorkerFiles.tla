---------------------------- MODULE WorkerFiles -----------------------------
(* A CephFS worker process and its file cache.  The process is started as  *)
(* a source or as a destination and uses the one FileCache accordingly.    *)
EXTENDS DestinationFiles, SourceFiles

VARIABLE workerType

vars == <<workerType, cacheVars, destVars, sourceVars>>

Init ==
  /\ workerType \in {"source", "destination"}
  /\ CacheInit
  /\ DestInit
  /\ SourceInit

Destination ==
  /\ workerType = "destination"
  /\ DestNext
  /\ UNCHANGED <<workerType, sourceVars>>

Source ==
  /\ workerType = "source"
  /\ SourceNext
  /\ UNCHANGED <<workerType, destVars>>

Next == Destination \/ Source

Spec == Init /\ [][Next]_vars

-----------------------------------------------------------------------------
(* Types of all variables. A count is bounded by the clients: one          *)
(* reference and one guard each, and the guard of Commit.                  *)
TypeOK ==
  /\ workerType \in {"source", "destination"}
  /\ refCount \in [Paths -> 0 .. 2 * Cardinality(Streams) + Cardinality(Readers) + 2]
  /\ opened \in [Paths -> 0 .. Cardinality(Streams) + Cardinality(Chunks)]
  /\ server \in {"serving", "exited"}
  /\ writer \in [Streams -> {"recv", "write", "cleanup", "returned"}]
  /\ files \in [Streams -> [Paths -> Nat]]
  /\ \A s \in Streams : unwritten[s] \subseteq request[s] /\ request[s] \subseteq Blocks
  /\ failed \subseteq Streams
  /\ committer \in {"recv", "commit", "returned"}
  /\ uncommitted \subseteq batch /\ batch \subseteq asked /\ asked \subseteq Paths
  /\ \A h \in Handlers : release[h].step \in {"none", "sync", "guard", "own", "end"}
  /\ unsent \subseteq Blocks /\ acked \subseteq written /\ written \subseteq Blocks
  /\ durable \subseteq written /\ unsynced \subseteq Paths /\ committed \subseteq asked
  /\ early \in BOOLEAN /\ hasty \in BOOLEAN
  /\ acquired \subseteq Paths /\ closed \subseteq Paths /\ closing \in Paths \cup {NoFile}
  /\ reader \in [Readers -> {"idle", "acquired", "extra", "read", "returned", "closed"}]
  /\ chunk \in [Readers -> Chunks \cup {NoChunk}]
  /\ handle \in [Readers -> Nat]
  /\ unread \subseteq Chunks /\ read \subseteq Chunks

(* Nobody is about to write, sync or read through a closed handle, as long *)
(* as no file is committed before its blocks are acknowledged. This is     *)
(* what the reference counts are for, although Commit drops a reference it *)
(* does not own, SyncAndRelease releases in two steps, and ReadAt reads    *)
(* after giving its reference back.                                        *)
HandleUsable ==
  /\ ~early =>
       /\ \A s \in Streams : writer[s] = "write" =>
            \A b \in unwritten[s] :
              files[s][PathOf[b]] # 0 => IsOpen(PathOf[b], files[s][PathOf[b]])
       /\ \A h \in Handlers : release[h].step = "sync" =>
            IsOpen(release[h].path, release[h].handle)
  /\ ~hasty =>
       \A r \in Readers : reader[r] \in {"acquired", "extra", "read"} =>
         IsOpen(FileOf[chunk[r]], handle[r])

(* A file whose commit was answered is on disk with all its blocks, also   *)
(* after a broken stream, unless a Write handler's fsync failed, which its *)
(* stream reports. SyncAndRelease does nothing for a path without entry,   *)
(* so this needs whoever removed the entry to have synced everything.      *)
CommitMeansDurable ==
  ~early => \A p \in committed \ unsynced : BlocksOf(p) \subseteq durable

(* No handle is left open: not when the handlers have returned, however    *)
(* their streams ended and whatever was committed early, and not on the    *)
(* source when every file has been closed.                                 *)
NoHandleLeak ==
  /\ (workerType = "destination" /\ HandlersReturned) => \A p \in Paths : ~HasEntry(p)
  /\ (/\ workerType = "source"
      /\ ~hasty
      /\ closed = Paths
      /\ closing = NoFile) => \A p \in Paths : ~HasEntry(p)
=============================================================================
