---------------------------- MODULE SourceFiles -----------------------------
(* CephFSReader (cephfs_reader.go) on a read-only FileCache: the pipeline's *)
(* read workers call ReadAt, the commit drainer calls CloseFile once a file *)
(* is committed, and runSnapdiffBlockPipeline closes the reader last.      *)
(*                                                                         *)
(* The reader keeps one reference for each file in use, whoever of the     *)
(* workers came first; the set acquired says for which files it does.      *)
EXTENDS FileCache, FiniteSets

CONSTANTS
  Readers,   \* the read workers
  Chunks,    \* the chunks to read
  FileOf,    \* FileOf[c]: the file of chunk c
  NoFile,    \* CloseFile works on no file
  NoChunk    \* a worker reads no chunk

ASSUME SourceAssumption ==
  /\ IsFiniteSet(Readers) /\ IsFiniteSet(Chunks)
  /\ FileOf \in [Chunks -> Paths]
  /\ NoFile \notin Paths /\ NoChunk \notin Chunks

ChunksOf(p) == {c \in Chunks : FileOf[c] = p}

VARIABLES
  acquired,  \* the files the reader keeps a reference for
  reader,    \* reader[r]: where worker r is in ReadAt
  chunk,     \* chunk[r]: the chunk it reads
  handle,    \* handle[r]: the handle Acquire gave it
  unread,    \* the chunks nobody has taken
  read,      \* the chunks read
  closing,   \* the file CloseFile works on, or NoFile
  closed,    \* the files given to CloseFile
  hasty      \* CloseFile was called before all of the file was read

sourceVars == <<acquired, reader, chunk, handle, unread, read, closing, closed, hasty>>

SourceInit ==
  /\ acquired = {}
  /\ reader = [r \in Readers |-> "idle"]
  /\ chunk = [r \in Readers |-> NoChunk]
  /\ handle = [r \in Readers |-> 0]
  /\ unread = Chunks
  /\ read = {}
  /\ closing = NoFile
  /\ closed = {}
  /\ hasty = FALSE

-----------------------------------------------------------------------------
(* ReadAt by worker r *)

ReadAcquire(r) ==
  /\ reader[r] = "idle"
  /\ \E c \in unread :
       /\ unread' = unread \ {c}
       /\ chunk' = [chunk EXCEPT ![r] = c]
       /\ Acquire(FileOf[c])
       /\ handle' = [handle EXCEPT ![r] = Handle(FileOf[c])]
  /\ reader' = [reader EXCEPT ![r] = "acquired"]
  /\ UNCHANGED <<acquired, read, closing, closed, hasty>>

(* LoadOrStore: the first caller leaves its reference to the reader. *)
LoadOrStore(r) ==
  /\ reader[r] = "acquired"
  /\ reader' = [reader EXCEPT ![r] = IF FileOf[chunk[r]] \in acquired THEN "extra" ELSE "read"]
  /\ acquired' = acquired \cup {FileOf[chunk[r]]}
  /\ UNCHANGED <<cacheVars, chunk, handle, unread, read, closing, closed, hasty>>

(* Everyone else gives it back before reading. *)
ReleaseExtra(r) ==
  /\ reader[r] = "extra"
  /\ Release(FileOf[chunk[r]])
  /\ reader' = [reader EXCEPT ![r] = "read"]
  /\ UNCHANGED <<acquired, chunk, handle, unread, read, closing, closed, hasty>>

ReadFile(r) ==
  /\ reader[r] = "read"
  /\ IsOpen(FileOf[chunk[r]], handle[r])
  /\ read' = read \cup {chunk[r]}
  /\ reader' = [reader EXCEPT ![r] = "idle"]
  /\ chunk' = [chunk EXCEPT ![r] = NoChunk]
  /\ handle' = [handle EXCEPT ![r] = 0]
  /\ UNCHANGED <<cacheVars, acquired, unread, closing, closed, hasty>>

(* Opening or reading fails, and the worker returns the error. *)
ReadFails(r) ==
  /\ \/ /\ reader[r] = "idle"
        /\ unread # {}
     \/ reader[r] = "read"
  /\ reader' = [reader EXCEPT ![r] = "returned"]
  /\ UNCHANGED <<cacheVars, acquired, chunk, handle, unread, read, closing, closed, hasty>>

(* No chunk is left, or the pipeline is cancelled. *)
ReaderReturns(r) ==
  /\ reader[r] = "idle"
  /\ reader' = [reader EXCEPT ![r] = "returned"]
  /\ UNCHANGED <<cacheVars, acquired, chunk, handle, unread, read, closing, closed, hasty>>

-----------------------------------------------------------------------------
(* CloseFile by the commit drainer. A file is committed once, when its     *)
(* blocks are acknowledged and hence read, or too early after a fault.     *)

ForgetFile ==
  /\ closing = NoFile
  /\ \E p \in Paths \ closed :
       /\ closing' = p
       /\ closed' = closed \cup {p}
       /\ acquired' = acquired \ {p}
       /\ hasty' = (hasty \/ ~ ChunksOf(p) \subseteq read)
  /\ UNCHANGED <<cacheVars, reader, chunk, handle, unread, read>>

ReleaseFile ==
  /\ closing # NoFile
  /\ Release(closing)
  /\ closing' = NoFile
  /\ UNCHANGED <<acquired, reader, chunk, handle, unread, read, closed, hasty>>

(* The deferred Close, after workers and drainer have returned. *)
CloseReader ==
  /\ \A r \in Readers : reader[r] = "returned"
  /\ closing = NoFile
  /\ CloseAll
  /\ reader' = [r \in Readers |-> "closed"]
  /\ UNCHANGED <<acquired, chunk, handle, unread, read, closing, closed, hasty>>

SourceNext ==
  \/ \E r \in Readers :
       \/ ReadAcquire(r) \/ LoadOrStore(r) \/ ReleaseExtra(r)
       \/ ReadFile(r) \/ ReadFails(r) \/ ReaderReturns(r)
  \/ ForgetFile \/ ReleaseFile \/ CloseReader
=============================================================================
