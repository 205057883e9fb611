----------------------------- MODULE FilesProofs -----------------------------
(***************************************************************************)
(* Proofs about WorkerFiles for any number of streams, readers, files,     *)
(* blocks and chunks: the reference counts keep a handle open for whoever  *)
(* uses it, nothing keeps one open for nobody, and an answered commit      *)
(* means that the blocks of the file are on disk.                          *)
(***************************************************************************)
EXTENDS WorkerFiles, DestinationProofs

-----------------------------------------------------------------------------
(* What is on disk at the destination                                      *)

(* A step that writes nothing keeps what is synced or owed, unless a stream *)
(* stops owing it.                                                         *)
LEMMA OwedKept ==
  ASSUME SyncedOrOwed, \A p \in Paths : StolenStays(p),
         written' = written, durable \subseteq durable', unsynced \subseteq unsynced',
         \A s \in Streams, p \in Paths \ unsynced' :
           Owes(s, p) /\ ~Stolen(p) => Owes(s, p)' \/ written \cap BlocksOf(p) \subseteq durable'
  PROVE  SyncedOrOwed'
<1> SUFFICES ASSUME NEW p \in Paths \ unsynced', ~Stolen(p)'
             PROVE  written' \cap BlocksOf(p) \subseteq durable' \/ \E s \in Streams : Owes(s, p)'
  BY Zenon DEF SyncedOrOwed
<1>1. p \in Paths \ unsynced /\ ~Stolen(p)
  BY DEF StolenStays
<1>2. CASE written \cap BlocksOf(p) \subseteq durable
  BY <1>2
<1>3. CASE \E s \in Streams : Owes(s, p)
  BY <1>1, <1>3
<1>4. QED
  BY <1>1, <1>2, <1>3 DEF SyncedOrOwed

(* Owing in terms of the record of s.                                      *)
LEMMA OwesSame ==
  ASSUME NEW s \in Streams, NEW p \in Paths, Owes(s, p),
         files'[s][p] = files[s][p],
         \/ release'[s] = release[s]
         \/ release'[s].step \in {"none", "sync"}
         \/ release'[s].path # p
  PROVE  Owes(s, p)'
BY DEF Owes, In

LEMMA OwedStep ==
  ASSUME DestTypes, ControlInv, CountInv, ~early, SyncedOrOwed, DestNext
  PROVE  SyncedOrOwed'
<1>1. /\ Committer \in Handlers /\ Committer \notin Streams /\ Streams \subseteq Handlers
      /\ \A p \in Paths : StolenStays(p)
  BY StolenMonotone, DestinationAssumption DEF Handlers
<1>2. ASSUME Aside, written' = written, durable' = durable, unsynced' = unsynced PROVE SyncedOrOwed'
  <2>1. \A s \in Streams, p \in Paths : Owes(s, p) => Owes(s, p)'
    BY <1>2 DEF Aside, Owes, In
  <2>2. QED
    BY <1>1, <1>2, <2>1, OwedKept
<1>3. ASSUME NEW s \in Streams, ReceiveWrite(s) \/ SendAck(s) \/ WriteFails(s) \/ StreamEnds(s) \/ WriteReturns(s)
      PROVE SyncedOrOwed'
  <2>1. Aside /\ written' = written /\ durable' = durable /\ unsynced' = unsynced
    BY <1>3, Zenon DEF ReceiveWrite, SendAck, WriteFails, StreamEnds, WriteReturns, Aside
  <2>2. QED
    BY <1>2, <2>1
<1>4. ASSUME NEW s \in Streams, AcquireFile(s) PROVE SyncedOrOwed'
  <2>1. PICK b \in Blocks : AcquireEffect(s, b)
    BY <1>4, AcquireStep
  <2>2. PICK p \in Paths : p = PathOf[b]
    BY <2>1 DEF AcquireEffect
  <2>3. /\ files[s][p] = 0
        /\ \A t \in Streams, q \in Paths : t # s \/ q # p => files'[t][q] = files[t][q]
    BY <2>1, <2>2 DEF AcquireEffect, Keeps
  <2>4. release' = release /\ written' = written /\ durable' = durable /\ unsynced' = unsynced
    BY <1>4 DEF AcquireFile
  <2>5. \A t \in Streams, q \in Paths : Owes(t, q) => Owes(t, q)'
    BY Zenon, <2>3, <2>4 DEF Owes, In
  <2>6. QED
    BY <1>1, <2>4, <2>5, OwedKept
<1>5. ASSUME NEW s \in Streams, WriteBlock(s) PROVE SyncedOrOwed'
  <2>1. PICK b \in unwritten[s] : files[s][PathOf[b]] # 0 /\ written' = written \cup {b}
    BY Zenon, <1>5 DEF WriteBlock
  <2>2. PICK p \in Paths : p = PathOf[b]
    BY DestinationAssumption DEF DestTypes
  <2>3. Aside /\ durable' = durable /\ unsynced' = unsynced /\ writer[s] = "write"
    BY <1>5 DEF WriteBlock, Aside
  <2>4. \A t \in Streams, q \in Paths : Owes(t, q) => Owes(t, q)'
    BY <2>3 DEF Aside, Owes, In
  <2>5. Owes(s, p)'
    <3>1. release[s] = NotReleasing
      BY <2>3 DEF ControlInv
    <3>2. release'[s].step = "none" /\ files'[s][p] # 0
      BY Zenon, <1>1, <2>1, <2>2, <2>3, <3>1, NotReleasingStep DEF Aside
    <3>3. QED
      BY <3>2 DEF Owes, In
  <2>6. ASSUME NEW q \in Paths \ unsynced', ~Stolen(q)'
        PROVE  written' \cap BlocksOf(q) \subseteq durable' \/ \E t \in Streams : Owes(t, q)'
    <3>1. CASE q = p
      BY <2>5, <3>1
    <3>2. CASE q # p
      <4>1. b \notin BlocksOf(q)
        BY <2>2, <3>2 DEF BlocksOf
      <4>2. written \cap BlocksOf(q) \subseteq durable \/ \E t \in Streams : Owes(t, q)
        BY <1>1, <2>3, <2>6 DEF SyncedOrOwed, StolenStays
      <4>3. QED
        BY Zenon, <2>1, <2>3, <2>4, <4>1, <4>2
    <3>3. QED
      BY <3>1, <3>2
  <2>7. QED
    BY <2>6, Zenon DEF SyncedOrOwed
<1>6. ASSUME NEW s \in Streams, CleanupFile(s) PROVE SyncedOrOwed'
  <2>1. PICK p \in Paths : CleanupEffect(s, p)
    BY <1>6, CleanupStep
  <2>2. written' = written /\ durable' = durable /\ unsynced' = unsynced
    BY <1>6 DEF CleanupFile
  <2>3. ASSUME NEW t \in Streams, NEW q \in Paths, Owes(t, q), ~Stolen(q) PROVE Owes(t, q)'
    <3>1. CASE Starts(s, p) /\ files' = files
      <4>1. release'[t] = release[t] \/ release'[t].step = "sync"
        BY <1>1, <3>1 DEF Starts, Moves
      <4>2. QED
        BY Zenon, <2>3, <3>1, <4>1, OwesSame
    <3>2. CASE release[s] = NotReleasing /\ refCount[p] = 0 /\ Keeps(s, p, 0) /\ release' = release
      <4>1. CASE t = s /\ q = p
        <5>1. Owners(p) = {}
          BY Zenon, <2>3, <3>2, <4>1, NobodyHolds DEF DestTypes
        <5>2. Owns(s, p)
          BY <2>3, <4>1 DEF Owes, Owns, In
        <5>3. QED
          BY <5>1, <5>2 DEF Owners
      <4>2. CASE t # s \/ q # p
        <5>1. files'[t][q] = files[t][q]
          BY <3>2, <4>2 DEF Keeps
        <5>2. QED
          BY ZenonT(30), <2>3, <3>2, <5>1, OwesSame
      <4>3. QED
        BY <4>1, <4>2
    <3>3. CASE /\ release[s].step = "end" /\ release[s].path = p
               /\ Keeps(s, p, 0) /\ Moves(s, NotReleasing)
      <4>1. t # s \/ q # p
        BY <2>3, <3>3 DEF Owes, In
      <4>2. files'[t][q] = files[t][q]
        BY <3>3, <4>1 DEF Keeps
      <4>3. release'[t] = release[t] \/ release'[t].step = "none"
        BY <1>1, <3>3, NotReleasingStep DEF Moves
      <4>4. QED
        BY Zenon, <2>3, <4>2, <4>3, OwesSame
    <3>4. QED
      BY ZenonT(30), <2>1, <3>1, <3>2, <3>3 DEF CleanupEffect
  <2>4. QED
    BY <1>1, <2>2, <2>3, OwedKept
<1>7. ASSUME NEW h \in Handlers, SyncFile(h) PROVE SyncedOrOwed'
  <2>1. PICK x \in ReleaseType : Moves(h, x) /\ x.path = release[h].path
    BY <1>7, SyncStep
  <2>2. /\ release'[h].path = release[h].path
        /\ \A g \in Handlers \ {h} : release'[g] = release[g]
    BY <2>1 DEF Moves
  <2>3. written' = written /\ files' = files
    BY <1>7 DEF SyncFile
  <2>4. SyncsOk(h) \/ SyncsNot(h)
    BY <1>7, SyncStep
  <2>5. durable \subseteq durable' /\ unsynced \subseteq unsynced'
    BY <2>4 DEF SyncsOk, SyncsNot
  <2>6. ASSUME NEW t \in Streams, NEW q \in Paths \ unsynced', Owes(t, q)
        PROVE  Owes(t, q)' \/ written \cap BlocksOf(q) \subseteq durable'
    <3>1. CASE t = h /\ q = release[h].path
      <4>1. h # Committer
        BY <1>1, <3>1
      <4>2. ~SyncsNot(h)
        BY <2>6, <3>1, <4>1 DEF SyncsNot
      <4>3. QED
        BY <2>4, <3>1, <4>2 DEF SyncsOk
    <3>2. CASE t # h \/ q # release[h].path
      BY ZenonT(30), <1>1, <2>2, <2>3, <2>6, <3>2, OwesSame
    <3>3. QED
      BY <3>1, <3>2
  <2>7. QED
    BY Zenon, <1>1, <2>3, <2>5, <2>6, OwedKept
<1>8. ASSUME NEW h \in Handlers, DropReference(h) PROVE SyncedOrOwed'
  <2>1. PICK x \in ReleaseType : Moves(h, x) /\ x.path = release[h].path
    BY <1>8, DropStep
  <2>2. /\ release'[h].path = release[h].path /\ release[h].step \in {"guard", "own"}
        /\ \A g \in Handlers \ {h} : release'[g] = release[g]
    BY <1>8, <2>1, DropStep DEF Moves
  <2>3. written' = written /\ files' = files /\ durable' = durable /\ unsynced' = unsynced
    BY <1>8 DEF DropReference
  <2>4. ASSUME NEW t \in Streams, NEW q \in Paths, Owes(t, q) PROVE Owes(t, q)'
    <3>1. t # h \/ q # release[h].path
      BY <2>2, <2>4 DEF Owes, In
    <3>2. QED
      BY ZenonT(30), <1>1, <2>2, <2>3, <2>4, <3>1, OwesSame
  <2>5. QED
    BY Zenon, <1>1, <2>3, <2>4, OwedKept
<1>9. ASSUME ReceiveCommit \/ SendCommitted \/ ExitServer PROVE SyncedOrOwed'
  <2>1. Aside /\ written' = written /\ durable' = durable /\ unsynced' = unsynced
    BY <1>9, Zenon DEF ReceiveCommit, SendCommitted, ExitServer, Aside
  <2>2. QED
    BY <1>2, <2>1
<1>10. ASSUME CommitFile \/ CommitReturns PROVE SyncedOrOwed'
  <2>1. written' = written /\ files' = files /\ durable' = durable /\ unsynced' = unsynced
    BY <1>10, Zenon DEF CommitFile, CommitReturns
  <2>2. \A t \in Streams : release'[t] = release[t]
    <3>1. CASE CommitFile
      <4>1. \E p \in Paths : CommitEffect(p)
        BY <3>1, CommitStep
      <4>2. QED
        BY <1>1, <4>1 DEF CommitEffect, Starts, Moves
    <3>2. CASE CommitReturns
      BY Zenon, <1>1, <3>2, ClearStep DEF CommitReturns, Moves
    <3>3. QED
      BY Zenon, <1>10, <3>1, <3>2
  <2>3. \A t \in Streams, q \in Paths : Owes(t, q) => Owes(t, q)'
    BY <2>1, <2>2, OwesSame
  <2>4. QED
    BY <1>1, <2>1, <2>3, OwedKept
<1>11. QED
  BY Zenon, <1>3, <1>4, <1>5, <1>6, <1>7, <1>8, <1>9, <1>10 DEF DestNext

(* What is on disk stays there.                                            *)
LEMMA DurableGrows ==
  ASSUME DestTypes, DestNext
  PROVE  durable \subseteq durable' /\ unsynced \subseteq unsynced'
<1>1. ASSUME NEW h \in Handlers, SyncFile(h) PROVE durable \subseteq durable' /\ unsynced \subseteq unsynced'
  BY Zenon, <1>1, SyncStep DEF SyncsOk, SyncsNot
<1>2. CASE \A h \in Handlers : ~SyncFile(h)
  <2>1. durable' = durable /\ unsynced' = unsynced
    BY <1>2, Zenon DEF DestNext, ReceiveWrite, AcquireFile, WriteBlock, SendAck, WriteFails, StreamEnds,
       CleanupFile, WriteReturns, DropReference, ReceiveCommit, CommitFile, SendCommitted, CommitReturns, ExitServer
  <2>2. QED
    BY Zenon, <2>1
<1>3. QED
  BY <1>1, <1>2

LEMMA PassedStep ==
  ASSUME DestTypes, ControlInv, BlockInv, CountInv, ~early, DurableInv, DestNext
  PROVE  PassedDurable'
<1>1. SyncedOrOwed /\ PassedDurable /\ CommitSynced /\ durable \subseteq durable' /\ unsynced \subseteq unsynced'
  BY DurableGrows DEF DurableInv
<1>2. ASSUME \A p \in Passed' \ unsynced : p \in Passed \/ BlocksOf(p) \subseteq durable
      PROVE PassedDurable'
  BY <1>1, <1>2 DEF PassedDurable, Passed
<1>3. ASSUME UNCHANGED <<committed, batch, uncommitted>> PROVE PassedDurable'
  BY <1>2, <1>3 DEF Passed
<1>4. ASSUME NEW s \in Streams, ReceiveWrite(s) \/ AcquireFile(s) \/ WriteBlock(s) \/ SendAck(s)
               \/ WriteFails(s) \/ StreamEnds(s) \/ CleanupFile(s) \/ WriteReturns(s)
      PROVE PassedDurable'
  <2>1. UNCHANGED <<committed, batch, uncommitted>>
    BY <1>4, Zenon DEF ReceiveWrite, AcquireFile, WriteBlock, SendAck, WriteFails, StreamEnds, CleanupFile, WriteReturns
  <2>2. QED
    BY <1>3, <2>1
<1>5. ASSUME NEW h \in Handlers, SyncFile(h) \/ DropReference(h) PROVE PassedDurable'
  <2>1. UNCHANGED <<committed, batch, uncommitted>>
    BY <1>5, Zenon DEF SyncFile, DropReference
  <2>2. QED
    BY <1>3, <2>1
<1>6. ASSUME CommitReturns \/ ExitServer PROVE PassedDurable'
  <2>1. UNCHANGED <<committed, batch, uncommitted>>
    BY <1>6, Zenon DEF CommitReturns, ExitServer
  <2>2. QED
    BY <1>3, <2>1
<1>7. ASSUME ReceiveCommit \/ SendCommitted PROVE PassedDurable'
  <2>1. Passed' \subseteq Passed
    BY <1>7 DEF ReceiveCommit, SendCommitted, Passed
  <2>2. QED
    BY <1>2, <2>1
<1>8. ASSUME CommitFile PROVE PassedDurable'
  <2>1. PICK p \in Paths : CommitEffect(p)
    BY <1>8, CommitStep
  <2>2. /\ batch' = batch /\ committed' = committed /\ committer = "commit"
    BY <1>8 DEF CommitFile
  <2>3. p \in uncommitted /\ p \in asked /\ BlocksOf(p) \subseteq written
    BY Zenon, <2>1 DEF CommitEffect, DestTypes, BlockInv
  <2>4. CASE uncommitted' = uncommitted
    BY Zenon, <1>3, <2>2, <2>4
  <2>5. CASE uncommitted' = uncommitted \ {p}
    <3>1. Passed' \subseteq Passed \cup {p}
      BY <2>2, <2>5 DEF Passed
    <3>2. CASE p \in unsynced
      BY <1>2, <3>1, <3>2
    <3>3. CASE release[Committer] = NotReleasing /\ refCount[p] = 0 /\ p \notin unsynced
      <4>1. ~Stolen(p)
        BY Zenon, <2>2, <2>3, <3>3, NotReleasingStep, CommitterHandles DEF Stolen, Pending, In
      <4>2. Owners(p) = {}
        BY <3>3, <4>1, NobodyHolds DEF DestTypes
      <4>3. ~ \E s \in Streams : Owes(s, p)
        BY <4>2 DEF Owners, Owns, Owes, In
      <4>4. BlocksOf(p) \subseteq durable
        BY Zenon, <1>1, <2>3, <3>3, <4>1, <4>3 DEF SyncedOrOwed
      <4>5. QED
        BY Zenon, <1>2, <3>1, <4>4
    <3>4. CASE release[Committer].step = "end" /\ release[Committer].path = p /\ release[Committer].ok
      <4>1. BlocksOf(p) \subseteq durable
        BY <1>1, <3>4 DEF CommitSynced, In
      <4>2. QED
        BY <1>2, <3>1, <4>1
    <3>5. CASE Starts(Committer, p) /\ uncommitted' = uncommitted
      BY <1>3, <2>2, <3>5
    <3>6. QED
      BY Zenon, <2>1, <3>2, <3>3, <3>4, <3>5 DEF CommitEffect
  <2>6. QED
    BY Zenon, <2>1, <2>4, <2>5 DEF CommitEffect
<1>9. QED
  BY Zenon, <1>4, <1>5, <1>6, <1>7, <1>8 DEF DestNext

LEMMA CommitSyncedStep ==
  ASSUME DestTypes, ControlInv, BlockInv, ~early, CommitSynced, DestNext
  PROVE  CommitSynced'
<1>1. /\ Committer \in Handlers /\ Committer \notin Streams /\ durable \subseteq durable'
  BY DurableGrows, DestinationAssumption DEF Handlers
<1>2. ASSUME release'[Committer] = release[Committer] PROVE CommitSynced'
  BY <1>1, <1>2 DEF CommitSynced, In
<1>3. ASSUME release'[Committer].step \in {"none", "sync"} PROVE CommitSynced'
  BY <1>3 DEF CommitSynced, In
<1>4. ASSUME NEW s \in Streams, ReceiveWrite(s) \/ AcquireFile(s) \/ WriteBlock(s) \/ SendAck(s)
               \/ WriteFails(s) \/ StreamEnds(s) \/ WriteReturns(s)
      PROVE CommitSynced'
  <2>1. release' = release
    BY <1>4, Zenon DEF ReceiveWrite, AcquireFile, WriteBlock, SendAck, WriteFails, StreamEnds, WriteReturns
  <2>2. QED
    BY <1>2, <2>1
<1>5. ASSUME NEW s \in Streams, CleanupFile(s) PROVE CommitSynced'
  <2>1. \E p \in Paths : CleanupEffect(s, p)
    BY <1>5, CleanupStep
  <2>2. release'[Committer] = release[Committer]
    BY Zenon, <1>1, <2>1 DEF CleanupEffect, Starts, Moves
  <2>3. QED
    BY <1>2, <2>2
<1>6. ASSUME NEW h \in Handlers, SyncFile(h) PROVE CommitSynced'
  <2>1. /\ release[h] # NotReleasing /\ release'[h].path = release[h].path
        /\ \A g \in Handlers \ {h} : release'[g] = release[g]
        /\ SyncsOk(h) \/ SyncsNot(h)
    BY <1>6, SyncStep DEF Moves
  <2>2. CASE h # Committer
    BY ZenonT(30), <1>1, <1>2, <2>1, <2>2
  <2>3. CASE h = Committer
    <3>1. release[Committer].path \in asked
      BY <2>1, <2>3 DEF ControlInv, DestTypes
    <3>2. BlocksOf(release[Committer].path) \subseteq written
      BY ZenonT(30), <3>1 DEF BlockInv
    <3>3. CASE SyncsOk(h)
      <4>1. BlocksOf(release'[Committer].path) \subseteq durable'
        BY <2>1, <2>3, <3>2, <3>3 DEF SyncsOk
      <4>2. QED
        BY Zenon, <4>1 DEF CommitSynced, In
    <3>4. CASE SyncsNot(h)
      <4>1. release'[Committer].ok = FALSE
        BY Zenon, <2>3, <3>4 DEF SyncsNot
      <4>2. QED
        BY Zenon, <4>1 DEF CommitSynced
    <3>5. QED
      BY Zenon, <2>1, <3>3, <3>4
  <2>4. QED
    BY Zenon, <2>2, <2>3
<1>7. ASSUME NEW h \in Handlers, DropReference(h) PROVE CommitSynced'
  <2>1. /\ release[h].step \in {"guard", "own"}
        /\ release'[h].path = release[h].path /\ release'[h].ok = release[h].ok
        /\ \A g \in Handlers \ {h} : release'[g] = release[g]
    BY <1>7, DropStep DEF Moves
  <2>2. CASE h # Committer
    BY Zenon, <1>1, <1>2, <2>1, <2>2
  <2>3. CASE h = Committer
    BY <1>1, <2>1, <2>3 DEF CommitSynced, In
  <2>4. QED
    BY <2>2, <2>3
<1>8. ASSUME ReceiveCommit \/ SendCommitted \/ ExitServer PROVE CommitSynced'
  <2>1. release' = release
    BY <1>8, Zenon DEF ReceiveCommit, SendCommitted, ExitServer
  <2>2. QED
    BY <1>2, <2>1
<1>9. ASSUME CommitFile PROVE CommitSynced'
  <2>1. PICK p \in Paths : CommitEffect(p)
    BY <1>9, CommitStep
  <2>2. CASE Starts(Committer, p)
    BY <1>3, <2>2 DEF Starts, Moves
  <2>3. CASE release' = release
    BY <1>2, <2>3
  <2>4. CASE Moves(Committer, NotReleasing)
    BY <1>1, <1>3, <2>4, NotReleasingStep DEF Moves
  <2>5. QED
    BY Zenon, <2>1, <2>2, <2>3, <2>4 DEF CommitEffect
<1>10. ASSUME CommitReturns PROVE CommitSynced'
  BY Zenon, <1>1, <1>3, <1>10, ClearStep, NotReleasingStep DEF CommitReturns, Moves
<1>11. QED
  BY Zenon, <1>4, <1>5, <1>6, <1>7, <1>8, <1>9, <1>10 DEF DestNext

LEMMA DurableKept ==
  ASSUME DestTypes, ControlInv, BlockInv, CountInv, DurableInv, DestNext
  PROVE  DurableInv'
<1>1. SUFFICES ASSUME ~early' PROVE SyncedOrOwed' /\ PassedDurable' /\ CommitSynced'
  BY DEF DurableInv
<1>2. ~early
  BY <1>1, AskedGrows
<1>3. SyncedOrOwed /\ CommitSynced
  BY <1>2 DEF DurableInv
<1>4. QED
  BY <1>2, <1>3, OwedStep, PassedStep, CommitSyncedStep

(* A stream stays among the openers of a path.                             *)
LEMMA OpenersGrow ==
  ASSUME DestTypes, DestNext, NEW p \in Paths
  PROVE  Openers(p) \subseteq Openers(p)'
<1>1. writer \in [Streams -> {"recv", "write", "cleanup", "returned"}] /\ files \in [Streams -> [Paths -> Nat]]
  BY DEF DestTypes
<1>2. ASSUME files' = files,
             \A t \in Streams : writer[t] \in {"cleanup", "returned"} => writer'[t] \in {"cleanup", "returned"}
      PROVE  Openers(p) \subseteq Openers(p)'
  BY <1>2 DEF Openers
<1>3. ASSUME NEW s \in Streams, ReceiveWrite(s) \/ WriteBlock(s) \/ SendAck(s) \/ WriteFails(s)
                                \/ StreamEnds(s) \/ WriteReturns(s)
      PROVE  Openers(p) \subseteq Openers(p)'
  <2>1. /\ files' = files
        /\ \/ writer' = writer
           \/ writer[s] \in {"recv", "write"} /\ writer' = [writer EXCEPT ![s] = "write"]
           \/ writer[s] \in {"recv", "write"} /\ writer' = [writer EXCEPT ![s] = "recv"]
           \/ writer' = [writer EXCEPT ![s] = "cleanup"]
           \/ writer' = [writer EXCEPT ![s] = "returned"]
    BY Zenon, <1>3 DEF ReceiveWrite, WriteBlock, SendAck, WriteFails, StreamEnds, WriteReturns
  <2>2. \A t \in Streams : writer[t] \in {"cleanup", "returned"} => writer'[t] \in {"cleanup", "returned"}
    BY <1>1, <2>1
  <2>3. QED
    BY <1>2, <2>1, <2>2
<1>4. ASSUME NEW s \in Streams, AcquireFile(s) PROVE Openers(p) \subseteq Openers(p)'
  <2>1. PICK b \in Blocks : AcquireEffect(s, b)
    BY <1>4, AcquireStep
  <2>2. \A t \in Streams : files[t][p] # 0 => files'[t][p] # 0
    BY <2>1 DEF AcquireEffect, Keeps
  <2>3. writer' = writer
    BY <1>4 DEF AcquireFile
  <2>4. QED
    BY Zenon, <2>2, <2>3 DEF Openers
<1>5. ASSUME NEW s \in Streams, CleanupFile(s) PROVE Openers(p) \subseteq Openers(p)'
  <2>1. \E q \in Paths : CleanupEffect(s, q)
    BY <1>5, CleanupStep
  <2>2. \A t \in Streams \ {s} : files'[t][p] = files[t][p]
    BY <2>1 DEF CleanupEffect, Keeps
  <2>3. writer' = writer /\ writer[s] = "cleanup"
    BY <1>5 DEF CleanupFile
  <2>4. QED
    BY <2>2, <2>3 DEF Openers
<1>6. CASE \A s \in Streams : ~(\/ ReceiveWrite(s) \/ AcquireFile(s) \/ WriteBlock(s) \/ SendAck(s)
                                \/ WriteFails(s) \/ StreamEnds(s) \/ CleanupFile(s) \/ WriteReturns(s))
  <2>1. files' = files /\ writer' = writer
    BY <1>6, Zenon DEF DestNext, SyncFile, DropReference, ReceiveCommit, CommitFile, SendCommitted,
       CommitReturns, ExitServer
  <2>2. QED
    BY <1>2, <2>1
<1>7. QED
  BY <1>3, <1>4, <1>5, <1>6

LEMMA OpenersFinite ==
  ASSUME NEW p \in Paths
  PROVE  /\ IsFiniteSet(Openers(p)) /\ Cardinality(Openers(p)) \in Nat
         /\ Cardinality(Openers(p)) <= Cardinality(Streams)
<1>1. Openers(p) \subseteq Streams
  BY DEF Openers
<1>2. QED
  BY <1>1, FS_Subset, FS_CardinalityType, DestinationAssumption

LEMMA OpenedKept ==
  ASSUME DestTypes, DestTypes', ControlInv, OpenedInv, DestNext
  PROVE  OpenedInv'
<1> SUFFICES ASSUME NEW p \in Paths PROVE opened'[p] <= Cardinality(Openers(p)')
  BY Zenon DEF OpenedInv
<1>1. IsFiniteSet(Openers(p)')
  <2>1. Openers(p)' \subseteq Streams
    BY DEF Openers
  <2>2. QED
    BY <2>1, FS_Subset, DestinationAssumption
<1>2. /\ opened[p] \in Nat /\ opened[p] <= Cardinality(Openers(p)) /\ Cardinality(Openers(p)) \in Nat
      /\ Cardinality(Openers(p)) <= Cardinality(Openers(p)') /\ Cardinality(Openers(p)') \in Nat
  <2>1. opened[p] \in Nat /\ opened[p] <= Cardinality(Openers(p))
    BY DEF OpenedInv, DestTypes, CacheTypes
  <2>2. Openers(p) \subseteq Openers(p)'
    BY OpenersGrow
  <2>3. Cardinality(Openers(p)) <= Cardinality(Openers(p)')
    BY <1>1, <2>2, FS_Subset
  <2>4. QED
    BY Zenon, <1>1, <2>1, <2>3, OpenersFinite, FS_CardinalityType
<1>3. CASE \A s \in Streams : ~AcquireFile(s)
  <2>1. opened' = opened
    BY <1>3, HandleStep DEF HandlesStay
  <2>2. QED
    BY <1>2, <2>1
<1>4. ASSUME NEW s \in Streams, AcquireFile(s) PROVE opened'[p] <= Cardinality(Openers(p)')
  <2>1. PICK b \in Blocks : AcquireEffect(s, b)
    BY Zenon, <1>4, AcquireStep
  <2>2. CASE p # PathOf[b]
    BY <1>2, <2>1, <2>2 DEF AcquireEffect, OpensOrShares
  <2>3. CASE p = PathOf[b]
    <3>1. files[s][p] = 0 /\ files'[s][p] # 0 /\ opened'[p] <= opened[p] + 1
      BY <1>2, <2>1, <2>3 DEF AcquireEffect, OpensOrShares, Keeps, Handle
    <3>2. writer[s] = "write"
      BY <1>4 DEF AcquireFile
    <3>3. s \notin Openers(p) /\ s \in Openers(p)'
      BY <3>1, <3>2 DEF Openers
    <3>4. Openers(p) \cup {s} \subseteq Openers(p)'
      BY <3>3, OpenersGrow
    <3>5. Cardinality(Openers(p) \cup {s}) = Cardinality(Openers(p)) + 1
      BY <3>3, OneMore, OpenersFinite
    <3>6. Cardinality(Openers(p) \cup {s}) <= Cardinality(Openers(p)')
      BY <1>1, <3>4, FS_Subset
    <3>7. QED
      BY <1>2, <3>1, <3>5, <3>6 DEF DestTypes, CacheTypes
  <2>4. QED
    BY <2>2, <2>3
<1>5. QED
  BY <1>3, <1>4

LEMMA DestStarts ==
  ASSUME CacheInit, DestInit
  PROVE  DestInv
<1>1. DestTypes
  <2>1. NotReleasing \in ReleaseType
    BY DEF ReleaseType
  <2>2. QED
    BY Zenon, <2>1 DEF CacheInit, DestInit, DestTypes, CacheTypes
<1>2. ControlInv /\ BlockInv
  <2>1. \A h \in Handlers : release[h] = NotReleasing
    BY DEF DestInit
  <2>2. ControlInv
    BY <2>1 DEF DestInit, ControlInv, Handlers
  <2>3. BlockInv
    BY DEF DestInit, BlockInv
  <2>4. QED
    BY <2>2, <2>3
<1>3. \A h \in Handlers : release[h].step = "none"
  BY <1>1, NotReleasingStep DEF DestInit
<1>4. \A p \in Paths : Owners(p) = {} /\ Guardians(p) = {} /\ refCount[p] = 0 /\ opened[p] = 0
  BY Zenon, <1>3 DEF CacheInit, DestInit, Owners, Owns, Guardians, In
<1>5. CountInv
  <2>1. ASSUME NEW p \in Paths PROVE Refs(p) = 0 /\ refCount[p] = 0
    <3>1. Owners(p) = {} /\ Guardians(p) = {} /\ refCount[p] = 0
      BY <1>4
    <3>2. QED
      BY <3>1, FS_EmptySet DEF Refs
  <2>2. SUFFICES ASSUME NEW p \in Paths
                 PROVE  refCount[p] <= Refs(p) /\ Refs(p) <= refCount[p] + (IF Stolen(p) THEN 1 ELSE 0)
    BY Zenon DEF CountInv
  <2>3. QED
    BY <2>1
<1>6. HandleInv
  BY <1>3 DEF DestInit, HandleInv, Owns
<1>7. DurableInv
  BY <1>3, CommitterHandles DEF DestInit, DurableInv, SyncedOrOwed, PassedDurable, Passed, CommitSynced, In
<1>8. OpenedInv
  <2>1. ASSUME NEW p \in Paths PROVE opened[p] <= Cardinality(Openers(p))
    <3>1. Cardinality(Openers(p)) \in Nat /\ opened[p] = 0
      BY Zenon, <1>4, OpenersFinite
    <3>2. QED
      BY <3>1
  <2>2. QED
    BY Zenon, <2>1 DEF OpenedInv
<1>9. QED
  BY <1>1, <1>2, <1>5, <1>6, <1>7, <1>8 DEF DestInv

LEMMA DestKept ==
  ASSUME DestInv, DestNext
  PROVE  DestInv'
<1>1. DestTypes /\ ControlInv /\ BlockInv /\ CountInv /\ HandleInv /\ DurableInv /\ OpenedInv
  BY DEF DestInv
<1>2. DestTypes'
  BY <1>1, DestTypesKept
<1>3. QED
  BY Zenon, <1>1, <1>2, ControlKept, BlockKept, CountKept, HandleKept, DurableKept, OpenedKept DEF DestInv

-----------------------------------------------------------------------------
(* The invariant of the source                                             *)

SourceTypes ==
  /\ CacheTypes
  /\ acquired \subseteq Paths /\ closed \subseteq Paths
  /\ closing \in closed \cup {NoFile}
  /\ reader \in [Readers -> {"idle", "acquired", "extra", "read", "returned", "closed"}]
  /\ chunk \in [Readers -> Chunks \cup {NoChunk}]
  /\ handle \in [Readers -> Nat]
  /\ unread \subseteq Chunks /\ read \subseteq Chunks
  /\ hasty \in BOOLEAN

Busy(r) == reader[r] \in {"acquired", "extra", "read"}
FileOfReader(r) == FileOf[chunk[r]]

(* The readers that hold a reference of their own.                         *)
Holders(p) == {r \in Readers : reader[r] \in {"acquired", "extra"} /\ FileOfReader(r) = p}

(* A chunk is waiting, with one reader, or read.                           *)
ChunkInv ==
  /\ unread \cap read = {}
  /\ \A r \in Readers : Busy(r) => chunk[r] \in Chunks \ (unread \cup read)
  /\ \A r, s \in Readers : r # s /\ Busy(r) /\ Busy(s) => chunk[r] # chunk[s]

One(b) == IF b THEN 1 ELSE 0

(* The references of p that are taken: theirs and the one that is kept.    *)
Held(p) == Cardinality(Holders(p)) + One(p \in acquired)

(* The count is at most those and the one that CloseFile gives back.       *)
SourceUpper == \A p \in Paths : refCount[p] <= Held(p) + One(closing = p)

(* As long as no file is closed early the count is exact, what is being    *)
(* read is kept, and a closed file is not used any more.                   *)
CountExact ==
  \A p \in Paths \ closed : refCount[p] = Held(p) \/ \A r \in Readers : reader[r] = "closed"
ClosedRead == \A p \in closed : ChunksOf(p) \subseteq read /\ p \notin acquired
KeptWhileRead == \A r \in Readers : reader[r] \in {"extra", "read"} => FileOfReader(r) \in acquired
HandleOfEntry == \A r \in Readers : Busy(r) => handle[r] = opened[FileOfReader(r)]
SourceExact == ~hasty => CountExact /\ ClosedRead /\ KeptWhileRead /\ HandleOfEntry

SourceOpened == \A p \in Paths : opened[p] <= Cardinality(Chunks \ unread)

SourceInv == SourceTypes /\ ChunkInv /\ SourceUpper /\ SourceExact /\ SourceOpened

-----------------------------------------------------------------------------
(* Steps of the source, point by point                                     *)

(* Worker r goes to x with chunk c; the others stay.                       *)
Goes(r, x, c) ==
  /\ reader' \in [Readers -> {"idle", "acquired", "extra", "read", "returned", "closed"}]
  /\ chunk' \in [Readers -> Chunks \cup {NoChunk}]
  /\ reader'[r] = x /\ chunk'[r] = c
  /\ \A t \in Readers \ {r} : reader'[t] = reader[t] /\ chunk'[t] = chunk[t]

LEMMA GoesStep ==
  ASSUME SourceTypes, NEW r \in Readers,
         NEW x \in {"idle", "acquired", "extra", "read", "returned", "closed"},
         reader' = [reader EXCEPT ![r] = x],
         NEW c \in Chunks \cup {NoChunk},
         \/ chunk' = [chunk EXCEPT ![r] = c]
         \/ chunk' = chunk /\ c = chunk[r]
  PROVE  Goes(r, x, c)
<1>1. /\ reader \in [Readers -> {"idle", "acquired", "extra", "read", "returned", "closed"}]
      /\ chunk \in [Readers -> Chunks \cup {NoChunk}]
  BY DEF SourceTypes
<1>2. /\ reader' \in [Readers -> {"idle", "acquired", "extra", "read", "returned", "closed"}]
      /\ reader'[r] = x /\ \A t \in Readers \ {r} : reader'[t] = reader[t]
  BY <1>1
<1>3. /\ chunk' \in [Readers -> Chunks \cup {NoChunk}]
      /\ chunk'[r] = c /\ \A t \in Readers \ {r} : chunk'[t] = chunk[t]
  BY <1>1
<1>4. QED
  BY <1>2, <1>3 DEF Goes

LEMMA BusyChunk ==
  ASSUME SourceTypes, ChunkInv, NEW r \in Readers, Busy(r)
  PROVE  /\ chunk[r] \in Chunks /\ chunk[r] \notin unread /\ chunk[r] \notin read
         /\ FileOfReader(r) \in Paths /\ chunk[r] \in ChunksOf(FileOfReader(r))
<1>1. chunk[r] \in Chunks /\ chunk[r] \notin unread /\ chunk[r] \notin read
  BY DEF ChunkInv
<1>2. FileOfReader(r) \in Paths
  BY Zenon, <1>1, SourceAssumption DEF FileOfReader
<1>3. QED
  BY <1>1, <1>2 DEF FileOfReader, ChunksOf

ReadAcquireEffect(r, c) ==
  /\ c \in Chunks /\ c \in unread /\ FileOf[c] \in Paths /\ reader[r] = "idle"
  /\ unread' = unread \ {c}
  /\ Goes(r, "acquired", c)
  /\ OpensOrShares(FileOf[c])
  /\ handle' \in [Readers -> Nat] /\ handle'[r] = Handle(FileOf[c])
  /\ \A t \in Readers \ {r} : handle'[t] = handle[t]

LEMMA ReadAcquireStep ==
  ASSUME SourceTypes, NEW r \in Readers, ReadAcquire(r)
  PROVE  \E c \in Chunks : ReadAcquireEffect(r, c)
<1>1. PICK c \in unread : /\ unread' = unread \ {c}
                          /\ chunk' = [chunk EXCEPT ![r] = c]
                          /\ Acquire(FileOf[c])
                          /\ handle' = [handle EXCEPT ![r] = Handle(FileOf[c])]
  BY Zenon DEF ReadAcquire
<1>2. c \in Chunks /\ FileOf[c] \in Paths
  BY Zenon, SourceAssumption DEF SourceTypes
<1>3. OpensOrShares(FileOf[c]) /\ Handle(FileOf[c]) \in Nat
  <2>1. Handle(FileOf[c]) \in Nat /\ Handle(FileOf[c]) > 0
    BY <1>2 DEF SourceTypes, CacheTypes, Handle, HasEntry
  <2>2. QED
    BY <1>1, <1>2, <2>1 DEF SourceTypes, CacheTypes, Acquire, OpensOrShares, CountsUp
<1>4. Goes(r, "acquired", c)
  BY ZenonT(30), <1>1, <1>2, GoesStep DEF ReadAcquire
<1>5. handle \in [Readers -> Nat]
  BY DEF SourceTypes
<1>6. /\ handle' \in [Readers -> Nat] /\ handle'[r] = Handle(FileOf[c])
      /\ \A t \in Readers \ {r} : handle'[t] = handle[t]
  BY Zenon, <1>1, <1>3, <1>5
<1>7. QED
  BY <1>1, <1>2, <1>3, <1>4, <1>6 DEF ReadAcquireEffect, ReadAcquire

LEMMA LoadStep ==
  ASSUME SourceTypes, ChunkInv, NEW r \in Readers, LoadOrStore(r), NEW p \in Paths, p = FileOfReader(r)
  PROVE  /\ reader[r] = "acquired" /\ acquired' = acquired \cup {p} /\ SameCache
         /\ Goes(r, IF p \in acquired THEN "extra" ELSE "read", chunk[r])
<1>1. chunk[r] \in Chunks
  BY BusyChunk DEF LoadOrStore, Busy
<1>2. Goes(r, IF p \in acquired THEN "extra" ELSE "read", chunk[r])
  BY ZenonT(30), <1>1, GoesStep DEF LoadOrStore, FileOfReader
<1>3. QED
  BY <1>2 DEF LoadOrStore, FileOfReader, SameCache, cacheVars

LEMMA ExtraStep ==
  ASSUME SourceTypes, ChunkInv, NEW r \in Readers, ReleaseExtra(r), NEW p \in Paths, p = FileOfReader(r)
  PROVE  /\ reader[r] = "extra" /\ CountsDown(p) /\ opened' = opened
         /\ Goes(r, "read", chunk[r])
<1>1. chunk[r] \in Chunks
  BY BusyChunk DEF ReleaseExtra, Busy
<1>2. Goes(r, "read", chunk[r])
  BY ZenonT(30), <1>1, GoesStep DEF ReleaseExtra
<1>3. CountsDown(p) /\ opened' = opened
  BY DEF ReleaseExtra, Release, CountsDown, FileOfReader, SourceTypes, CacheTypes
<1>4. QED
  BY ZenonT(30), <1>2, <1>3 DEF ReleaseExtra

LEMMA ReadStep ==
  ASSUME SourceTypes, ChunkInv, NEW r \in Readers, ReadFile(r)
  PROVE  /\ reader[r] = "read" /\ Goes(r, "idle", NoChunk) /\ read' = read \cup {chunk[r]}
         /\ handle' \in [Readers -> Nat] /\ \A t \in Readers \ {r} : handle'[t] = handle[t]
<1>1. Goes(r, "idle", NoChunk)
  BY Zenon, GoesStep DEF ReadFile
<1>2. handle \in [Readers -> Nat]
  BY DEF SourceTypes
<1>3. handle' \in [Readers -> Nat] /\ \A t \in Readers \ {r} : handle'[t] = handle[t]
  BY Zenon, <1>2 DEF ReadFile
<1>4. QED
  BY Zenon, <1>1, <1>3 DEF ReadFile

LEMMA LeaveStep ==
  ASSUME SourceTypes, NEW r \in Readers, ReadFails(r) \/ ReaderReturns(r)
  PROVE  reader[r] \in {"idle", "read"} /\ Goes(r, "returned", chunk[r])
<1>1. chunk[r] \in Chunks \cup {NoChunk}
  BY DEF SourceTypes
<1>2. Goes(r, "returned", chunk[r])
  BY <1>1, GoesStep DEF ReadFails, ReaderReturns
<1>3. QED
  BY <1>2 DEF ReadFails, ReaderReturns

LEMMA ReleaseFileStep ==
  ASSUME SourceTypes, ReleaseFile
  PROVE  closing \in closed /\ closing \in Paths /\ CountsDown(closing) /\ opened' = opened
<1>1. closing \in closed /\ closing \in Paths
  BY DEF SourceTypes, ReleaseFile
<1>2. CountsDown(closing) /\ opened' = opened
  BY <1>1 DEF ReleaseFile, Release, CountsDown, SourceTypes, CacheTypes
<1>3. QED
  BY <1>1, <1>2

-----------------------------------------------------------------------------
(* Types and chunks of the source                                          *)

LEMMA SourceTypesKept ==
  ASSUME SourceTypes, ChunkInv, SourceNext
  PROVE  SourceTypes'
<1>1. CacheTypes
  BY Zenon DEF SourceTypes
<1>2. ASSUME NEW r \in Readers, ReadAcquire(r) PROVE SourceTypes'
  <2>1. PICK c \in Chunks : ReadAcquireEffect(r, c)
    BY Zenon, <1>2, ReadAcquireStep
  <2>2. CacheTypes'
    BY Zenon, <1>1, <2>1 DEF ReadAcquireEffect, OpensOrShares, CountsUp, CacheTypes
  <2>3. QED
    BY <1>2, <2>1, <2>2 DEF ReadAcquire, ReadAcquireEffect, Goes, SourceTypes
<1>3. ASSUME NEW r \in Readers, LoadOrStore(r) PROVE SourceTypes'
  <2>1. PICK p \in Paths : p = FileOfReader(r)
    BY ZenonT(30), <1>3, BusyChunk DEF LoadOrStore, Busy
  <2>2. acquired' = acquired \cup {p} /\ SameCache /\ Goes(r, IF p \in acquired THEN "extra" ELSE "read", chunk[r])
    BY ZenonT(30), <1>3, <2>1, LoadStep
  <2>3. CacheTypes'
    BY <1>1, <2>2 DEF SameCache, CacheTypes
  <2>4. QED
    BY <1>3, <2>2, <2>3 DEF LoadOrStore, Goes, SourceTypes
<1>4. ASSUME NEW r \in Readers, ReleaseExtra(r) PROVE SourceTypes'
  <2>1. PICK p \in Paths : p = FileOfReader(r)
    BY ZenonT(30), <1>4, BusyChunk DEF ReleaseExtra, Busy
  <2>2. CountsDown(p) /\ opened' = opened /\ Goes(r, "read", chunk[r])
    BY Zenon, <1>4, <2>1, ExtraStep
  <2>3. CacheTypes'
    BY <1>1, <2>2 DEF CountsDown, CacheTypes
  <2>4. QED
    BY Zenon, <1>4, <2>2, <2>3 DEF ReleaseExtra, Goes, SourceTypes
<1>5. ASSUME NEW r \in Readers, ReadFile(r) PROVE SourceTypes'
  <2>1. chunk[r] \in Chunks
    BY <1>5, BusyChunk DEF ReadFile, Busy
  <2>2. CacheTypes'
    BY Zenon, <1>1, <1>5 DEF ReadFile, CacheTypes, cacheVars
  <2>3. QED
    BY ZenonT(30), <1>5, <2>1, <2>2, ReadStep DEF ReadFile, Goes, SourceTypes
<1>6. ASSUME NEW r \in Readers, ReadFails(r) \/ ReaderReturns(r) PROVE SourceTypes'
  <2>1. Goes(r, "returned", chunk[r])
    BY Zenon, <1>6, LeaveStep
  <2>2. UNCHANGED <<cacheVars, acquired, handle, unread, read, closing, closed, hasty>>
    BY <1>6 DEF ReadFails, ReaderReturns
  <2>3. CacheTypes'
    BY Zenon, <1>1, <2>2 DEF CacheTypes, cacheVars
  <2>4. QED
    BY Zenon, <2>1, <2>2, <2>3 DEF Goes, SourceTypes
<1>7. ASSUME ForgetFile PROVE SourceTypes'
  BY Zenon, <1>7 DEF ForgetFile, SourceTypes, CacheTypes, cacheVars
<1>8. ASSUME ReleaseFile PROVE SourceTypes'
  <2>1. CacheTypes'
    BY <1>1, <1>8, ReleaseFileStep DEF CountsDown, CacheTypes
  <2>2. QED
    BY Zenon, <1>8, <2>1 DEF ReleaseFile, SourceTypes
<1>9. ASSUME CloseReader PROVE SourceTypes'
  BY <1>9 DEF CloseReader, CloseAll, SourceTypes, CacheTypes
<1>10. QED
  BY Zenon, <1>2, <1>3, <1>4, <1>5, <1>6, <1>7, <1>8, <1>9 DEF SourceNext

LEMMA ChunkKept ==
  ASSUME SourceTypes, ChunkInv, SourceNext
  PROVE  ChunkInv'
<1>1. /\ unread \cap read = {} /\ unread \subseteq Chunks
      /\ \A r \in Readers : Busy(r) => chunk[r] \in Chunks \ (unread \cup read)
      /\ \A r, s \in Readers : r # s /\ Busy(r) /\ Busy(s) => chunk[r] # chunk[s]
  BY DEF ChunkInv, SourceTypes
<1>2. ASSUME NEW r \in Readers, ReadAcquire(r) PROVE ChunkInv'
  <2>1. PICK c \in Chunks : ReadAcquireEffect(r, c)
    BY <1>2, ReadAcquireStep
  <2>2. /\ c \in unread /\ unread' = unread \ {c} /\ chunk'[r] = c
        /\ \A t \in Readers \ {r} : reader'[t] = reader[t] /\ chunk'[t] = chunk[t]
    BY Zenon, <2>1 DEF ReadAcquireEffect, Goes
  <2>3. read' = read
    BY Zenon, <1>2 DEF ReadAcquire
  <2>4. \A t \in Readers \ {r} : (Busy(t)' <=> Busy(t))
    BY <2>2 DEF Busy
  <2>5. \A t \in Readers : Busy(t)' => chunk'[t] \in Chunks \ (unread' \cup read')
    BY Zenon, <1>1, <2>2, <2>3, <2>4
  <2>6. \A t, s \in Readers : t # s /\ Busy(t)' /\ Busy(s)' => chunk'[t] # chunk'[s]
    BY <1>1, <2>2, <2>4
  <2>7. QED
    BY ZenonT(30), <1>1, <2>2, <2>3, <2>5, <2>6 DEF ChunkInv
<1>3. ASSUME NEW r \in Readers, NEW x, Goes(r, x, chunk[r]), unread' = unread, read' = read,
             Busy(r) \/ x = "returned"
      PROVE  ChunkInv'
  <2>1. \A t \in Readers : chunk'[t] = chunk[t] /\ (Busy(t)' => Busy(t))
    BY <1>3 DEF Goes, Busy
  <2>2. QED
    BY ZenonT(30), <1>1, <1>3, <2>1 DEF ChunkInv
<1>4. ASSUME NEW r \in Readers, LoadOrStore(r) PROVE ChunkInv'
  <2>1. PICK p \in Paths : p = FileOfReader(r)
    BY Zenon, <1>4, BusyChunk DEF LoadOrStore, Busy
  <2>2. QED
    BY ZenonT(30), <1>3, <1>4, <2>1, LoadStep DEF LoadOrStore, Busy
<1>5. ASSUME NEW r \in Readers, ReleaseExtra(r) PROVE ChunkInv'
  <2>1. PICK p \in Paths : p = FileOfReader(r)
    BY <1>5, BusyChunk DEF ReleaseExtra, Busy
  <2>2. QED
    BY ZenonT(30), <1>3, <1>5, <2>1, ExtraStep DEF ReleaseExtra, Busy
<1>6. ASSUME NEW r \in Readers, ReadFile(r) PROVE ChunkInv'
  <2>1. /\ Busy(r) /\ reader'[r] = "idle" /\ read' = read \cup {chunk[r]}
        /\ \A t \in Readers \ {r} : reader'[t] = reader[t] /\ chunk'[t] = chunk[t]
    BY ZenonT(30), <1>6, ReadStep DEF Goes, Busy
  <2>2. unread' = unread
    BY <1>6 DEF ReadFile
  <2>3. ~Busy(r)' /\ \A t \in Readers \ {r} : (Busy(t)' <=> Busy(t))
    BY <2>1 DEF Busy
  <2>4. chunk[r] \notin unread
    BY Zenon, <1>1, <2>1
  <2>5. \A t \in Readers : Busy(t)' => chunk'[t] \in Chunks \ (unread' \cup read')
    BY Zenon, <1>1, <2>1, <2>2, <2>3
  <2>6. \A t, s \in Readers : t # s /\ Busy(t)' /\ Busy(s)' => chunk'[t] # chunk'[s]
    BY Zenon, <1>1, <2>1, <2>3
  <2>7. QED
    BY ZenonT(30), <1>1, <2>1, <2>2, <2>4, <2>5, <2>6 DEF ChunkInv
<1>7. ASSUME NEW r \in Readers, ReadFails(r) \/ ReaderReturns(r) PROVE ChunkInv'
  BY Zenon, <1>3, <1>7, LeaveStep DEF ReadFails, ReaderReturns
<1>8. ASSUME ForgetFile \/ ReleaseFile PROVE ChunkInv'
  BY ZenonT(30), <1>8 DEF ForgetFile, ReleaseFile, ChunkInv, Busy
<1>9. ASSUME CloseReader PROVE ChunkInv'
  <2>1. \A r \in Readers : ~Busy(r)'
    BY Zenon, <1>9 DEF CloseReader, Busy
  <2>2. QED
    BY Zenon, <1>1, <1>9, <2>1 DEF CloseReader, ChunkInv
<1>10. QED
  BY Zenon, <1>2, <1>4, <1>5, <1>6, <1>7, <1>8, <1>9 DEF SourceNext

-----------------------------------------------------------------------------
(* References of the source                                                *)

LEMMA HeldIsNumber ==
  ASSUME NEW p \in Paths
  PROVE  /\ IsFiniteSet(Holders(p)) /\ Cardinality(Holders(p)) \in Nat
         /\ Cardinality(Holders(p)) <= Cardinality(Readers)
         /\ Held(p) \in Nat
<1>1. Holders(p) \subseteq Readers
  BY DEF Holders
<1>2. /\ IsFiniteSet(Holders(p)) /\ Cardinality(Holders(p)) \in Nat
      /\ Cardinality(Holders(p)) <= Cardinality(Readers)
  BY Zenon, <1>1, FS_Subset, FS_CardinalityType, SourceAssumption
<1>3. QED
  BY <1>2 DEF Held, One

LEMMA HoldersMove ==
  ASSUME NEW r \in Readers, NEW x, NEW c, Goes(r, x, c), NEW p \in Paths
  PROVE  /\ Holders(p)' \ {r} = Holders(p) \ {r}
         /\ r \in Holders(p)' <=> x \in {"acquired", "extra"} /\ FileOf[c] = p
         /\ r \in Holders(p) <=> reader[r] \in {"acquired", "extra"} /\ FileOfReader(r) = p
<1>1. \A t \in Readers \ {r} : reader'[t] = reader[t] /\ FileOfReader(t)' = FileOfReader(t)
  BY ZenonT(30) DEF Goes, FileOfReader
<1>2. reader'[r] = x /\ FileOfReader(r)' = FileOf[c]
  BY Zenon DEF Goes, FileOfReader
<1>3. Holders(p)' \ {r} = Holders(p) \ {r}
  BY <1>1 DEF Holders
<1>4. QED
  BY ZenonT(30), <1>2, <1>3 DEF Holders

LEMMA HeldAcquire ==
  ASSUME SourceTypes, NEW r \in Readers, NEW c \in Chunks, ReadAcquireEffect(r, c), acquired' = acquired,
         NEW p \in Paths
  PROVE  Held(p)' = (IF p = FileOf[c] THEN Held(p) + 1 ELSE Held(p))
<1>1. Goes(r, "acquired", c) /\ reader[r] = "idle"
  BY Zenon DEF ReadAcquireEffect
<1>2. /\ Holders(p)' \ {r} = Holders(p) \ {r} /\ r \notin Holders(p)
      /\ r \in Holders(p)' <=> FileOf[c] = p
  BY <1>1, HoldersMove
<1>3. CASE p = FileOf[c]
  <2>1. Holders(p)' = Holders(p) \cup {r}
    BY <1>2, <1>3
  <2>2. Cardinality(Holders(p)') = Cardinality(Holders(p)) + 1
    BY Zenon, <1>2, <2>1, HeldIsNumber, FS_AddElement
  <2>3. QED
    BY <1>3, <2>2, HeldIsNumber DEF Held, One
<1>4. CASE p # FileOf[c]
  <2>1. Holders(p)' = Holders(p)
    BY <1>2, <1>4
  <2>2. QED
    BY <1>4, <2>1 DEF Held
<1>5. QED
  BY <1>3, <1>4

LEMMA HeldLoad ==
  ASSUME SourceTypes, ChunkInv, NEW r \in Readers, LoadOrStore(r), NEW p \in Paths
  PROVE  Held(p)' = Held(p)
<1>1. PICK f \in Paths : f = FileOfReader(r)
  BY BusyChunk DEF LoadOrStore, Busy
<1>2. /\ reader[r] = "acquired" /\ acquired' = acquired \cup {f}
      /\ Goes(r, IF f \in acquired THEN "extra" ELSE "read", chunk[r])
  BY ZenonT(30), <1>1, LoadStep
<1>3. Holders(p)' \ {r} = Holders(p) \ {r}
  BY ZenonT(30), <1>2, HoldersMove
<1>4. FileOf[chunk[r]] = f
  BY <1>1 DEF FileOfReader
<1>5. CASE f \in acquired \/ p # f
  <2>1. r \in Holders(p)' <=> r \in Holders(p)
    <3>1. CASE f \in acquired
      <4>1. Goes(r, "extra", chunk[r])
        BY Zenon, <1>2, <3>1
      <4>2. QED
        BY <1>1, <1>2, <1>4, <4>1, HoldersMove
    <3>2. CASE f \notin acquired /\ p # f
      <4>1. Goes(r, "read", chunk[r])
        BY <1>2, <3>2
      <4>2. QED
        BY Zenon, <1>1, <1>4, <3>2, <4>1, HoldersMove
    <3>3. QED
      BY Zenon, <1>5, <3>1, <3>2
  <2>2. Holders(p)' = Holders(p)
    BY <1>3, <2>1
  <2>3. p \in acquired' <=> p \in acquired
    BY Zenon, <1>2, <1>5
  <2>4. QED
    BY <2>2, <2>3 DEF Held, One
<1>6. CASE f \notin acquired /\ p = f
  <2>1. Goes(r, "read", chunk[r])
    BY Zenon, <1>2, <1>6
  <2>2. r \notin Holders(p)' /\ r \in Holders(p)
    BY Zenon, <1>1, <1>2, <1>6, <2>1, HoldersMove
  <2>3. Holders(p)' = Holders(p) \ {r}
    BY <1>3, <2>2
  <2>4. Cardinality(Holders(p)') = Cardinality(Holders(p)) - 1
    BY Zenon, <2>2, <2>3, HeldIsNumber, FS_RemoveElement
  <2>5. p \in acquired' /\ p \notin acquired
    BY Zenon, <1>2, <1>6
  <2>6. QED
    BY <2>4, <2>5, HeldIsNumber DEF Held, One
<1>7. QED
  BY Zenon, <1>5, <1>6

LEMMA HeldExtra ==
  ASSUME SourceTypes, ChunkInv, NEW r \in Readers, ReleaseExtra(r), NEW f \in Paths, f = FileOfReader(r),
         NEW p \in Paths
  PROVE  /\ Held(p)' = (IF p = f THEN Held(p) - 1 ELSE Held(p))
         /\ p = f => Held(p) > 0
<1>1. Goes(r, "read", chunk[r]) /\ reader[r] = "extra" /\ acquired' = acquired
  BY ZenonT(30), ExtraStep DEF ReleaseExtra
<1>2. /\ Holders(p)' \ {r} = Holders(p) \ {r} /\ r \notin Holders(p)'
      /\ r \in Holders(p) <=> p = f
  BY <1>1, HoldersMove
<1>3. CASE p = f
  <2>1. Holders(p)' = Holders(p) \ {r}
    BY Zenon, <1>2
  <2>2. Cardinality(Holders(p)') = Cardinality(Holders(p)) - 1 /\ Cardinality(Holders(p)) > 0
    <3>1. IsFiniteSet(Holders(p)) /\ r \in Holders(p) /\ Cardinality(Holders(p)) \in Nat
      BY <1>2, <1>3, HeldIsNumber
    <3>2. Cardinality(Holders(p)') = Cardinality(Holders(p)) - 1
      BY Zenon, <2>1, <3>1, FS_RemoveElement
    <3>3. Cardinality(Holders(p)) # 0
      BY Zenon, <3>1, FS_EmptySet
    <3>4. QED
      BY <3>1, <3>2, <3>3
  <2>3. QED
    BY <1>1, <1>3, <2>2, HeldIsNumber DEF Held, One
<1>4. CASE p # f
  <2>1. Holders(p)' = Holders(p)
    BY <1>2, <1>4
  <2>2. QED
    BY Zenon, <1>1, <1>4, <2>1 DEF Held
<1>5. QED
  BY <1>3, <1>4

LEMMA HeldSame ==
  ASSUME SourceTypes, ChunkInv, acquired' = acquired, NEW p \in Paths,
         \/ \E r \in Readers : ReadFile(r) \/ ReadFails(r) \/ ReaderReturns(r)
         \/ reader' = reader /\ chunk' = chunk
  PROVE  Held(p)' = Held(p)
<1>1. ASSUME NEW r \in Readers, ReadFile(r) \/ ReadFails(r) \/ ReaderReturns(r)
      PROVE  Holders(p)' = Holders(p)
  <2>1. reader[r] \in {"idle", "read"} /\ (Goes(r, "idle", NoChunk) \/ Goes(r, "returned", chunk[r]))
    BY ZenonT(30), <1>1, ReadStep, LeaveStep
  <2>2. Holders(p)' \ {r} = Holders(p) \ {r} /\ r \notin Holders(p)' /\ r \notin Holders(p)
    <3>1. CASE Goes(r, "idle", NoChunk)
      BY ZenonT(30), <2>1, <3>1, HoldersMove
    <3>2. CASE Goes(r, "returned", chunk[r])
      BY <2>1, <3>2, HoldersMove
    <3>3. QED
      BY ZenonT(30), <2>1, <3>1, <3>2
  <2>3. QED
    BY <2>2
<1>2. CASE reader' = reader /\ chunk' = chunk
  BY <1>2 DEF Held, Holders, FileOfReader
<1>3. QED
  BY Zenon, <1>1, <1>2 DEF Held

LEMMA UpperKept ==
  ASSUME SourceTypes, ChunkInv, SourceUpper, SourceNext
  PROVE  SourceUpper'
<1> SUFFICES ASSUME NEW p \in Paths PROVE refCount'[p] <= Held(p)' + One(closing = p)'
  BY Zenon DEF SourceUpper
<1>1. refCount[p] \in Nat /\ Held(p) \in Nat /\ refCount[p] <= Held(p) + One(closing = p)
  BY Zenon, HeldIsNumber DEF SourceUpper, SourceTypes, CacheTypes
<1>2. ASSUME NEW r \in Readers, ReadAcquire(r) PROVE refCount'[p] <= Held(p)' + One(closing = p)'
  <2>1. PICK c \in Chunks : ReadAcquireEffect(r, c)
    BY Zenon, <1>2, ReadAcquireStep
  <2>2. Held(p)' = (IF p = FileOf[c] THEN Held(p) + 1 ELSE Held(p)) /\ closing' = closing
    BY <1>2, <2>1, HeldAcquire DEF ReadAcquire
  <2>3. refCount'[p] = (IF p = FileOf[c] THEN refCount[p] + 1 ELSE refCount[p])
    BY Zenon, <2>1 DEF ReadAcquireEffect, OpensOrShares, CountsUp
  <2>4. QED
    BY <1>1, <2>2, <2>3 DEF One
<1>3. ASSUME NEW r \in Readers, LoadOrStore(r) PROVE refCount'[p] <= Held(p)' + One(closing = p)'
  <2>1. Held(p)' = Held(p) /\ refCount' = refCount /\ closing' = closing
    BY ZenonT(30), <1>3, HeldLoad DEF LoadOrStore, cacheVars
  <2>2. QED
    BY <1>1, <2>1 DEF One
<1>4. ASSUME NEW r \in Readers, ReleaseExtra(r) PROVE refCount'[p] <= Held(p)' + One(closing = p)'
  <2>1. PICK f \in Paths : f = FileOfReader(r)
    BY <1>4, BusyChunk DEF ReleaseExtra, Busy
  <2>2. CountsDown(f) /\ closing' = closing
    BY ZenonT(30), <1>4, <2>1, ExtraStep DEF ReleaseExtra
  <2>3. Held(p)' = (IF p = f THEN Held(p) - 1 ELSE Held(p)) /\ (p = f => Held(p) > 0)
    BY Zenon, <1>4, <2>1, HeldExtra
  <2>4. refCount'[p] = (IF p = f /\ refCount[p] > 0 THEN refCount[p] - 1 ELSE refCount[p])
    BY <1>1, <2>2 DEF CountsDown
  <2>5. QED
    BY <1>1, <2>2, <2>3, <2>4 DEF One
<1>5. ASSUME NEW r \in Readers, ReadFile(r) \/ ReadFails(r) \/ ReaderReturns(r)
      PROVE  refCount'[p] <= Held(p)' + One(closing = p)'
  <2>1. acquired' = acquired /\ refCount' = refCount /\ closing' = closing
    BY <1>5 DEF ReadFile, ReadFails, ReaderReturns, cacheVars
  <2>2. Held(p)' = Held(p)
    BY Zenon, <1>5, <2>1, HeldSame
  <2>3. QED
    BY Zenon, <1>1, <2>1, <2>2 DEF One
<1>6. ASSUME ForgetFile PROVE refCount'[p] <= Held(p)' + One(closing = p)'
  <2>1. PICK f \in Paths \ closed : closing' = f /\ acquired' = acquired \ {f}
    BY <1>6 DEF ForgetFile
  <2>2. reader' = reader /\ chunk' = chunk /\ refCount' = refCount /\ closing = NoFile
    BY <1>6 DEF ForgetFile, cacheVars
  <2>3. Holders(p)' = Holders(p)
    BY <2>2 DEF Holders, FileOfReader
  <2>4. One(closing = p) = 0
    BY <2>2, SourceAssumption DEF One
  <2>5. One(p \in acquired) <= One(p \in acquired)' + One(closing = p)'
    BY <2>1 DEF One
  <2>6. One(p \in acquired) \in Nat /\ One(p \in acquired)' \in Nat /\ One(closing = p)' \in Nat
    BY DEF One
  <2>7. Cardinality(Holders(p)) \in Nat
    BY Zenon, HeldIsNumber
  <2>8. QED
    BY <1>1, <2>2, <2>3, <2>4, <2>5, <2>6, <2>7 DEF Held
<1>7. ASSUME ReleaseFile PROVE refCount'[p] <= Held(p)' + One(closing = p)'
  <2>1. acquired' = acquired /\ reader' = reader /\ chunk' = chunk /\ closing' = NoFile
    BY <1>7 DEF ReleaseFile
  <2>2. Held(p)' = Held(p)
    BY Zenon, <2>1, HeldSame
  <2>3. refCount'[p] = (IF p = closing /\ refCount[p] > 0 THEN refCount[p] - 1 ELSE refCount[p])
    BY <1>1, <1>7, ReleaseFileStep DEF CountsDown
  <2>4. NoFile # p
    BY SourceAssumption
  <2>5. QED
    BY <1>1, <2>1, <2>2, <2>3, <2>4 DEF One
<1>8. ASSUME CloseReader PROVE refCount'[p] <= Held(p)' + One(closing = p)'
  <2>1. refCount'[p] = 0
    BY <1>8 DEF CloseReader, CloseAll
  <2>2. Holders(p)' \subseteq Readers
    BY DEF Holders
  <2>3. Cardinality(Holders(p)') \in Nat
    BY Zenon, <2>2, FS_Subset, FS_CardinalityType, SourceAssumption
  <2>4. QED
    BY <2>1, <2>3 DEF Held, One
<1>9. QED
  BY Zenon, <1>2, <1>3, <1>4, <1>5, <1>6, <1>7, <1>8 DEF SourceNext

(* As long as no file is closed early, a file that is read is not closed,  *)
(* and one without entry is read by nobody.                                *)
LEMMA BusyIsNotClosed ==
  ASSUME SourceTypes, ChunkInv, ClosedRead, NEW r \in Readers, Busy(r)
  PROVE  FileOfReader(r) \in Paths \ closed
BY BusyChunk DEF ClosedRead

LEMMA BusyHasEntry ==
  ASSUME SourceTypes, ChunkInv, CountExact, ClosedRead, KeptWhileRead, NEW r \in Readers, Busy(r)
  PROVE  refCount[FileOfReader(r)] > 0
<1>1. PICK p \in Paths \ closed : p = FileOfReader(r)
  BY BusyIsNotClosed
<1>2. refCount[p] = Held(p)
  BY <1>1 DEF CountExact, Busy
<1>3. CASE reader[r] \in {"acquired", "extra"}
  <2>1. r \in Holders(p)
    BY Zenon, <1>1, <1>3 DEF Holders
  <2>2. Cardinality(Holders(p)) > 0
    BY <2>1, HeldIsNumber, FS_EmptySet
  <2>3. QED
    BY <1>1, <1>2, <2>2, HeldIsNumber DEF Held, One
<1>4. CASE reader[r] = "read"
  <2>1. p \in acquired
    BY <1>1, <1>4 DEF KeptWhileRead
  <2>2. QED
    BY <1>1, <1>2, <2>1, HeldIsNumber DEF Held, One
<1>5. QED
  BY <1>3, <1>4 DEF Busy

LEMMA ExactKept ==
  ASSUME SourceTypes, ChunkInv, SourceExact, SourceNext
  PROVE  SourceExact'
<1>1. SUFFICES ASSUME ~hasty' PROVE CountExact' /\ ClosedRead' /\ KeptWhileRead' /\ HandleOfEntry'
  BY DEF SourceExact
<1>2. ASSUME NEW r \in Readers, ReadAcquire(r), CountExact, ClosedRead, KeptWhileRead, HandleOfEntry
      PROVE  CountExact' /\ ClosedRead' /\ KeptWhileRead' /\ HandleOfEntry'
  <2>1. PICK c \in Chunks : ReadAcquireEffect(r, c)
    BY <1>2, ReadAcquireStep
  <2>2. acquired' = acquired /\ read' = read /\ closed' = closed
    BY <1>2 DEF ReadAcquire
  <2>3. /\ c \in unread /\ reader[r] = "idle" /\ FileOf[c] \in Paths
        /\ reader'[r] = "acquired" /\ chunk'[r] = c
        /\ \A t \in Readers \ {r} : reader'[t] = reader[t] /\ chunk'[t] = chunk[t] /\ handle'[t] = handle[t]
        /\ handle'[r] = Handle(FileOf[c]) /\ opened'[FileOf[c]] = Handle(FileOf[c])
        /\ \A q \in Paths \ {FileOf[c]} : opened'[q] = opened[q]
        /\ refCount'[FileOf[c]] = refCount[FileOf[c]] + 1
        /\ \A q \in Paths \ {FileOf[c]} : refCount'[q] = refCount[q]
    BY Zenon, <2>1 DEF ReadAcquireEffect, Goes, OpensOrShares, CountsUp
  <2>4. CountExact'
    <3>1. ASSUME NEW p \in Paths \ closed PROVE refCount'[p] = Held(p)'
      <4>1. refCount[p] = Held(p)
        BY Zenon, <1>2, <2>3 DEF CountExact
      <4>2. Held(p)' = (IF p = FileOf[c] THEN Held(p) + 1 ELSE Held(p))
        BY <2>1, <2>2, HeldAcquire
      <4>3. QED
        BY ZenonT(30), <2>3, <4>1, <4>2
    <3>2. QED
      BY <2>2, <3>1 DEF CountExact
  <2>5. ClosedRead'
    BY Zenon, <1>2, <2>2 DEF ClosedRead
  <2>6. KeptWhileRead'
    BY Zenon, <1>2, <2>2, <2>3 DEF KeptWhileRead, FileOfReader
  <2>7. HandleOfEntry'
    <3>1. SUFFICES ASSUME NEW t \in Readers, Busy(t)' PROVE handle'[t] = opened'[FileOf[chunk'[t]]]
      BY Zenon DEF HandleOfEntry, FileOfReader
    <3>2. CASE t = r
      BY Zenon, <2>3, <3>2
    <3>3. CASE t # r
      <4>1. /\ Busy(t) /\ handle'[t] = handle[t] /\ FileOf[chunk'[t]] = FileOfReader(t)
            /\ handle[t] = opened[FileOfReader(t)]
        BY Zenon, <1>2, <2>3, <3>1, <3>3 DEF Busy, HandleOfEntry, FileOfReader
      <4>2. FileOfReader(t) \in Paths /\ refCount[FileOfReader(t)] > 0
        BY Zenon, <1>2, <4>1, BusyIsNotClosed, BusyHasEntry
      <4>3. opened'[FileOfReader(t)] = opened[FileOfReader(t)]
        BY <2>3, <4>2 DEF Handle, HasEntry
      <4>4. QED
        BY Zenon, <4>1, <4>3
    <3>4. QED
      BY Zenon, <3>2, <3>3
  <2>8. QED
    BY Zenon, <2>4, <2>5, <2>6, <2>7
<1>3. ASSUME NEW r \in Readers, LoadOrStore(r), CountExact, ClosedRead, KeptWhileRead, HandleOfEntry
      PROVE  CountExact' /\ ClosedRead' /\ KeptWhileRead' /\ HandleOfEntry'
  <2>1. Busy(r) /\ reader[r] = "acquired"
    BY <1>3 DEF LoadOrStore, Busy
  <2>2. PICK f \in Paths \ closed : f = FileOfReader(r)
    BY <1>3, <2>1, BusyIsNotClosed
  <2>3. /\ acquired' = acquired \cup {f} /\ read' = read /\ closed' = closed
        /\ refCount' = refCount /\ opened' = opened /\ handle' = handle /\ chunk' = chunk
    BY ZenonT(30), <1>3, <2>2, LoadStep DEF LoadOrStore, cacheVars
  <2>4. \A t \in Readers \ {r} : reader'[t] = reader[t]
    BY Zenon, <1>3, <2>2, LoadStep DEF Goes
  <2>5. CountExact'
    <3>1. \A p \in Paths \ closed : refCount[p] = Held(p)
      BY Zenon, <1>3, <2>1 DEF CountExact
    <3>2. \A p \in Paths : Held(p)' = Held(p)
      BY <1>3, HeldLoad
    <3>3. QED
      BY <2>3, <3>1, <3>2 DEF CountExact
  <2>6. ClosedRead'
    BY Zenon, <1>3, <2>2, <2>3 DEF ClosedRead
  <2>7. KeptWhileRead'
    BY Zenon, <1>3, <2>2, <2>3, <2>4 DEF KeptWhileRead, FileOfReader
  <2>8. \A t \in Readers : Busy(t)' => Busy(t)
    BY Zenon, <2>1, <2>4 DEF Busy
  <2>9. HandleOfEntry'
    BY Zenon, <1>3, <2>3, <2>8 DEF HandleOfEntry, FileOfReader
  <2>10. QED
    BY Zenon, <2>5, <2>6, <2>7, <2>9
<1>4. ASSUME NEW r \in Readers, ReleaseExtra(r), CountExact, ClosedRead, KeptWhileRead, HandleOfEntry
      PROVE  CountExact' /\ ClosedRead' /\ KeptWhileRead' /\ HandleOfEntry'
  <2>1. Busy(r) /\ reader[r] = "extra"
    BY <1>4 DEF ReleaseExtra, Busy
  <2>2. PICK f \in Paths \ closed : f = FileOfReader(r)
    BY <1>4, <2>1, BusyIsNotClosed
  <2>3. /\ acquired' = acquired /\ read' = read /\ closed' = closed
        /\ opened' = opened /\ handle' = handle /\ chunk' = chunk
        /\ reader'[r] = "read" /\ \A t \in Readers \ {r} : reader'[t] = reader[t]
        /\ CountsDown(f)
    BY Zenon, <1>4, <2>2, ExtraStep DEF ReleaseExtra, Goes
  <2>4. CountExact'
    <3>1. ASSUME NEW p \in Paths \ closed PROVE refCount'[p] = Held(p)'
      <4>1. refCount[p] = Held(p)
        BY Zenon, <1>4, <2>1 DEF CountExact
      <4>2. Held(p)' = (IF p = f THEN Held(p) - 1 ELSE Held(p)) /\ (p = f => Held(p) > 0)
        BY Zenon, <1>4, <2>2, HeldExtra
      <4>3. Held(p) \in Nat
        BY HeldIsNumber
      <4>4. QED
        BY <2>3, <4>1, <4>2, <4>3 DEF CountsDown
    <3>2. QED
      BY Zenon, <2>3, <3>1 DEF CountExact
  <2>5. ClosedRead'
    BY Zenon, <1>4, <2>3 DEF ClosedRead
  <2>6. KeptWhileRead'
    BY Zenon, <1>4, <2>1, <2>3 DEF KeptWhileRead, FileOfReader
  <2>7. \A t \in Readers : Busy(t)' => Busy(t)
    BY Zenon, <2>1, <2>3 DEF Busy
  <2>8. HandleOfEntry'
    BY Zenon, <1>4, <2>3, <2>7 DEF HandleOfEntry, FileOfReader
  <2>9. QED
    BY Zenon, <2>4, <2>5, <2>6, <2>8
<1>5. ASSUME NEW r \in Readers, ReadFile(r) \/ ReadFails(r) \/ ReaderReturns(r),
             CountExact, ClosedRead, KeptWhileRead, HandleOfEntry
      PROVE  CountExact' /\ ClosedRead' /\ KeptWhileRead' /\ HandleOfEntry'
  <2>1. /\ acquired' = acquired /\ closed' = closed /\ refCount' = refCount /\ opened' = opened
        /\ read \subseteq read'
    BY Zenon, <1>5 DEF ReadFile, ReadFails, ReaderReturns, cacheVars
  <2>2. /\ reader[r] \in {"idle", "read"} /\ reader'[r] \in {"idle", "returned"}
        /\ \A t \in Readers \ {r} : reader'[t] = reader[t] /\ chunk'[t] = chunk[t] /\ handle'[t] = handle[t]
    <3>1. CASE ReadFile(r)
      BY Zenon, <3>1, ReadStep DEF Goes
    <3>2. CASE ReadFails(r) \/ ReaderReturns(r)
      BY Zenon, <3>2, LeaveStep DEF Goes, ReadFails, ReaderReturns
    <3>3. QED
      BY Zenon, <1>5, <3>1, <3>2
  <2>3. CountExact'
    <3>1. \A p \in Paths \ closed : refCount[p] = Held(p)
      BY Zenon, <1>5, <2>2 DEF CountExact
    <3>2. \A p \in Paths : Held(p)' = Held(p)
      BY Zenon, <1>5, <2>1, HeldSame
    <3>3. QED
      BY Zenon, <2>1, <3>1, <3>2 DEF CountExact
  <2>4. ClosedRead'
    BY Zenon, <1>5, <2>1 DEF ClosedRead
  <2>5. KeptWhileRead'
    BY Zenon, <1>5, <2>1, <2>2 DEF KeptWhileRead, FileOfReader
  <2>6. HandleOfEntry'
    BY Zenon, <1>5, <2>1, <2>2 DEF HandleOfEntry, FileOfReader, Busy
  <2>7. QED
    BY Zenon, <2>3, <2>4, <2>5, <2>6
<1>6. ASSUME ForgetFile, ~hasty', CountExact, ClosedRead, KeptWhileRead, HandleOfEntry
      PROVE  CountExact' /\ ClosedRead' /\ KeptWhileRead' /\ HandleOfEntry'
  <2>1. PICK f \in Paths \ closed : /\ closed' = closed \cup {f} /\ acquired' = acquired \ {f}
                                    /\ hasty' = (hasty \/ ~ ChunksOf(f) \subseteq read)
    BY Zenon, <1>6 DEF ForgetFile
  <2>2. /\ reader' = reader /\ chunk' = chunk /\ handle' = handle /\ read' = read
        /\ refCount' = refCount /\ opened' = opened
    BY <1>6 DEF ForgetFile, cacheVars
  <2>3. ChunksOf(f) \subseteq read
    BY Zenon, <1>6, <2>1
  <2>4. CountExact'
    <3>1. ASSUME NEW p \in Paths \ closed' PROVE refCount'[p] = Held(p)' \/ \A r \in Readers : reader'[r] = "closed"
      <4>1. p \in Paths \ closed /\ p # f
        BY Zenon, <2>1
      <4>2. Holders(p)' = Holders(p) /\ (p \in acquired' <=> p \in acquired)
        BY Zenon, <2>1, <2>2, <4>1 DEF Holders, FileOfReader
      <4>3. Held(p)' = Held(p)
        BY Zenon, <4>2 DEF Held, One
      <4>4. QED
        BY Zenon, <1>6, <2>2, <4>1, <4>3 DEF CountExact
    <3>2. QED
      BY <3>1 DEF CountExact
  <2>5. ClosedRead'
    BY Zenon, <1>6, <2>1, <2>2, <2>3 DEF ClosedRead
  <2>6. KeptWhileRead'
    <3>1. SUFFICES ASSUME NEW r \in Readers, reader[r] \in {"extra", "read"} PROVE FileOfReader(r) \in acquired'
      BY Zenon, <2>2 DEF KeptWhileRead, FileOfReader
    <3>2. Busy(r) /\ FileOfReader(r) \in acquired
      BY Zenon, <1>6, <3>1 DEF KeptWhileRead, Busy
    <3>3. chunk[r] \notin read /\ chunk[r] \in ChunksOf(FileOfReader(r))
      BY Zenon, <3>2, BusyChunk
    <3>4. QED
      BY Zenon, <2>1, <2>3, <3>2, <3>3
  <2>7. HandleOfEntry'
    BY Zenon, <1>6, <2>2 DEF HandleOfEntry, FileOfReader, Busy
  <2>8. QED
    BY Zenon, <2>4, <2>5, <2>6, <2>7
<1>7. ASSUME ReleaseFile, CountExact, ClosedRead, KeptWhileRead, HandleOfEntry
      PROVE  CountExact' /\ ClosedRead' /\ KeptWhileRead' /\ HandleOfEntry'
  <2>1. /\ reader' = reader /\ chunk' = chunk /\ handle' = handle /\ read' = read
        /\ acquired' = acquired /\ closed' = closed
    BY <1>7 DEF ReleaseFile
  <2>2. closing \in closed /\ opened' = opened /\ \A q \in Paths \ {closing} : refCount'[q] = refCount[q]
    BY Zenon, <1>7, ReleaseFileStep DEF CountsDown
  <2>3. CountExact'
    <3>1. \A p \in Paths : Held(p)' = Held(p)
      BY Zenon, <2>1, HeldSame
    <3>2. \A p \in Paths \ closed : refCount'[p] = refCount[p]
      BY Zenon, <2>2
    <3>3. QED
      BY Zenon, <1>7, <2>1, <3>1, <3>2 DEF CountExact
  <2>4. ClosedRead' /\ KeptWhileRead' /\ HandleOfEntry'
    BY Zenon, <1>7, <2>1, <2>2 DEF ClosedRead, KeptWhileRead, HandleOfEntry, FileOfReader, Busy
  <2>5. QED
    BY Zenon, <2>3, <2>4
<1>8. ASSUME CloseReader, ClosedRead
      PROVE  CountExact' /\ ClosedRead' /\ KeptWhileRead' /\ HandleOfEntry'
  <2>1. \A r \in Readers : reader'[r] = "closed"
    BY Zenon, <1>8 DEF CloseReader
  <2>2. CountExact' /\ KeptWhileRead' /\ HandleOfEntry'
    BY Zenon, <2>1 DEF CountExact, KeptWhileRead, HandleOfEntry, Busy
  <2>3. ClosedRead'
    BY <1>8 DEF CloseReader, ClosedRead
  <2>4. QED
    BY <2>2, <2>3
<1>9. ~hasty
  <2>1. CASE ForgetFile
    BY Zenon, <1>1, <2>1 DEF ForgetFile
  <2>2. CASE ~ForgetFile
    <3>1. hasty' = hasty
      BY <2>2, Zenon DEF SourceNext, ReadAcquire, LoadOrStore, ReleaseExtra, ReadFile, ReadFails,
         ReaderReturns, ReleaseFile, CloseReader
    <3>2. QED
      BY Zenon, <1>1, <3>1
  <2>3. QED
    BY Zenon, <2>1, <2>2
<1>10. CountExact /\ ClosedRead /\ KeptWhileRead /\ HandleOfEntry
  BY Zenon, <1>9 DEF SourceExact
<1>11. QED
  BY Zenon, <1>1, <1>2, <1>3, <1>4, <1>5, <1>6, <1>7, <1>8, <1>10 DEF SourceNext

LEMMA SourceOpenedKept ==
  ASSUME SourceTypes, SourceOpened, SourceNext
  PROVE  SourceOpened'
<1> SUFFICES ASSUME NEW p \in Paths PROVE opened'[p] <= Cardinality(Chunks \ unread')
  BY Zenon DEF SourceOpened
<1>1. /\ opened[p] \in Nat /\ opened[p] <= Cardinality(Chunks \ unread)
      /\ IsFiniteSet(Chunks \ unread) /\ Cardinality(Chunks \ unread) \in Nat
  <2>1. IsFiniteSet(Chunks \ unread)
    BY Zenon, SourceAssumption, FS_Subset
  <2>2. QED
    BY Zenon, <2>1, FS_CardinalityType DEF SourceOpened, SourceTypes, CacheTypes
<1>2. ASSUME NEW r \in Readers, ReadAcquire(r) PROVE opened'[p] <= Cardinality(Chunks \ unread')
  <2>1. PICK c \in Chunks : ReadAcquireEffect(r, c)
    BY Zenon, <1>2, ReadAcquireStep
  <2>2. c \in unread /\ unread' = unread \ {c} /\ opened'[p] <= opened[p] + 1 /\ opened'[p] \in Nat
    <3>1. /\ c \in unread /\ unread' = unread \ {c} /\ opened' \in [Paths -> Nat]
          /\ opened'[p] = opened[p] \/ opened'[p] = Handle(p)
      BY Zenon, <2>1 DEF ReadAcquireEffect, OpensOrShares
    <3>2. opened'[p] <= opened[p] + 1 /\ opened'[p] \in Nat
      BY <1>1, <3>1 DEF Handle
    <3>3. QED
      BY Zenon, <3>1, <3>2
  <2>3. Chunks \ unread' = (Chunks \ unread) \cup {c}
    BY Zenon, <2>2
  <2>4. c \notin Chunks \ unread
    BY <2>2
  <2>5. Cardinality(Chunks \ unread') = Cardinality(Chunks \ unread) + 1
    BY Zenon, <1>1, <2>3, <2>4, FS_AddElement
  <2>6. QED
    BY <1>1, <2>2, <2>5
<1>3. CASE \A r \in Readers : ~ReadAcquire(r)
  <2>1. opened' = opened /\ unread' = unread
    BY <1>3, Zenon DEF SourceNext, LoadOrStore, ReleaseExtra, ReadFile, ReadFails, ReaderReturns, ForgetFile,
       ReleaseFile, CloseReader, Release, CloseAll, cacheVars
  <2>2. QED
    BY Zenon, <1>1, <2>1
<1>4. QED
  BY Zenon, <1>2, <1>3

LEMMA SourceStarts ==
  ASSUME CacheInit, SourceInit
  PROVE  SourceInv
<1>1. SourceTypes
  BY Zenon DEF CacheInit, SourceInit, SourceTypes, CacheTypes
<1>2. \A r \in Readers : reader[r] = "idle"
  BY Zenon DEF SourceInit
<1>3. ChunkInv
  BY Zenon, <1>2 DEF SourceInit, ChunkInv, Busy
<1>4. ASSUME NEW p \in Paths
      PROVE  Held(p) = 0 /\ refCount[p] = 0 /\ opened[p] = 0 /\ Cardinality(Chunks \ unread) = 0
  <2>1. Holders(p) = {} /\ p \notin acquired
    BY Zenon, <1>2 DEF Holders, SourceInit
  <2>2. Chunks \ unread = {}
    BY Zenon DEF SourceInit
  <2>3. QED
    BY <2>1, <2>2, FS_EmptySet DEF Held, One, CacheInit
<1>5. SourceUpper
  <2>1. SUFFICES ASSUME NEW p \in Paths PROVE refCount[p] <= Held(p) + One(closing = p)
    BY Zenon DEF SourceUpper
  <2>2. QED
    BY <1>4 DEF One
<1>6. SourceExact
  BY Zenon, <1>2, <1>4 DEF SourceInit, SourceExact, CountExact, ClosedRead, KeptWhileRead, HandleOfEntry, Busy
<1>7. SourceOpened
  <2>1. SUFFICES ASSUME NEW p \in Paths PROVE opened[p] <= Cardinality(Chunks \ unread)
    BY Zenon DEF SourceOpened
  <2>2. QED
    BY <1>4
<1>8. QED
  BY Zenon, <1>1, <1>3, <1>5, <1>6, <1>7 DEF SourceInv

LEMMA SourceKept ==
  ASSUME SourceInv, SourceNext
  PROVE  SourceInv'
BY Zenon, SourceTypesKept, ChunkKept, UpperKept, ExactKept, SourceOpenedKept DEF SourceInv

-----------------------------------------------------------------------------
(* The worker                                                              *)

FilesInv ==
  \/ workerType = "destination" /\ DestInv /\ SourceInit
  \/ workerType = "source" /\ SourceInv /\ DestInit

LEMMA WorkerStarts == Init => FilesInv
BY Zenon, DestStarts, SourceStarts DEF Init, FilesInv

LEMMA WorkerKept == FilesInv /\ [Next]_vars => FilesInv'
<1> SUFFICES ASSUME FilesInv, [Next]_vars PROVE FilesInv'
  OBVIOUS
<1>1. CASE Destination
  <2>1. DestInv /\ SourceInit /\ workerType' = "destination" /\ DestNext /\ UNCHANGED sourceVars
    BY <1>1 DEF Destination, FilesInv
  <2>2. DestInv'
    BY Zenon, <2>1, DestKept
  <2>3. SourceInit'
    BY Zenon, <2>1 DEF SourceInit, sourceVars
  <2>4. QED
    BY Zenon, <2>1, <2>2, <2>3 DEF FilesInv
<1>2. CASE Source
  <2>1. SourceInv /\ DestInit /\ workerType' = "source" /\ SourceNext /\ UNCHANGED destVars
    BY <1>2 DEF Source, FilesInv
  <2>2. SourceInv'
    BY Zenon, <2>1, SourceKept
  <2>3. DestInit'
    BY Zenon, <2>1 DEF DestInit, destVars
  <2>4. QED
    BY Zenon, <2>1, <2>2, <2>3 DEF FilesInv
<1>3. CASE UNCHANGED vars
  <2>1. UNCHANGED <<workerType, refCount, opened>> /\ UNCHANGED destVars /\ UNCHANGED sourceVars
    BY Zenon, <1>3 DEF vars, cacheVars
  <2>2. DestInit => DestInit'
    BY Zenon, <2>1 DEF DestInit, destVars
  <2>3. SourceInit => SourceInit'
    BY <2>1 DEF SourceInit, sourceVars
  <2>4. DestInv => DestInv'
    <3>1. DestTypes => DestTypes'
      BY Zenon, <2>1 DEF DestTypes, CacheTypes, destVars
    <3>2. (ControlInv => ControlInv') /\ (BlockInv => BlockInv')
      BY <2>1 DEF ControlInv, BlockInv, destVars
    <3>3. CountInv => CountInv'
      BY <2>1, Zenon DEF CountInv, Refs, Owners, Guardians, Owns, In, Stolen, Pending, destVars
    <3>4. HandleInv => HandleInv'
      BY <2>1, Zenon DEF HandleInv, Owns, In, destVars
    <3>5. DurableInv => DurableInv'
      BY <2>1, Zenon DEF DurableInv, SyncedOrOwed, PassedDurable, Passed, CommitSynced, Owes, In, Stolen, Pending, destVars
    <3>6. OpenedInv => OpenedInv'
      BY <2>1, Zenon DEF OpenedInv, Openers, destVars
    <3>7. QED
      BY Zenon, <3>1, <3>2, <3>3, <3>4, <3>5, <3>6 DEF DestInv
  <2>5. SourceInv => SourceInv'
    <3>1. SourceTypes => SourceTypes'
      BY <2>1 DEF SourceTypes, CacheTypes, sourceVars
    <3>2. ChunkInv => ChunkInv'
      BY <2>1, Zenon DEF ChunkInv, Busy, sourceVars
    <3>3. SourceUpper => SourceUpper'
      BY <2>1, Zenon DEF SourceUpper, Held, One, Holders, FileOfReader, sourceVars
    <3>4. SourceExact => SourceExact'
      BY <2>1, ZenonT(30) DEF SourceExact, CountExact, ClosedRead, KeptWhileRead, HandleOfEntry, Held, One, Holders,
         FileOfReader, Busy, sourceVars
    <3>5. SourceOpened => SourceOpened'
      BY <2>1, Zenon DEF SourceOpened, sourceVars
    <3>6. QED
      BY Zenon, <3>1, <3>2, <3>3, <3>4, <3>5 DEF SourceInv
  <2>6. QED
    BY Zenon, <2>1, <2>2, <2>3, <2>4, <2>5 DEF FilesInv
<1>4. QED
  BY Zenon, <1>1, <1>2, <1>3 DEF Next

(* The references, handles and synced blocks are as the cache's clients    *)
(* need them in every reachable state: the inductive invariant of          *)
(* FileCache's Acquire, Release and SyncAndRelease under their callers.    *)
THEOREM FilesAlways == Spec => []FilesInv
BY WorkerStarts, WorkerKept, PTL DEF Spec

(* A handle that a Write handler, SyncAndRelease or ReadAt is about to use *)
(* is open, for any number of streams, readers, paths, blocks and chunks.  *)
THEOREM HandlesUsable == Spec => []HandleUsable
<1>1. FilesInv => HandleUsable
  <2>1. ASSUME DestInv, ~early
        PROVE  /\ \A s \in Streams : writer[s] = "write" =>
                    \A b \in unwritten[s] :
                      files[s][PathOf[b]] # 0 => IsOpen(PathOf[b], files[s][PathOf[b]])
               /\ \A h \in Handlers : release[h].step = "sync" =>
                    IsOpen(release[h].path, release[h].handle)
    <3>1. DestTypes /\ CacheTypes /\ ControlInv /\ BlockInv /\ CountInv /\ HandleInv
      BY Zenon, <2>1 DEF DestInv, DestTypes
    <3>2. ASSUME NEW s \in Streams, writer[s] = "write", NEW b \in unwritten[s], files[s][PathOf[b]] # 0
          PROVE  IsOpen(PathOf[b], files[s][PathOf[b]])
      <4>1. b \in Blocks
        BY Zenon, SMTT(20), <3>1 DEF DestTypes
      <4>2. PICK p \in Paths \ asked : p = PathOf[b]
        BY Zenon, <2>1, <3>1, <4>1, WritingIsNotAsked, DestinationAssumption
      <4>3. s \in Handlers /\ release[s] = NotReleasing
        BY Zenon, <3>1, <3>2 DEF ControlInv, Handlers
      <4>4. Owns(s, p)
        BY Zenon, <3>1, <3>2, <4>2, <4>3, NotReleasingStep DEF Owns, In
      <4>5. files[s][p] = opened[p]
        BY Zenon, <2>1, <3>1, <4>4 DEF HandleInv
      <4>6. refCount[p] # 0
        <5>1. ~Stolen(p) /\ s \in Owners(p)
          BY Zenon, <4>4 DEF Stolen, Owners
        <5>2. QED
          BY Zenon, <2>1, <3>1, <5>1, NobodyHolds
      <4>7. HasEntry(p)
        BY <3>1, <4>6 DEF HasEntry, CacheTypes
      <4>8. QED
        BY Zenon, <4>2, <4>5, <4>7 DEF IsOpen
    <3>3. ASSUME NEW h \in Handlers, release[h].step = "sync"
          PROVE  IsOpen(release[h].path, release[h].handle)
      <4>1. release[h] # NotReleasing
        BY Zenon, <3>1, <3>3, NotReleasingStep
      <4>2. PICK p \in Paths : p = release[h].path
        BY Zenon, <3>1, <4>1, ReleaseRecord
      <4>3. release[h].handle = opened[p]
        BY Zenon, <2>1, <3>1, <3>3, <4>2 DEF HandleInv
      <4>4. h \in Guardians(p)
        BY Zenon, <3>3, <4>2 DEF Guardians, In
      <4>5. refCount[p] # 0
        <5>1. Refs(p) <= refCount[p] + (IF Stolen(p) THEN 1 ELSE 0)
          BY Zenon, <2>1, <3>1 DEF CountInv
        <5>2. Cardinality(Guardians(p)) > 0 /\ Cardinality(Guardians(p)) \in Nat /\ Cardinality(Owners(p)) \in Nat
          BY Zenon, <4>4, RefsAreNumbers, OneLess
        <5>3. CASE h = Committer
          <6>1. ~Stolen(p)
            BY Zenon, <3>1, <3>3, <4>1, <4>2, <5>3 DEF ControlInv, Stolen, Pending, In
          <6>2. QED
            BY <5>1, <5>2, <6>1 DEF Refs
        <5>4. CASE h \in Streams
          <6>1. Owns(h, p)
            BY Zenon, <3>1, <3>3, <4>1, <4>2, <5>4 DEF ControlInv, Owns, In
          <6>2. h \in Owners(p)
            BY <5>4, <6>1 DEF Owners
          <6>3. Cardinality(Owners(p)) > 0
            BY Zenon, <6>2, RefsAreNumbers, OneLess
          <6>4. QED
            BY <5>1, <5>2, <6>3 DEF Refs
        <5>5. QED
          BY Zenon, <5>3, <5>4 DEF Handlers
      <4>6. HasEntry(p)
        BY <3>1, <4>5 DEF HasEntry, CacheTypes
      <4>7. QED
        BY Zenon, <4>2, <4>3, <4>6 DEF IsOpen
    <3>4. QED
      BY Zenon, <3>2, <3>3
  <2>2. ASSUME SourceInv, ~hasty
        PROVE  \A r \in Readers : reader[r] \in {"acquired", "extra", "read"} =>
                 IsOpen(FileOf[chunk[r]], handle[r])
    <3>1. SourceTypes /\ ChunkInv /\ CountExact /\ ClosedRead /\ KeptWhileRead /\ HandleOfEntry
      BY Zenon, <2>2 DEF SourceInv, SourceExact
    <3>2. QED
      BY <3>1, BusyHasEntry DEF Busy, FileOfReader, HandleOfEntry, IsOpen, HasEntry
  <2>3. DestInit => /\ \A s \in Streams : writer[s] # "write"
                    /\ \A h \in Handlers : release[h].step # "sync"
    BY DEF DestInit, NotReleasing
  <2>4. SourceInit => \A r \in Readers : reader[r] \notin {"acquired", "extra", "read"}
    BY Zenon DEF SourceInit
  <2>5. CASE DestInv /\ SourceInit
    BY Zenon, <2>1, <2>4, <2>5 DEF HandleUsable
  <2>6. CASE SourceInv /\ DestInit
    BY Zenon, <2>2, <2>3, <2>6 DEF HandleUsable
  <2>7. QED
    BY <2>5, <2>6 DEF FilesInv
<1>2. QED
  BY <1>1, FilesAlways, PTL

(* A file whose commit was answered has all its blocks on disk, although   *)
(* SyncAndRelease syncs nothing when somebody else has closed the entry.   *)
THEOREM CommittedIsDurable == Spec => []CommitMeansDurable
<1>1. FilesInv => CommitMeansDurable
  <2>1. DestInv => CommitMeansDurable
    BY Zenon DEF DestInv, DurableInv, PassedDurable, Passed, CommitMeansDurable
  <2>2. DestInit => CommitMeansDurable
    BY Zenon DEF DestInit, CommitMeansDurable
  <2>3. QED
    BY Zenon, <2>1, <2>2 DEF FilesInv
<1>2. QED
  BY <1>1, FilesAlways, PTL

(* No entry outlives its users: not when every handler of the destination  *)
(* has returned, and not on the source when all its files are closed.      *)
THEOREM HandlesReturned == Spec => []NoHandleLeak
<1>1. FilesInv => NoHandleLeak
  <2>1. ASSUME DestInv, HandlersReturned, NEW p \in Paths PROVE ~HasEntry(p)
    <3>1. DestTypes /\ CacheTypes /\ ControlInv /\ CountInv
      BY Zenon, <2>1 DEF DestInv, DestTypes
    <3>2. \A s \in Streams : files[s][p] = 0
      BY Zenon, <2>1, <3>1 DEF ControlInv, HandlersReturned
    <3>3. \A h \in Handlers : release[h] = NotReleasing
      BY Zenon, <2>1, <3>1 DEF ControlInv, Handlers, HandlersReturned
    <3>4. \A h \in Handlers : ~In(h, {"sync", "guard"}, p)
      BY Zenon, <3>1, <3>3, NotReleasingStep DEF In
    <3>5. Owners(p) = {} /\ Guardians(p) = {}
      BY Zenon, <3>2, <3>4 DEF Owners, Owns, Guardians
    <3>6. Refs(p) = 0
      BY <3>5, FS_EmptySet DEF Refs
    <3>7. refCount[p] <= Refs(p) /\ refCount[p] \in Nat
      BY Zenon, <3>1 DEF CountInv, CacheTypes
    <3>8. QED
      BY <3>6, <3>7 DEF HasEntry
  <2>2. ASSUME SourceInv, ~hasty, closed = Paths, closing = NoFile, NEW p \in Paths PROVE ~HasEntry(p)
    <3>1. SourceTypes /\ ChunkInv /\ ClosedRead /\ SourceUpper
      BY <2>2 DEF SourceInv, SourceExact
    <3>2. Holders(p) = {}
      <4>1. SUFFICES ASSUME NEW r \in Holders(p) PROVE FALSE
        OBVIOUS
      <4>2. r \in Readers /\ Busy(r) /\ FileOfReader(r) = p
        BY DEF Holders, Busy
      <4>3. QED
        BY Zenon, <2>2, <3>1, <4>2, BusyIsNotClosed
    <3>3. Held(p) = 0
      BY <2>2, <3>1, <3>2, FS_EmptySet DEF Held, One, ClosedRead
    <3>4. One(closing = p) = 0
      BY Zenon, <2>2, SourceAssumption DEF One
    <3>5. refCount[p] <= Held(p) + One(closing = p) /\ refCount[p] \in Nat
      BY Zenon, <3>1 DEF SourceUpper, SourceTypes, CacheTypes
    <3>6. QED
      BY <3>3, <3>4, <3>5 DEF HasEntry
  <2>3. QED
    BY Zenon, <2>1, <2>2 DEF FilesInv, NoHandleLeak
<1>2. QED
  BY <1>1, FilesAlways, PTL

(* The types, with the bounds on a count and on the opens of a path.       *)
THEOREM FilesTypes == Spec => []TypeOK
<1>1. /\ Cardinality(Streams) \in Nat /\ Cardinality(Readers) \in Nat /\ Cardinality(Chunks) \in Nat
  BY Zenon, DestinationAssumption, SourceAssumption, FS_CardinalityType
<1>2. ASSUME DestInv
      PROVE  /\ refCount \in [Paths -> 0 .. 2 * Cardinality(Streams) + Cardinality(Readers) + 2]
             /\ opened \in [Paths -> 0 .. Cardinality(Streams) + Cardinality(Chunks)]
  <2>1. CacheTypes /\ CountInv /\ OpenedInv
    BY Zenon, <1>2 DEF DestInv, DestTypes
  <2>2. ASSUME NEW p \in Paths PROVE refCount[p] <= 2 * Cardinality(Streams) + 1 /\ refCount[p] \in Nat
    <3>1. refCount[p] <= Refs(p) /\ refCount[p] \in Nat
      BY <2>1 DEF CountInv, CacheTypes
    <3>2. /\ Cardinality(Owners(p)) \in Nat /\ Cardinality(Owners(p)) <= Cardinality(Streams)
          /\ Cardinality(Guardians(p)) \in Nat /\ Cardinality(Guardians(p)) <= Cardinality(Streams) + 1
      BY Zenon, RefsAreNumbers, HandlersFinite
    <3>3. QED
      BY <1>1, <3>1, <3>2 DEF Refs
  <2>3. ASSUME NEW p \in Paths PROVE opened[p] <= Cardinality(Streams) /\ opened[p] \in Nat
    <3>1. /\ opened[p] <= Cardinality(Openers(p)) /\ opened[p] \in Nat
          /\ Cardinality(Openers(p)) \in Nat /\ Cardinality(Openers(p)) <= Cardinality(Streams)
      BY Zenon, <2>1, OpenersFinite DEF OpenedInv, CacheTypes
    <3>2. QED
      BY <1>1, <3>1
  <2>4. ASSUME NEW p \in Paths
        PROVE  /\ refCount[p] \in 0 .. 2 * Cardinality(Streams) + Cardinality(Readers) + 2
               /\ opened[p] \in 0 .. Cardinality(Streams) + Cardinality(Chunks)
    <3>1. refCount[p] <= 2 * Cardinality(Streams) + 1 /\ refCount[p] \in Nat
      BY <2>2
    <3>2. opened[p] <= Cardinality(Streams) /\ opened[p] \in Nat
      BY Zenon, <2>3
    <3>3. QED
      BY <1>1, <3>1, <3>2
  <2>5. QED
    BY Zenon, <2>1, <2>4 DEF CacheTypes
<1>3. ASSUME SourceInv
      PROVE  /\ refCount \in [Paths -> 0 .. 2 * Cardinality(Streams) + Cardinality(Readers) + 2]
             /\ opened \in [Paths -> 0 .. Cardinality(Streams) + Cardinality(Chunks)]
  <2>1. CacheTypes /\ SourceUpper /\ SourceOpened
    BY Zenon, <1>3 DEF SourceInv, SourceTypes
  <2>2. ASSUME NEW p \in Paths PROVE refCount[p] <= Cardinality(Readers) + 2 /\ refCount[p] \in Nat
    <3>1. refCount[p] <= Held(p) + One(closing = p) /\ refCount[p] \in Nat
      BY Zenon, <2>1 DEF SourceUpper, CacheTypes
    <3>2. Cardinality(Holders(p)) \in Nat /\ Cardinality(Holders(p)) <= Cardinality(Readers)
      BY HeldIsNumber
    <3>3. One(closing = p) \in 0..1 /\ One(p \in acquired) \in 0..1
      BY DEF One
    <3>4. QED
      BY <1>1, <3>1, <3>2, <3>3 DEF Held
  <2>3. ASSUME NEW p \in Paths PROVE opened[p] <= Cardinality(Chunks) /\ opened[p] \in Nat
    <3>1. opened[p] <= Cardinality(Chunks \ unread) /\ opened[p] \in Nat
      BY <2>1 DEF SourceOpened, CacheTypes
    <3>2. Cardinality(Chunks \ unread) <= Cardinality(Chunks) /\ IsFiniteSet(Chunks \ unread)
      BY Zenon, FS_Subset, SourceAssumption
    <3>3. Cardinality(Chunks \ unread) \in Nat
      BY Zenon, <3>2, FS_CardinalityType
    <3>4. QED
      BY <1>1, <3>1, <3>2, <3>3
  <2>4. ASSUME NEW p \in Paths
        PROVE  /\ refCount[p] \in 0 .. 2 * Cardinality(Streams) + Cardinality(Readers) + 2
               /\ opened[p] \in 0 .. Cardinality(Streams) + Cardinality(Chunks)
    <3>1. refCount[p] <= Cardinality(Readers) + 2 /\ refCount[p] \in Nat
      BY Zenon, <2>2
    <3>2. opened[p] <= Cardinality(Chunks) /\ opened[p] \in Nat
      BY Zenon, <2>3
    <3>3. QED
      BY <1>1, <3>1, <3>2
  <2>5. QED
    BY Zenon, <2>1, <2>4 DEF CacheTypes
<1>4. DestInit =>
        /\ server \in {"serving", "exited"}
        /\ writer \in [Streams -> {"recv", "write", "cleanup", "returned"}]
        /\ files \in [Streams -> [Paths -> Nat]]
        /\ \A s \in Streams : unwritten[s] \subseteq request[s] /\ request[s] \subseteq Blocks
        /\ failed \subseteq Streams
        /\ committer \in {"recv", "commit", "returned"}
        /\ uncommitted \subseteq batch /\ batch \subseteq asked /\ asked \subseteq Paths
        /\ \A h \in Handlers : release[h].step \in {"none", "sync", "guard", "own", "end"}
        /\ unsent \subseteq Blocks /\ acked \subseteq written /\ written \subseteq Blocks
        /\ durable \subseteq written /\ unsynced \subseteq Paths /\ committed \subseteq asked
        /\ early \in BOOLEAN
  <2> SUFFICES ASSUME DestInit
      PROVE  /\ writer \in [Streams -> {"recv", "write", "cleanup", "returned"}]
             /\ files \in [Streams -> [Paths -> Nat]]
             /\ \A s \in Streams : unwritten[s] \subseteq request[s] /\ request[s] \subseteq Blocks
             /\ \A h \in Handlers : release[h].step \in {"none", "sync", "guard", "own", "end"}
    BY Zenon DEF DestInit
  <2>1. \A h \in Handlers : release[h].step = "none"
    BY Zenon DEF DestInit, NotReleasing
  <2>2. QED
    BY <2>1 DEF DestInit
<1>5. DestInv =>
        /\ server \in {"serving", "exited"}
        /\ writer \in [Streams -> {"recv", "write", "cleanup", "returned"}]
        /\ files \in [Streams -> [Paths -> Nat]]
        /\ \A s \in Streams : unwritten[s] \subseteq request[s] /\ request[s] \subseteq Blocks
        /\ failed \subseteq Streams
        /\ committer \in {"recv", "commit", "returned"}
        /\ uncommitted \subseteq batch /\ batch \subseteq asked /\ asked \subseteq Paths
        /\ \A h \in Handlers : release[h].step \in {"none", "sync", "guard", "own", "end"}
        /\ unsent \subseteq Blocks /\ acked \subseteq written /\ written \subseteq Blocks
        /\ durable \subseteq written /\ unsynced \subseteq Paths /\ committed \subseteq asked
        /\ early \in BOOLEAN
  <2> SUFFICES ASSUME DestInv
      PROVE  /\ \A s \in Streams : unwritten[s] \subseteq request[s] /\ request[s] \subseteq Blocks
             /\ \A h \in Handlers : release[h].step \in {"none", "sync", "guard", "own", "end"}
             /\ acked \subseteq written /\ durable \subseteq written
    BY DEF DestInv, DestTypes
  <2>1. DestTypes /\ BlockInv
    BY DEF DestInv
  <2>2. \A h \in Handlers : release[h].step \in {"none", "sync", "guard", "own", "end"}
    BY Zenon, <2>1, ReleaseRecord, NotReleasingStep
  <2>3. QED
    BY Zenon, <2>1, <2>2 DEF DestTypes, BlockInv
<1>6. SourceInit \/ SourceInv =>
        /\ hasty \in BOOLEAN
        /\ acquired \subseteq Paths /\ closed \subseteq Paths /\ closing \in Paths \cup {NoFile}
        /\ reader \in [Readers -> {"idle", "acquired", "extra", "read", "returned", "closed"}]
        /\ chunk \in [Readers -> Chunks \cup {NoChunk}]
        /\ handle \in [Readers -> Nat]
        /\ unread \subseteq Chunks /\ read \subseteq Chunks
  <2>1. CASE SourceInit
    BY Zenon, <2>1 DEF SourceInit
  <2>2. CASE SourceInv
    <3>1. SourceTypes /\ closing \in Paths \cup {NoFile}
      BY <2>2 DEF SourceInv, SourceTypes
    <3>2. QED
      BY Zenon, <3>1 DEF SourceTypes
  <2>3. QED
    BY <2>1, <2>2
<1>7. FilesInv => TypeOK
  <2>1. CASE DestInv /\ SourceInit /\ workerType = "destination"
    BY <1>2, <1>5, <1>6, <2>1, Zenon DEF TypeOK
  <2>2. CASE SourceInv /\ DestInit /\ workerType = "source"
    BY <1>3, <1>4, <1>6, <2>2, Zenon DEF TypeOK
  <2>3. QED
    BY <2>1, <2>2 DEF FilesInv
<1>8. QED
  BY <1>7, FilesAlways, PTL
=============================================================================
