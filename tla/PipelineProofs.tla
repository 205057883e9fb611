--------------------------- MODULE PipelineProofs ---------------------------
(***************************************************************************)
(* Proofs about Pipeline for every value of its constants: the steps that  *)
(* send, acknowledge, write and release keep the invariant of              *)
(* PipelineInvariant, an id has one owner at a time, and the pipeline      *)
(* implements the abstract transfer of BlockTransfer.                      *)
(***************************************************************************)
EXTENDS PipelineInvariant

-----------------------------------------------------------------------------
(* Sending                                                                 *)

(* stream.Send of the batch: its ids are on the wire from now on.          *)
LEMMA FlushSends ==
  ASSUME PipeInv, NEW s \in Senders, Flush(s), stream[s] = "open"
  PROVE  PipeInv' /\ Freed' = Freed
<1> DEFINE b == HeldIDs(snd[s].batch)
           M == Owned(snd[s].batch)
<1>1. PipeTypes /\ PlacesInv /\ QueueInv /\ SlotInv /\ ReaderInv /\ SenderInv /\ ControlInv /\ WrittenFed
  BY Zenon DEF PipeInv
<1>2. /\ nextID' = nextID /\ feeding' = feeding /\ chunkCh' = chunkCh /\ rd' = rd /\ readCh' = readCh
      /\ readClosed' = readClosed /\ ack' = ack /\ stream' = stream
      /\ acks' = acks /\ written' = written /\ cancelled' = cancelled /\ result' = result
      /\ base' = base /\ released' = released /\ waiters' = waiters /\ granted' = granted
      /\ errs' = errs /\ faulty' = faulty
  BY Zenon DEF Flush, SenderKeeps, feedVars, winVars
<1>3. /\ snd[s].pc = "flush" /\ wire' = [wire EXCEPT ![s] = Append(wire[s], b)]
      /\ snd' = [snd EXCEPT ![s].pc = "sent"]
  BY DEF Flush, SenderAt
<1>4. /\ snd' \in [Senders -> SenderRec] /\ snd'[s].pc = "sent"
      /\ snd'[s].batch = snd[s].batch /\ snd'[s].cc = snd[s].cc
      /\ \A q \in Senders : q # s => snd'[q] = snd[q]
  BY Zenon, <1>3, SenderGoesTo DEF SenderPc
<1>5. snd[s].batch # <<>> /\ SenderOwns(s) = M /\ SenderOwns(s)' = {}
      /\ \A q \in Senders : q # s => SenderOwns(q)' = SenderOwns(q)
  BY Zenon, <1>3, <1>4, SenderFacts DEF SenderOK, SenderOwns, SenderAt
<1>6. b \in Seq(ReqIDs) /\ M = Range(b) /\ Distinct(b) /\ b # <<>>
  BY <1>5, SenderFacts, ChunkIDs
<1> HIDE DEF b, M
<1>7. M \subseteq ReqIDs
  BY <1>6 DEF Range
<1>8. \A id \in M : Has("batch", s, id)
  BY <1>5, Cells
<1>9. \A id \in M : id < base + Limit
  BY <1>1, <1>7, <1>8, SpotsOwners, Zenon DEF PlacesInv, Holding
<1>10. Flat(wire[s]) \cap Range(b) = {}
  <2>1. \A id \in M : ~Has("wire", s, id)
    BY Zenon, <1>7, <1>8, OnlyHere, SpotsOwners
  <2> QED
    BY <1>6, <2>1, Cells
<1>11. /\ Append(wire[s], b) \in Seq(Seq(ReqIDs)) /\ Append(wire[s], b) # <<>>
       /\ Flat(Append(wire[s], b)) = Flat(wire[s]) \cup M
       /\ DistinctIn(Append(wire[s], b)) /\ NonEmpty(Append(wire[s], b))
  BY <1>6, <1>10, SenderFacts, AppendBatch
<1>12. /\ wire' \in [Senders -> Seq(Seq(ReqIDs))] /\ wire'[s] = Append(wire[s], b)
       /\ \A q \in Senders : q # s => wire'[q] = wire[q]
  BY <1>1, <1>3, <1>11, Zenon DEF PipeTypes
<1>13. PipeTypes'
  BY <1>1, <1>2, <1>4, <1>12, Zenon DEF PipeTypes, SenderRec
<1>14. Freed' = Freed
  BY <1>2, Zenon DEF Freed
<1>15. Carried
  <2>1. Leave(M, "batch", s)
    BY Zenon, <1>5, <1>7, <1>8, Cells, CellsPrimed DEF Leave
  <2>2. Enter(M, "wire", s)
    BY Zenon, <1>11, <1>12, Cells, CellsPrimed DEF Enter
  <2>3. Elsewhere("batch", s, "wire", s)
    <3> SUFFICES ASSUME NEW m \in Spots, NEW z \in Owners, ~(m = "batch" /\ z = s),
                        ~(m = "wire" /\ z = s), NEW id \in ReqIDs
                 PROVE  Has(m, z, id)' <=> Has(m, z, id)
      BY Zenon DEF Elsewhere
    <3>1. \A q \in Senders : snd'[q].cc.id = snd[q].cc.id
      BY <1>4, Zenon
    <3> QED
      BY Zenon, <1>2, <1>5, <1>12, <1>14, <3>1, Unmoved
  <2>4. \A id \in ReqIDs : IF id \in M THEN Goes(id, "wire", s) ELSE Stay(id)
    BY Zenon, <2>1, <2>2, <2>3, Move, SpotsOwners
  <2>5. \A id \in M : Arrives(id, "wire")
    BY <1>2, <1>9 DEF Arrives, Holding
  <2> QED
    BY <2>4, <2>5, SpotsOwners, Zenon DEF Carried, Handled
<1>16. PlacesInv'
  <2>1. Lossless' => Lossless
    BY <1>2, <1>3, <1>4 DEF Lossless
  <2>2. Advance
    BY <1>1, <1>2, <2>1 DEF PipeTypes, Advance
  <2> QED
    BY Zenon, <1>1, <1>15, <2>2, CarriedPlaces DEF PipeTypes
<1>17. QueueInv'
  <2>1. \A q \in Senders : /\ DistinctIDs(snd'[q].batch) /\ DistinctIn(wire'[q]) /\ NonEmpty(wire'[q])
    BY <1>1, <1>4, <1>11, <1>12, Zenon DEF QueueInv
  <2> QED
    BY <1>1, <1>2, <2>1, Zenon DEF QueueInv
<1>18. SlotInv' /\ ReaderInv' /\ WrittenFed'
  BY <1>1, <1>2, Zenon DEF SlotInv, ReaderInv, WrittenFed
<1>19. SenderInv'
  <2>1. SenderOK(s)'
    BY ZenonT(30), <1>2, <1>3, <1>4, SenderFacts DEF SenderOK
  <2> QED
    BY Zenon, <1>1, <1>2, <1>4, <1>12, <2>1, OtherSenders
<1>20. ControlInv'
  <2>1. result = "none" /\ snd'[s].pc # "closed"
    BY <1>1, <1>3, <1>4 DEF ControlInv
  <2> QED
    BY <1>1, <1>2, <2>1 DEF ControlInv
<1> QED
  BY <1>13, <1>14, <1>16, <1>17, <1>18, <1>19, <1>20, Zenon DEF PipeInv

(* A step that takes sender s to w.                                        *)
LEMMA SenderStepInv ==
  ASSUME PipeInv, NEW s \in Senders, NEW w \in SenderRec, snd' = [snd EXCEPT ![s] = w],
         UNCHANGED <<feedVars, rd, readCh, readClosed, ack, netVars, errs, cancelled, faulty, result>>,
         Carried, base' \in Nat, base <= base', released' \in [Slots -> BOOLEAN],
         waiters' \subseteq ReqIDs, granted' \subseteq ReqIDs, \A g \in granted' : g < base' + Limit,
         snd[s].pc \in {"sent", "drop"}, ((snd[s].pc = "drop") <=> (w.pc = "drop")),
         DistinctIDs(w.batch),
         w.pc \in {"recv", "sent", "drop", "closed"},
         w.pc \in {"recv", "closed"} => w.cc = Nothing,
         w.pc = "sent" => w.batch # <<>> /\ (w.cc = Nothing => readClosed = TRUE /\ readCh = <<>>),
         w.pc = "closed" => w.batch = <<>> /\ readClosed = TRUE /\ readCh = <<>>
  PROVE  PipeInv'
<1>1. PipeTypes /\ PlacesInv /\ QueueInv /\ SlotInv /\ ReaderInv /\ SenderInv /\ ControlInv /\ WrittenFed
  BY Zenon DEF PipeInv
<1>2. /\ nextID' = nextID /\ feeding' = feeding /\ chunkCh' = chunkCh /\ rd' = rd /\ readCh' = readCh
      /\ readClosed' = readClosed /\ ack' = ack /\ stream' = stream /\ wire' = wire
      /\ acks' = acks /\ written' = written /\ cancelled' = cancelled /\ result' = result
      /\ errs' = errs /\ faulty' = faulty
  BY Zenon DEF feedVars, netVars
<1>3. /\ snd' \in [Senders -> SenderRec] /\ snd'[s] = w /\ \A q \in Senders : q # s => snd'[q] = snd[q]
  BY SenderTypes
<1>4. PipeTypes'
  BY <1>1, <1>2, <1>3, ZenonT(60) DEF PipeTypes, SenderRec
<1>5. PlacesInv'
  <2>1. Lossless' => Lossless
    <3> SUFFICES ASSUME Lossless' PROVE Lossless
      OBVIOUS
    <3>1. snd'[s].pc # "drop"
      BY Zenon DEF Lossless
    <3>2. snd[s].pc # "drop"
      BY <1>3, <3>1
    <3> QED
      BY <1>2, <1>3, <3>2, Zenon DEF Lossless
  <2>2. Advance
    BY <1>1, <1>2, <2>1, Zenon DEF Advance
  <2> QED
    BY <1>1, <2>2, CarriedPlaces DEF PipeTypes
<1>6. QueueInv' /\ ReaderInv' /\ WrittenFed'
  BY <1>1, <1>2, <1>3, Zenon DEF QueueInv, ReaderInv, WrittenFed
<1>7. SlotInv'
  <2> SUFFICES ASSUME NEW q \in Readers, rd[q].win = TRUE PROVE rd[q].id < base' + Limit
    BY <1>2, Zenon DEF SlotInv
  <2>1. rd[q].id < base + Limit /\ rd[q].id \in ReqIDs
    BY Zenon, ReaderAt DEF ReaderOK
  <2> QED
    BY <1>1, <2>1, Further, IDs, LimitPositive, Zenon DEF PipeTypes
<1>8. SenderInv'
  <2>1. SenderOK(s)'
    BY ZenonT(30), <1>2, <1>3, SenderFacts DEF SenderOK
  <2> QED
    BY Zenon, <1>1, <1>2, <1>3, <2>1, OtherSenders
<1>9. ControlInv'
  <2>1. result = "none" /\ (snd'[s].pc # "closed" \/ (readClosed = TRUE /\ readCh = <<>>))
    BY <1>1, <1>3 DEF ControlInv
  <2> QED
    BY <1>1, <1>2, <2>1 DEF ControlInv
<1> QED
  BY <1>4, <1>5, <1>6, <1>7, <1>8, <1>9, Zenon DEF PipeInv

(* The length of the rest of a queue.                                      *)
LEMMA LenTail ==
  ASSUME NEW S, NEW q \in Seq(S), q # <<>>
  PROVE  /\ Len(q) > 1 \/ Len(q) = 1
         /\ Len(q) > 1 => Len(q) # 1 /\ Tail(q) # <<>>
         /\ Len(q) = 1 => Tail(q) = <<>>
<1>1. Len(q) \in Nat /\ Len(q) >= 1 /\ Tail(q) \in Seq(S) /\ Len(Tail(q)) = Len(q) - 1
  OBVIOUS
<1>2. \A e \in Seq(S) : e = <<>> <=> Len(e) = 0
  OBVIOUS
<1>3. Tail(q) = <<>> <=> Len(Tail(q)) = 0
  BY <1>1, <1>2, Zenon
<1>4. Len(Tail(q)) = 0 <=> Len(q) = 1
  BY <1>1
<1> QED
  BY <1>1, <1>3, <1>4

(* After the send the memory of the batch is released, chunk by chunk, and *)
(* the chunk that was put aside starts the next batch.                     *)
LEMMA ReleaseMemOnlyInv ==
  ASSUME PipeInv, NEW s \in Senders, ReleaseMemOnly(s)
  PROVE  PipeInv' /\ Freed' = Freed
<1> DEFINE t == [snd[s] EXCEPT !.batch = Tail(snd[s].batch)]
           c == [snd[s] EXCEPT !.pc = "closed", !.batch = <<>>]
           n == [pc |-> "recv", batch |-> <<snd[s].cc>>, cc |-> Nothing]
           i == snd[s].cc.id
<1>1. PipeTypes /\ PlacesInv /\ SlotInv
  BY Zenon DEF PipeInv
<1>2. /\ nextID' = nextID /\ feeding' = feeding /\ chunkCh' = chunkCh /\ rd' = rd /\ readCh' = readCh
      /\ readClosed' = readClosed /\ ack' = ack /\ stream' = stream /\ wire' = wire
      /\ acks' = acks /\ written' = written /\ cancelled' = cancelled /\ result' = result
      /\ base' = base /\ released' = released /\ waiters' = waiters /\ granted' = granted
      /\ errs' = errs /\ faulty' = faulty
  BY Zenon DEF ReleaseMemOnly, SenderKeeps, feedVars, netVars, winVars
<1>3. /\ snd[s].pc = "sent" /\ snd[s].batch # <<>> /\ snd[s].batch \in Seq(Chunk)
      /\ snd[s].cc \in Chunk \cup {Nothing} /\ snd[s] \in SenderRec /\ DistinctIDs(snd[s].batch)
      /\ snd[s].cc = Nothing => readClosed = TRUE /\ readCh = <<>>
  BY Zenon, SenderFacts DEF ReleaseMemOnly, SenderAt, SenderOK
<1>4. \/ snd' = [snd EXCEPT ![s] = t] /\ Len(snd[s].batch) > 1
      \/ snd' = [snd EXCEPT ![s] = c] /\ snd[s].cc = Nothing
      \/ snd' = [snd EXCEPT ![s] = n] /\ snd[s].cc # Nothing
  <2>1. snd' = [snd EXCEPT ![s] = CASE Len(snd[s].batch) > 1 -> t
                                    [] Len(snd[s].batch) = 1 /\ snd[s].cc = Nothing -> c
                                    [] OTHER -> n]
    BY DEF ReleaseMemOnly
  <2>2. (Len(snd[s].batch) > 1 \/ Len(snd[s].batch) = 1) /\ (Len(snd[s].batch) > 1 => Len(snd[s].batch) # 1)
    BY <1>3, LenTail
  <2> HIDE DEF t, c, n
  <2>3. CASE Len(snd[s].batch) > 1
    <3>1. (CASE Len(snd[s].batch) > 1 -> t [] Len(snd[s].batch) = 1 /\ snd[s].cc = Nothing -> c
             [] OTHER -> n) = t
      BY <2>2, <2>3
    <3> QED
      BY <2>1, <2>3, <3>1, Zenon
  <2>4. CASE Len(snd[s].batch) = 1
    <3>1. (CASE Len(snd[s].batch) > 1 -> t [] Len(snd[s].batch) = 1 /\ snd[s].cc = Nothing -> c
             [] OTHER -> n) = IF snd[s].cc = Nothing THEN c ELSE n
      BY <2>2, <2>4
    <3> QED
      BY <2>1, <3>1, Zenon
  <2> QED
    BY <2>2, <2>3, <2>4, Zenon
<1>5. Freed' = Freed
  BY <1>2, Zenon DEF Freed
<1>6. SenderOwns(s) = {}
  BY <1>3, Zenon DEF SenderOwns, SenderAt
<1>7. Tail(snd[s].batch) \in Seq(Chunk) /\ DistinctIDs(Tail(snd[s].batch))
      /\ (Len(snd[s].batch) > 1 => Tail(snd[s].batch) # <<>>)
  <2>1. Tail(snd[s].batch) \in Seq(Chunk) /\ DistinctIDs(Tail(snd[s].batch))
    BY Zenon, <1>3, TailChunk
  <2>2. Len(snd[s].batch) > 1 => Tail(snd[s].batch) # <<>>
    BY <1>3, LenTail
  <2> QED
    BY Zenon, <2>1, <2>2
<1>8. /\ snd[s].cc # Nothing => /\ n \in SenderRec /\ n.pc = "recv" /\ n.cc = Nothing /\ n.batch = <<snd[s].cc>>
                                /\ DistinctIDs(n.batch) /\ Owned(n.batch) = {i} /\ i \in ReqIDs
      /\ c \in SenderRec /\ c.pc = "closed" /\ c.cc = snd[s].cc /\ c.batch = <<>>
      /\ DistinctIDs(c.batch) /\ Owned(c.batch) = {}
      /\ t \in SenderRec /\ t.pc = "sent" /\ t.cc = snd[s].cc /\ t.batch = Tail(snd[s].batch)
  <2>1. ASSUME snd[s].cc # Nothing
        PROVE  /\ n \in SenderRec /\ n.pc = "recv" /\ n.cc = Nothing /\ n.batch = <<snd[s].cc>>
               /\ DistinctIDs(n.batch) /\ Owned(n.batch) = {i} /\ i \in ReqIDs
    <3>1. snd[s].cc \in Chunk
      BY <1>3, <2>1
    <3>2. <<snd[s].cc>> \in Seq(Chunk) /\ DOMAIN <<snd[s].cc>> = {1} /\ <<snd[s].cc>>[1] = snd[s].cc
      BY <3>1
    <3>3. n \in SenderRec
      BY <3>2 DEF SenderRec, SenderPc
    <3>4. DistinctIDs(<<snd[s].cc>>) /\ Owned(<<snd[s].cc>>) = {i}
      BY <3>2 DEF DistinctIDs, Owned
    <3> QED
      BY Zenon, <3>1, <3>3, <3>4 DEF Chunk
  <2>2. c \in SenderRec /\ t \in SenderRec
    <3>1. t \in SenderRec
      BY Zenon, <1>3, <1>7 DEF SenderRec, SenderPc
    <3>2. <<>> \in Seq(Chunk)
      OBVIOUS
    <3>3. c \in SenderRec
      BY Zenon, <1>3, <3>2 DEF SenderRec, SenderPc
    <3> QED
      BY <3>1, <3>3
  <2>3. c.pc = "closed" /\ c.cc = snd[s].cc /\ c.batch = <<>>
        /\ t.pc = "sent" /\ t.cc = snd[s].cc /\ t.batch = Tail(snd[s].batch)
    BY <1>3 DEF SenderRec
  <2> QED
    BY <2>1, <2>2, <2>3, EmptyQueues, Zenon
<1> HIDE DEF t, c, n, i
<1>9. ASSUME NEW w \in SenderRec, snd' = [snd EXCEPT ![s] = w],
             NEW m \in Spots, NEW z \in Owners, ~(m \in {"cc", "batch"} /\ z = s), NEW id \in ReqIDs
      PROVE  Has(m, z, id)' <=> Has(m, z, id)
  <2>1. \A q \in Senders : q # s => snd'[q] = snd[q]
    BY <1>9, SenderTypes
  <2>2. \A q \in Senders : q # s => SenderOwns(q)' = SenderOwns(q) /\ snd'[q].cc.id = snd[q].cc.id
    BY <2>1, Zenon DEF SenderOwns, SenderAt
  <2> QED
    BY Zenon, <1>2, <1>5, <1>9, <2>2, Unmoved
<1>10. ASSUME NEW w \in SenderRec, snd' = [snd EXCEPT ![s] = w], w.cc = snd[s].cc,
              w.pc = "sent" \/ Owned(w.batch) = {}
       PROVE  Carried
  <2>1. snd'[s] = w
    BY <1>10, SenderTypes
  <2>2. SenderOwns(s)' = {}
    BY Zenon, <1>10, <2>1 DEF SenderOwns, SenderAt
  <2>3. \A id \in ReqIDs : /\ Has("batch", s, id)' <=> Has("batch", s, id)
                           /\ Has("cc", s, id)' <=> Has("cc", s, id)
    BY ZenonT(30), <1>6, <1>10, <2>1, <2>2, Cells, CellsPrimed
  <2>4. \A id \in ReqIDs : Stay(id)
    BY Zenon, <1>9, <1>10, <2>3 DEF Stay
  <2> QED
    BY <2>4, Zenon DEF Carried, Handled
<1>20. /\ UNCHANGED <<feedVars, rd, readCh, readClosed, ack, netVars, errs, cancelled, faulty, result>>
       /\ base' \in Nat /\ base <= base' /\ released' \in [Slots -> BOOLEAN]
       /\ waiters' \subseteq ReqIDs /\ granted' \subseteq ReqIDs /\ \A g \in granted' : g < base' + Limit
  <2>1. base \in Nat /\ base <= base
    BY <1>1 DEF PipeTypes
  <2> QED
    BY <1>1, <1>2, <2>1, Zenon DEF PipeTypes, SlotInv, feedVars, netVars
<1>11. CASE snd' = [snd EXCEPT ![s] = t] /\ Len(snd[s].batch) > 1
  <2>1. Carried
    BY Zenon, <1>8, <1>10, <1>11
  <2>2. PipeInv'
    <3>1. /\ t \in SenderRec /\ snd[s].pc \in {"sent", "drop"} /\ (snd[s].pc = "drop" <=> t.pc = "drop")
          /\ DistinctIDs(t.batch) /\ t.pc \in {"recv", "sent", "drop", "closed"}
          /\ t.pc \notin {"recv", "closed"}
          /\ t.batch # <<>> /\ (t.cc = Nothing => readClosed = TRUE /\ readCh = <<>>)
      BY Zenon, <1>3, <1>7, <1>8, <1>11
    <3> QED
      BY Zenon, <1>11, <1>20, <2>1, <3>1, SenderStepInv
  <2> QED
    BY <1>5, <2>2
<1>12. CASE snd' = [snd EXCEPT ![s] = c] /\ snd[s].cc = Nothing
  <2>1. Carried
    BY Zenon, <1>8, <1>10, <1>12
  <2>2. PipeInv'
    <3>1. /\ c \in SenderRec /\ snd[s].pc \in {"sent", "drop"} /\ (snd[s].pc = "drop" <=> c.pc = "drop")
          /\ DistinctIDs(c.batch) /\ c.pc \in {"recv", "sent", "drop", "closed"}
          /\ c.cc = Nothing /\ c.pc # "sent"
          /\ c.batch = <<>> /\ readClosed = TRUE /\ readCh = <<>>
      BY Zenon, <1>3, <1>8, <1>12
    <3> QED
      BY Zenon, <1>12, <1>20, <2>1, <3>1, SenderStepInv
  <2> QED
    BY <1>5, <2>2
<1>13. CASE snd' = [snd EXCEPT ![s] = n] /\ snd[s].cc # Nothing
  <2>1. n \in SenderRec /\ i \in ReqIDs /\ n.pc = "recv" /\ n.cc = Nothing /\ Owned(n.batch) = {i}
    BY <1>8, <1>13
  <2>2. snd'[s] = n
    BY Zenon, <1>13, <2>1, SenderTypes
  <2>3. SenderOwns(s)' = {i}
    BY Zenon, <2>1, <2>2 DEF SenderOwns, SenderAt
  <2>4. Has("cc", s, i) /\ \A id \in ReqIDs : Has("cc", s, id) => id = i
    BY ZenonT(30), Cells DEF i
  <2>5. \A id \in ReqIDs : ~Has("cc", s, id)'
    BY <2>1, <2>2, CellsPrimed, ChunkOrNothing, IDs
  <2>6. Leave({i}, "cc", s)
    BY Zenon, <2>1, <2>4, <2>5 DEF Leave
  <2>7. Enter({i}, "batch", s)
    BY Zenon, <1>6, <2>3, Cells, CellsPrimed DEF Enter
  <2>8. Elsewhere("cc", s, "batch", s)
    BY Zenon, <1>9, <1>13, <2>1 DEF Elsewhere
  <2>9. \A id \in ReqIDs : IF id \in {i} THEN Goes(id, "batch", s) ELSE Stay(id)
    BY Zenon, <2>6, <2>7, <2>8, Move, SpotsOwners
  <2>10. i < base + Limit
    BY <1>1, <2>1, <2>4, SpotsOwners, Zenon DEF PlacesInv, Holding
  <2>11. Arrives(i, "batch")
    BY <1>2, <2>10 DEF Arrives, Holding
  <2>12. Carried
    BY <2>9, <2>11, SpotsOwners, Zenon DEF Carried, Handled
  <2>13. PipeInv'
    <3>1. /\ n \in SenderRec /\ snd[s].pc \in {"sent", "drop"} /\ (snd[s].pc = "drop" <=> n.pc = "drop")
          /\ DistinctIDs(n.batch) /\ n.pc \in {"recv", "sent", "drop", "closed"}
          /\ n.cc = Nothing /\ n.pc # "sent" /\ n.pc # "closed"
      BY Zenon, <1>3, <1>8, <1>13
    <3> QED
      BY Zenon, <1>13, <1>20, <2>12, <3>1, SenderStepInv
  <2> QED
    BY <1>5, <2>13
<1> QED
  BY <1>4, <1>11, <1>12, <1>13, Zenon

(* The sender gives up a chunk of its batch or the one put aside: it       *)
(* releases its slot and its memory.                                       *)
LEMMA SendDropInv ==
  ASSUME PipeInv, NEW s \in Senders, SendDrop(s)
  PROVE  /\ PipeInv' /\ faulty = TRUE
         /\ \E id \in ReqIDs \ Freed : id < nextID /\ Freed' = Freed \cup {id}
<1> DEFINE p == snd[s].batch \o (IF snd[s].cc = Nothing THEN <<>> ELSE <<snd[s].cc>>)
           h == Head(p)
           w == [snd[s] EXCEPT !.batch = Tail(p), !.cc = Nothing]
<1>1. PipeTypes /\ PlacesInv /\ SlotInv
  BY Zenon DEF PipeInv
<1>2. /\ nextID' = nextID /\ feeding' = feeding /\ chunkCh' = chunkCh /\ rd' = rd /\ readCh' = readCh
      /\ readClosed' = readClosed /\ ack' = ack /\ stream' = stream /\ wire' = wire
      /\ acks' = acks /\ written' = written /\ cancelled' = cancelled /\ result' = result
      /\ errs' = errs /\ faulty' = faulty
  BY Zenon DEF SendDrop, SenderKeeps, feedVars, netVars
<1>3. /\ snd[s].pc = "drop" /\ snd[s].batch \in Seq(Chunk) /\ DistinctIDs(snd[s].batch)
      /\ snd[s].cc \in Chunk \cup {Nothing} /\ snd[s] \in SenderRec /\ faulty = TRUE
  BY Zenon, SenderFacts DEF SendDrop, SenderAt, SenderOK
<1>4. p # <<>> /\ WinRelease(h.id) /\ snd' = [snd EXCEPT ![s] = w]
  <2>1. snd' = [snd EXCEPT ![s].batch = Tail(p), ![s].cc = Nothing] /\ p # <<>> /\ WinRelease(h.id)
    BY Zenon DEF SendDrop
  <2>2. snd \in [Senders -> SenderRec]
    BY SenderTypes
  <2> HIDE DEF p
  <2>3. [snd EXCEPT ![s].batch = Tail(p), ![s].cc = Nothing] = [snd EXCEPT ![s] = w]
    BY Zenon, <1>3, <2>2 DEF SenderRec
  <2> QED
    BY <2>1, <2>3, Zenon
<1>5. SenderOwns(s) = Owned(snd[s].batch)
  BY Zenon, <1>3 DEF SenderOwns, SenderAt
<1>6. /\ p \in Seq(Chunk) /\ DistinctIDs(p)
      /\ Owned(p) = Owned(snd[s].batch) \cup (IF snd[s].cc = Nothing THEN {} ELSE {snd[s].cc.id})
  <2>1. CASE snd[s].cc = Nothing
    <3>1. p = snd[s].batch
      BY <1>3, <2>1
    <3> QED
      BY <1>3, <2>1, <3>1, Zenon
  <2>2. CASE snd[s].cc # Nothing
    <3>1. snd[s].cc \in Chunk /\ snd[s].cc.id \in ReqIDs
      BY Zenon, <1>3, <2>2, ChunkOrNothing
    <3>2. p = Append(snd[s].batch, snd[s].cc)
      BY SMTT(30), <1>3, <2>2, <3>1
    <3>3. snd[s].cc.id \notin Owned(snd[s].batch)
      <4>1. Has("cc", s, snd[s].cc.id)
        BY Cells
      <4>2. ~Has("batch", s, snd[s].cc.id)
        BY Zenon, <3>1, <4>1, OnlyHere, SpotsOwners
      <4> QED
        BY SMTT(30), <1>5, <4>2, Cells
    <3>4. /\ Append(snd[s].batch, snd[s].cc) \in Seq(Chunk) /\ DistinctIDs(Append(snd[s].batch, snd[s].cc))
          /\ Owned(Append(snd[s].batch, snd[s].cc)) = Owned(snd[s].batch) \cup {snd[s].cc.id}
      BY Zenon, <1>3, <3>1, <3>3, AppendChunk
    <3> QED
      BY <2>2, <3>2, <3>4, Zenon
  <2> QED
    BY <2>1, <2>2
<1> HIDE DEF p
<1>7. /\ Tail(p) \in Seq(Chunk) /\ h \in Chunk /\ h.id \in ReqIDs
      /\ Owned(p) = Owned(Tail(p)) \cup {h.id} /\ DistinctIDs(Tail(p)) /\ h.id \notin Owned(Tail(p))
  BY Zenon, <1>4, <1>6, TailChunk
<1>8. \A id \in Owned(p) : id \in ReqIDs /\ (Has("batch", s, id) \/ Has("cc", s, id))
  <2>1. \A id \in Owned(p) : id \in Owned(snd[s].batch) \/ id = snd[s].cc.id
    BY <1>6, Zenon
  <2>2. \A id \in Owned(p) : id \in ReqIDs
    BY SMTT(30), <1>6, ChunkIDs DEF Range
  <2> QED
    BY Zenon, <1>5, <2>1, <2>2, Cells
<1>9. \A id \in ReqIDs : id \notin Owned(p) => ~Has("batch", s, id) /\ ~Has("cc", s, id)
  <2>1. \A id \in ReqIDs : id \notin Owned(p) => id \notin Owned(snd[s].batch) /\ id # snd[s].cc.id
    BY <1>6, ChunkOrNothing, IDs, Zenon
  <2> QED
    BY <1>5, <2>1, Cells
<1>10. w \in SenderRec /\ w.pc = "drop" /\ w.batch = Tail(p) /\ w.cc = Nothing
  BY Zenon, <1>3, <1>7 DEF SenderRec, SenderPc
<1> HIDE DEF h, w
<1>11. snd'[s] = w /\ \A q \in Senders : q # s => snd'[q] = snd[q]
  BY <1>4, <1>10, SenderTypes
<1>12. h.id \in Owned(p) /\ h.id < base + Limit
  <2>1. h.id \in Owned(p)
    BY <1>7, Zenon
  <2> QED
    BY <1>1, <1>8, <2>1, SpotsOwners, Zenon DEF PlacesInv, Holding
<1>13. /\ base' \in Nat /\ base <= base' /\ released' \in [Slots -> BOOLEAN]
       /\ Freed' = Freed \cup {h.id} /\ h.id \notin Freed
       /\ waiters' \subseteq ReqIDs /\ granted' \subseteq ReqIDs /\ \A g \in granted' : g < base' + Limit
  BY Zenon, <1>4, <1>7, <1>8, <1>12, ReleaseHeld, SpotsOwners
<1>14. h.id < nextID
  <2>1. ~Has("unfed", Nobody, h.id)
    BY Zenon, <1>7, <1>8, <1>12, OnlyHere, SpotsOwners
  <2>2. ~(nextID <= h.id)
    BY <2>1, Cells
  <2>3. nextID \in Nat /\ h.id \in Nat
    BY <1>1, <1>7, ReqIDsAssumption, Zenon DEF PipeTypes
  <2> QED
    BY <2>2, <2>3
<1>15. ASSUME NEW m \in Spots, NEW z \in Owners, ~(m \in {"cc", "batch"} /\ z = s), m # "free", NEW id \in ReqIDs
       PROVE  Has(m, z, id)' <=> Has(m, z, id)
  <2>1. \A q \in Senders : q # s => SenderOwns(q)' = SenderOwns(q) /\ snd'[q].cc.id = snd[q].cc.id
    BY <1>11, Zenon DEF SenderOwns, SenderAt
  <2> QED
    BY Zenon, <1>2, <1>15, <2>1, Unmoved
<1>16. ASSUME NEW id \in Owned(p), NEW m \in Spots, NEW z \in Owners, ~(m \in {"cc", "batch"} /\ z = s)
       PROVE  ~Has(m, z, id)
  BY Zenon, <1>8, <1>16, OnlyHere, SpotsOwners
<1>17. \A id \in ReqIDs : /\ Has("batch", s, id)' <=> id \in Owned(Tail(p))
                          /\ ~Has("cc", s, id)'
                          /\ \A z \in Owners : Has("free", z, id)' <=> Has("free", z, id) \/ (z = Nobody /\ id = h.id)
  <2>1. SenderOwns(s)' = Owned(Tail(p))
    BY Zenon, <1>10, <1>11 DEF SenderOwns, SenderAt
  <2>2. \A id \in ReqIDs : id # snd'[s].cc.id
    BY Zenon, <1>10, <1>11, ChunkOrNothing, IDs
  <2> QED
    BY <1>13, <2>1, <2>2, Cells, CellsPrimed
<1>18. Carried
  <2> SUFFICES ASSUME NEW id \in ReqIDs PROVE Handled(id)
    BY Zenon DEF Carried
  <2>1. CASE id = h.id
    <3>1. Goes(id, "free", Nobody)
      <4> SUFFICES ASSUME NEW m \in Spots, NEW z \in Owners
                   PROVE  Has(m, z, id)' <=> m = "free" /\ z = Nobody
        BY Zenon DEF Goes
      <4>1. CASE m \in {"cc", "batch"} /\ z = s
        BY Zenon, <1>7, <1>17, <2>1, <4>1
      <4>2. CASE m = "free"
        BY Zenon, <1>12, <1>16, <1>17, <2>1, <4>2
      <4>3. CASE m # "free" /\ ~(m \in {"cc", "batch"} /\ z = s)
        BY Zenon, <1>12, <1>15, <1>16, <2>1, <4>3
      <4> QED
        BY <4>1, <4>2, <4>3, Zenon
    <3>2. ~Lossless'
      BY <1>10, <1>11, Zenon DEF Lossless
    <3>3. Arrives(id, "free")
      BY <3>2 DEF Arrives, Holding
    <3> QED
      BY <3>1, <3>3, SpotsOwners, Zenon DEF Handled
  <2>2. CASE id \in Owned(Tail(p))
    <3>1. id \in Owned(p) /\ id # h.id
      BY <1>7, <2>2, Zenon
    <3>2. Goes(id, "batch", s)
      <4> SUFFICES ASSUME NEW m \in Spots, NEW z \in Owners
                   PROVE  Has(m, z, id)' <=> m = "batch" /\ z = s
        BY Zenon DEF Goes
      <4>1. CASE m \in {"cc", "batch"} /\ z = s
        BY Zenon, <1>17, <2>2, <4>1
      <4>2. CASE m = "free"
        BY Zenon, <1>16, <1>17, <3>1, <4>2
      <4>3. CASE m # "free" /\ ~(m \in {"cc", "batch"} /\ z = s)
        BY Zenon, <1>15, <1>16, <3>1, <4>3
      <4> QED
        BY <4>1, <4>2, <4>3, Zenon
    <3>3. id < base + Limit
      BY <1>1, <1>8, <3>1, SpotsOwners, Zenon DEF PlacesInv, Holding
    <3>4. id < base' + Limit
      BY <1>1, <1>13, <3>3, Further, IDs, LimitPositive, Zenon DEF PipeTypes
    <3>5. Arrives(id, "batch")
      BY <3>4 DEF Arrives, Holding
    <3> QED
      BY <3>2, <3>5, SpotsOwners, Zenon DEF Handled
  <2>3. CASE id \notin Owned(p)
    <3>1. id # h.id /\ id \notin Owned(Tail(p))
      BY <1>7, <2>3, Zenon
    <3>2. Stay(id)
      <4> SUFFICES ASSUME NEW m \in Spots, NEW z \in Owners
                   PROVE  Has(m, z, id)' <=> Has(m, z, id)
        BY Zenon DEF Stay
      <4>1. CASE m \in {"cc", "batch"} /\ z = s
        BY Zenon, <1>9, <1>17, <2>3, <3>1, <4>1
      <4>2. CASE m = "free"
        BY Zenon, <1>17, <3>1, <4>2
      <4>3. CASE m # "free" /\ ~(m \in {"cc", "batch"} /\ z = s)
        BY <1>15, <4>3
      <4> QED
        BY <4>1, <4>2, <4>3, Zenon
    <3> QED
      BY <3>2, Zenon DEF Handled
  <2> QED
    BY <1>7, <2>1, <2>2, <2>3, Zenon
<1>19. PipeInv'
  BY ZenonT(30), <1>2, <1>3, <1>4, <1>7, <1>10, <1>13, <1>18, SenderStepInv DEF feedVars, netVars
<1> QED
  BY Zenon, <1>3, <1>7, <1>13, <1>14, <1>19

-----------------------------------------------------------------------------
(* Acknowledging                                                           *)

(* A step that takes the ack receiver of s to w.                           *)
LEMMA AckStepInv ==
  ASSUME PipeInv, NEW s \in Senders, NEW w \in AckRec, ack' = [ack EXCEPT ![s] = w],
         UNCHANGED <<feedVars, readVars, snd, stream, wire, written, cancelled, faulty, result, errs>>,
         acks' \in [Senders -> Seq(Seq(ReqIDs))], \A q \in Senders : q # s => acks'[q] = acks[q],
         DistinctIn(acks'[s]), NonEmpty(acks'[s]), acks[s] = <<>> => acks'[s] = <<>>,
         Distinct(w.ids), (w.pc = "release") <=> (w.ids # <<>>),
         ack[s].pc \in {"recv", "release"}, w.pc \in {"recv", "release"},
         Carried, base' \in Nat, base <= base', released' \in [Slots -> BOOLEAN],
         waiters' \subseteq ReqIDs, granted' \subseteq ReqIDs, \A g \in granted' : g < base' + Limit
  PROVE  PipeInv'
<1>1. PipeTypes /\ PlacesInv /\ QueueInv /\ SlotInv /\ ReaderInv /\ SenderInv /\ ControlInv /\ WrittenFed
  BY Zenon DEF PipeInv
<1>2. /\ nextID' = nextID /\ feeding' = feeding /\ chunkCh' = chunkCh /\ rd' = rd /\ readCh' = readCh
      /\ readClosed' = readClosed /\ snd' = snd /\ stream' = stream /\ wire' = wire
      /\ written' = written /\ cancelled' = cancelled /\ result' = result
      /\ errs' = errs /\ faulty' = faulty
  BY Zenon DEF feedVars, readVars
<1>3. /\ ack' \in [Senders -> AckRec] /\ ack'[s] = w /\ \A q \in Senders : q # s => ack'[q] = ack[q]
  BY SenderTypes
<1>4. PipeTypes'
  BY <1>1, <1>2, <1>3, Zenon DEF PipeTypes, AckRec
<1>5. PlacesInv'
  <2>1. Lossless' => Lossless
    BY <1>2, Zenon DEF Lossless
  <2>2. Advance
    BY <1>1, <1>2, <2>1, Zenon DEF Advance
  <2> QED
    BY <1>1, <2>2, CarriedPlaces DEF PipeTypes
<1>6. QueueInv' /\ ReaderInv' /\ WrittenFed'
  BY <1>1, <1>2, <1>3, Zenon DEF QueueInv, ReaderInv, WrittenFed
<1>7. SlotInv'
  <2> SUFFICES ASSUME NEW q \in Readers, rd[q].win = TRUE PROVE rd[q].id < base' + Limit
    BY <1>2, Zenon DEF SlotInv
  <2>1. rd[q].id < base + Limit /\ rd[q].id \in ReqIDs
    BY Zenon, ReaderAt DEF ReaderOK
  <2> QED
    BY <1>1, <2>1, Further, IDs, LimitPositive, Zenon DEF PipeTypes
<1>8. SenderInv'
  <2>1. SenderOK(s)'
    BY ZenonT(60), <1>2, <1>3, SenderFacts DEF SenderOK
  <2> QED
    BY Zenon, <1>1, <1>2, <1>3, <2>1, OtherSenders
<1>9. ControlInv'
  <2>1. result = "none"
    BY <1>1 DEF ControlInv
  <2> QED
    BY <1>1, <1>2, <2>1 DEF ControlInv
<1> QED
  BY <1>4, <1>5, <1>6, <1>7, <1>8, <1>9, Zenon DEF PipeInv

(* The ack receiver takes an ack from the stream.                          *)
LEMMA AckRecvInv ==
  ASSUME PipeInv, NEW s \in Senders, AckRecv(s)
  PROVE  PipeInv' /\ Freed' = Freed
<1> DEFINE b == Head(acks[s])
           w == [pc |-> "release", ids |-> b]
           M == Range(b)
<1>1. PipeTypes /\ PlacesInv /\ SlotInv
  BY Zenon DEF PipeInv
<1>2. /\ nextID' = nextID /\ chunkCh' = chunkCh /\ rd' = rd /\ readCh' = readCh
      /\ snd' = snd /\ stream' = stream /\ wire' = wire /\ written' = written
      /\ base' = base /\ released' = released /\ waiters' = waiters /\ granted' = granted
      /\ UNCHANGED <<feedVars, readVars, snd, stream, wire, written, cancelled, faulty, result, errs>>
  BY Zenon DEF AckRecv, AckKeeps, feedVars, readVars, winVars
<1>3. /\ ack[s].pc = "recv" /\ acks[s] # <<>> /\ ack' = [ack EXCEPT ![s] = w]
      /\ acks' = [acks EXCEPT ![s] = Tail(acks[s])]
  BY DEF AckRecv
<1>4. ack[s].ids = <<>> /\ ack[s] \in AckRec /\ acks[s] \in Seq(Seq(ReqIDs)) /\ DistinctIn(acks[s]) /\ NonEmpty(acks[s])
  BY Zenon, <1>3, SenderFacts DEF SenderOK
<1>5. /\ Tail(acks[s]) \in Seq(Seq(ReqIDs)) /\ b \in Seq(ReqIDs) /\ Distinct(b) /\ b # <<>>
      /\ Flat(acks[s]) = Flat(Tail(acks[s])) \cup M /\ Flat(Tail(acks[s])) \cap M = {}
      /\ DistinctIn(Tail(acks[s])) /\ NonEmpty(Tail(acks[s]))
  BY Zenon, <1>3, <1>4, TailBatch
<1>6. w \in AckRec /\ w.pc = "release" /\ w.ids = b
  BY Zenon, <1>5 DEF AckRec, AckPc
<1>7. M \subseteq ReqIDs
  BY <1>5 DEF Range
<1>8. Range(ack[s].ids) = {}
  BY <1>4 DEF Range
<1> HIDE DEF b, w, M
<1>9. /\ acks' \in [Senders -> Seq(Seq(ReqIDs))] /\ acks'[s] = Tail(acks[s])
      /\ \A q \in Senders : q # s => acks'[q] = acks[q]
  BY <1>1, <1>3, <1>5, Zenon DEF PipeTypes
<1>10. ack'[s] = w /\ \A q \in Senders : q # s => ack'[q] = ack[q]
  BY Zenon, <1>3, <1>6, SenderTypes
<1>11. Freed' = Freed
  BY <1>2, Zenon DEF Freed
<1>12. \A id \in M : Has("acks", s, id)
  BY <1>5, Cells
<1>13. \A id \in M : id < base + Limit /\ id \in written
  <2>1. \A id \in M : id < base + Limit
    BY <1>1, <1>7, <1>12, SpotsOwners, Zenon DEF PlacesInv, Holding
  <2>2. \A id \in M : id \in written
    BY <1>1, <1>7, <1>12, SpotsOwners, Zenon DEF PlacesInv
  <2> QED
    BY <2>1, <2>2
<1>14. Carried
  <2>1. Leave(M, "acks", s)
    BY Zenon, <1>5, <1>7, <1>9, <1>12, Cells, CellsPrimed DEF Leave
  <2>2. Enter(M, "ack", s)
    <3>1. Range(w.ids) = M
      BY <1>6 DEF M
    <3> QED
      BY Zenon, <1>8, <1>10, <3>1, Cells, CellsPrimed DEF Enter
  <2>3. Elsewhere("acks", s, "ack", s)
    <3> SUFFICES ASSUME NEW m \in Spots, NEW z \in Owners, ~(m = "acks" /\ z = s),
                        ~(m = "ack" /\ z = s), NEW id \in ReqIDs
                 PROVE  Has(m, z, id)' <=> Has(m, z, id)
      BY Zenon DEF Elsewhere
    <3>1. \A q \in Senders : SenderOwns(q)' = SenderOwns(q)
      BY <1>2, ZenonT(30) DEF SenderOwns, SenderAt
    <3>2. \A q \in Senders : q # s => acks'[q] = acks[q] /\ ack'[q].ids = ack[q].ids
      BY Zenon, <1>9, <1>10
    <3> QED
      BY Zenon, <1>2, <1>11, <3>1, <3>2, Unmoved
  <2>4. \A id \in ReqIDs : IF id \in M THEN Goes(id, "ack", s) ELSE Stay(id)
    BY Zenon, <2>1, <2>2, <2>3, Move, SpotsOwners
  <2>5. \A id \in M : Arrives(id, "ack")
    BY <1>2, <1>13 DEF Arrives, Holding
  <2> QED
    BY <2>4, <2>5, SpotsOwners, Zenon DEF Carried, Handled
<1>15. /\ base' \in Nat /\ base <= base' /\ released' \in [Slots -> BOOLEAN]
       /\ waiters' \subseteq ReqIDs /\ granted' \subseteq ReqIDs /\ \A g \in granted' : g < base' + Limit
  <2>1. base \in Nat /\ base <= base
    BY <1>1 DEF PipeTypes
  <2> QED
    BY <1>1, <1>2, <2>1, Zenon DEF PipeTypes, SlotInv
<1>16. PipeInv'
  <2>1. /\ DistinctIn(acks'[s]) /\ NonEmpty(acks'[s]) /\ (acks[s] = <<>> => acks'[s] = <<>>)
        /\ Distinct(w.ids) /\ ((w.pc = "release") <=> (w.ids # <<>>))
        /\ ack[s].pc \in {"recv", "release"} /\ w.pc \in {"recv", "release"}
    BY <1>3, <1>5, <1>6, <1>9
  <2> QED
    BY ZenonT(30), <1>2, <1>3, <1>6, <1>9, <1>14, <1>15, <2>1, AckStepInv
<1> QED
  BY <1>11, <1>16

(* The ack receiver releases the next id of the ack.                       *)
LEMMA AckReleaseInv ==
  ASSUME PipeInv, NEW s \in Senders, AckRelease(s)
  PROVE  /\ PipeInv'
         /\ \E id \in ReqIDs \ Freed : id \in written /\ Freed' = Freed \cup {id}
<1> DEFINE q0 == ack[s].ids
           h == Head(q0)
           w == [pc |-> IF Len(q0) > 1 THEN "release" ELSE "recv", ids |-> Tail(q0)]
<1>1. PipeTypes /\ PlacesInv /\ SlotInv
  BY Zenon DEF PipeInv
<1>2. /\ nextID' = nextID /\ chunkCh' = chunkCh /\ rd' = rd /\ readCh' = readCh
      /\ snd' = snd /\ stream' = stream /\ wire' = wire /\ written' = written /\ acks' = acks
      /\ UNCHANGED <<feedVars, readVars, snd, stream, wire, written, cancelled, faulty, result, errs>>
  BY Zenon DEF AckRelease, AckKeeps, feedVars, readVars
<1>3. ack[s].pc = "release" /\ WinRelease(h) /\ ack' = [ack EXCEPT ![s] = w]
  BY DEF AckRelease
<1>4. q0 # <<>> /\ q0 \in Seq(ReqIDs) /\ Distinct(q0) /\ DistinctIn(acks[s]) /\ NonEmpty(acks[s])
  BY Zenon, <1>3, SenderFacts DEF SenderOK
<1>5. /\ Tail(q0) \in Seq(ReqIDs) /\ h \in ReqIDs /\ Distinct(Tail(q0)) /\ h \notin Range(Tail(q0))
      /\ Range(q0) = Range(Tail(q0)) \cup {h}
  BY Zenon, <1>4, TailRange
<1>6. /\ w \in AckRec /\ w.ids = Tail(q0) /\ w.pc \in {"recv", "release"}
      /\ ((w.pc = "release") <=> (w.ids # <<>>))
  <2>1. Tail(q0) # <<>> <=> Len(q0) > 1
    BY Zenon, <1>4, LenTail
  <2> QED
    BY Zenon, <1>5, <2>1 DEF AckRec, AckPc
<1>7. Has("ack", s, h)
  BY ZenonT(30), <1>5, Cells
<1> HIDE DEF q0, h, w
<1>8. ack'[s] = w /\ \A q \in Senders : q # s => ack'[q] = ack[q]
  BY <1>3, <1>6, SenderTypes
<1>9. h < base + Limit /\ h \in written
  <2>1. h < base + Limit
    BY <1>1, <1>5, <1>7, SpotsOwners, Zenon DEF PlacesInv, Holding
  <2>2. h \in written
    BY <1>1, <1>5, <1>7, SpotsOwners, Zenon DEF PlacesInv
  <2> QED
    BY <2>1, <2>2
<1>10. /\ base' \in Nat /\ base <= base' /\ released' \in [Slots -> BOOLEAN]
       /\ Freed' = Freed \cup {h} /\ h \notin Freed
       /\ waiters' \subseteq ReqIDs /\ granted' \subseteq ReqIDs /\ \A g \in granted' : g < base' + Limit
  BY Zenon, <1>3, <1>5, <1>7, <1>9, ReleaseHeld, SpotsOwners
<1>11. Carried
  <2>1. Leave({h}, "ack", s)
    <3>1. Range(ack[s].ids) = Range(ack'[s].ids) \cup {h} /\ h \notin Range(ack'[s].ids)
      BY Zenon, <1>5, <1>6, <1>8 DEF q0
    <3> QED
      BY Zenon, <1>5, <1>7, <3>1, AtAck DEF Leave
  <2>2. Enter({h}, "free", Nobody)
    BY Zenon, <1>10, Cells, CellsPrimed DEF Enter
  <2>3. Elsewhere("ack", s, "free", Nobody)
    <3> SUFFICES ASSUME NEW m \in Spots, NEW z \in Owners, ~(m = "ack" /\ z = s),
                        ~(m = "free" /\ z = Nobody), NEW id \in ReqIDs
                 PROVE  Has(m, z, id)' <=> Has(m, z, id)
      BY Zenon DEF Elsewhere
    <3>1. \A q \in Senders : SenderOwns(q)' = SenderOwns(q)
      BY <1>2, Zenon DEF SenderOwns, SenderAt
    <3>2. \A q \in Senders : q # s => ack'[q].ids = ack[q].ids
      BY Zenon, <1>8
    <3> QED
      BY Zenon, <1>2, <3>1, <3>2, Unmoved
  <2>4. \A id \in ReqIDs : IF id \in {h} THEN Goes(id, "free", Nobody) ELSE Stay(id)
    BY Zenon, <2>1, <2>2, <2>3, Move, SpotsOwners
  <2>5. Arrives(h, "free")
    BY <1>2, <1>9 DEF Arrives, Holding
  <2> QED
    BY <2>4, <2>5, SpotsOwners, Zenon DEF Carried, Handled
<1>12. PipeInv'
  <2>1. /\ Distinct(w.ids) /\ ack[s].pc \in {"recv", "release"}
        /\ acks' \in [Senders -> Seq(Seq(ReqIDs))] /\ \A q \in Senders : q # s => acks'[q] = acks[q]
        /\ DistinctIn(acks'[s]) /\ NonEmpty(acks'[s]) /\ (acks[s] = <<>> => acks'[s] = <<>>)
    BY <1>1, <1>2, <1>3, <1>4, <1>5, <1>6 DEF PipeTypes
  <2> QED
    BY Zenon, <1>2, <1>3, <1>6, <1>10, <1>11, <2>1, AckStepInv
<1> QED
  BY <1>5, <1>9, <1>10, <1>12

(* The destination writes a batch and acknowledges it.                     *)
LEMMA ServerWriteInv ==
  ASSUME PipeInv, NEW s \in Senders, ServerWrite(s)
  PROVE  /\ PipeInv' /\ Freed' = Freed
         /\ \E W \in SUBSET {id \in ReqIDs : id < nextID} : written' = written \cup W
<1> DEFINE b == Head(wire[s])
           M == Range(b)
<1>1. PipeTypes /\ PlacesInv /\ QueueInv /\ SlotInv /\ ReaderInv /\ SenderInv /\ ControlInv /\ WrittenFed
  BY Zenon DEF PipeInv
<1>2. /\ nextID' = nextID /\ feeding' = feeding /\ chunkCh' = chunkCh /\ rd' = rd /\ readCh' = readCh
      /\ readClosed' = readClosed /\ snd' = snd /\ ack' = ack /\ stream' = stream
      /\ cancelled' = cancelled /\ result' = result
      /\ base' = base /\ released' = released /\ waiters' = waiters /\ granted' = granted
      /\ errs' = errs /\ faulty' = faulty
  BY Zenon DEF ServerWrite, NetKeeps, feedVars, readVars, winVars
<1>3. /\ wire[s] # <<>> /\ written' = written \cup M
      /\ acks' = [acks EXCEPT ![s] = IF stream[s] = "open" THEN Append(acks[s], b) ELSE acks[s]]
      /\ wire' = [wire EXCEPT ![s] = Tail(wire[s])]
  BY DEF ServerWrite
<1>4. /\ wire[s] \in Seq(Seq(ReqIDs)) /\ DistinctIn(wire[s]) /\ NonEmpty(wire[s])
      /\ acks[s] \in Seq(Seq(ReqIDs)) /\ DistinctIn(acks[s]) /\ NonEmpty(acks[s])
      /\ stream[s] \in {"open", "broken"}
  <2>1. stream[s] \in {"none", "open", "eof", "broken"}
    BY Zenon, SenderTypes
  <2> QED
    BY Zenon, <1>3, <2>1, SenderFacts DEF SenderOK
<1>5. /\ Tail(wire[s]) \in Seq(Seq(ReqIDs)) /\ b \in Seq(ReqIDs) /\ Distinct(b) /\ b # <<>>
      /\ Flat(wire[s]) = Flat(Tail(wire[s])) \cup M /\ Flat(Tail(wire[s])) \cap M = {}
      /\ DistinctIn(Tail(wire[s])) /\ NonEmpty(Tail(wire[s]))
  BY Zenon, <1>3, <1>4, TailBatch
<1>6. M \subseteq {id \in ReqIDs : id < nextID}
  BY Zenon, <1>3, WireFed
<1>7. \A id \in M : Has("wire", s, id)
  BY Zenon, <1>5, Cells
<1>8. Flat(acks[s]) \cap M = {}
  <2>1. \A id \in M : ~Has("acks", s, id)
    BY Zenon, <1>6, <1>7, OnlyHere, SpotsOwners
  <2> QED
    BY Zenon, <2>1, Cells
<1>9. /\ Append(acks[s], b) \in Seq(Seq(ReqIDs)) /\ Flat(Append(acks[s], b)) = Flat(acks[s]) \cup M
      /\ DistinctIn(Append(acks[s], b)) /\ NonEmpty(Append(acks[s], b))
  BY Zenon, <1>4, <1>5, <1>8, AppendBatch
<1> HIDE DEF b, M
<1>10. /\ acks' \in [Senders -> Seq(Seq(ReqIDs))] /\ \A q \in Senders : q # s => acks'[q] = acks[q]
       /\ acks'[s] = IF stream[s] = "open" THEN Append(acks[s], b) ELSE acks[s]
       /\ wire' \in [Senders -> Seq(Seq(ReqIDs))] /\ \A q \in Senders : q # s => wire'[q] = wire[q]
       /\ wire'[s] = Tail(wire[s])
  BY Zenon, <1>1, <1>3, <1>4, <1>5, <1>9 DEF PipeTypes
<1>11. PipeTypes'
  <2>1. written' \subseteq ReqIDs
    BY <1>1, <1>3, <1>6 DEF PipeTypes
  <2> QED
    BY <1>1, <1>2, <1>10, <2>1, Zenon DEF PipeTypes
<1>12. Freed' = Freed
  BY <1>2, Zenon DEF Freed
<1>13. Leave(M, "wire", s)
  BY Zenon, <1>5, <1>6, <1>7, <1>10, Cells, CellsPrimed DEF Leave
<1>14. ASSUME NEW m \in Spots, NEW z \in Owners, ~(m \in {"wire", "acks"} /\ z = s), NEW id \in ReqIDs
       PROVE  Has(m, z, id)' <=> Has(m, z, id)
  <2>1. \A q \in Senders : SenderOwns(q)' = SenderOwns(q)
    BY <1>2, Zenon DEF SenderOwns, SenderAt
  <2>2. \A q \in Senders : q # s => acks'[q] = acks[q] /\ wire'[q] = wire[q]
    BY Zenon, <1>10
  <2> QED
    BY Zenon, <1>2, <1>12, <1>14, <2>1, <2>2, Unmoved
<1>15. ASSUME stream[s] = "open" PROVE Carried
  <2>1. Flat(acks'[s]) = Flat(acks[s]) \cup M
    BY <1>9, <1>10, <1>15, ZenonT(30)
  <2>2. Enter(M, "acks", s)
    BY <2>1, Cells, CellsPrimed DEF Enter
  <2>3. Elsewhere("wire", s, "acks", s)
    BY <1>14 DEF Elsewhere
  <2>4. \A id \in ReqIDs : IF id \in M THEN Goes(id, "acks", s) ELSE Stay(id)
    BY Zenon, <1>13, <2>2, <2>3, Move, SpotsOwners
  <2>5. \A id \in M : id < base + Limit
    BY <1>1, <1>6, <1>7, SpotsOwners, Zenon DEF PlacesInv, Holding
  <2>6. \A id \in M : Arrives(id, "acks")
    BY <1>2, <1>3, <2>5 DEF Arrives, Holding
  <2> QED
    BY <2>4, <2>6, SpotsOwners, Zenon DEF Carried, Handled
<1>16. ASSUME stream[s] = "broken" PROVE Carried
  <2>1. \A id \in ReqIDs : Has("acks", s, id)' <=> Has("acks", s, id)
    BY Zenon, <1>10, <1>16, Cells, CellsPrimed
  <2>2. ~Lossless'
    BY <1>2, <1>16, Zenon DEF Lossless
  <2>3. ASSUME NEW id \in ReqIDs, id \in M PROVE Gone(id)
    <3> SUFFICES ASSUME NEW m \in Spots, NEW z \in Owners PROVE ~Has(m, z, id)'
      BY Zenon DEF Gone
    <3>1. CASE m = "wire" /\ z = s
      BY Zenon, <1>13, <2>3, <3>1 DEF Leave
    <3>2. CASE ~(m = "wire" /\ z = s)
      <4>1. ~Has(m, z, id)
        BY Zenon, <1>7, <2>3, <3>2, OnlyHere, SpotsOwners
      <4> QED
        BY Zenon, <1>14, <2>1, <3>2, <4>1
    <3> QED
      BY <3>1, <3>2
  <2>4. ASSUME NEW id \in ReqIDs, id \notin M PROVE Stay(id)
    <3> SUFFICES ASSUME NEW m \in Spots, NEW z \in Owners PROVE Has(m, z, id)' <=> Has(m, z, id)
      BY Zenon DEF Stay
    <3>1. CASE m = "wire" /\ z = s
      BY Zenon, <1>13, <2>4, <3>1 DEF Leave
    <3>2. CASE ~(m = "wire" /\ z = s)
      BY Zenon, <1>14, <2>1, <3>2
    <3> QED
      BY Zenon, <3>1, <3>2
  <2> QED
    BY <2>2, <2>3, <2>4, ZenonT(30) DEF Carried, Handled
<1>17. Carried
  BY Zenon, <1>4, <1>15, <1>16
<1>18. PlacesInv'
  <2>1. Lossless' => Lossless
    BY <1>2, Zenon DEF Lossless
  <2>2. Advance
    BY <1>1, <1>2, <1>3, <2>1 DEF PipeTypes, Advance
  <2> QED
    BY Zenon, <1>1, <1>17, <2>2, CarriedPlaces DEF PipeTypes
<1>19. QueueInv'
  <2>1. \A q \in Senders : /\ DistinctIn(wire'[q]) /\ NonEmpty(wire'[q])
                           /\ DistinctIn(acks'[q]) /\ NonEmpty(acks'[q])
    <3>1. DistinctIn(acks'[s]) /\ NonEmpty(acks'[s])
      BY Zenon, <1>4, <1>9, <1>10
    <3> QED
      BY <1>1, <1>5, <1>10, <3>1, Zenon DEF QueueInv
  <2> QED
    BY <1>1, <1>2, <2>1, Zenon DEF QueueInv
<1>20. SlotInv' /\ ReaderInv' /\ ControlInv'
  <2>1. SlotInv' /\ ReaderInv'
    BY <1>1, <1>2, Zenon DEF SlotInv, ReaderInv
  <2>2. ControlInv'
    BY <1>1, <1>2, Zenon DEF ControlInv
  <2> QED
    BY <2>1, <2>2
<1>21. WrittenFed'
  BY Zenon, <1>1, <1>2, <1>3, <1>6 DEF WrittenFed
<1>22. SenderInv'
  <2>1. SenderOK(s)'
    <3>1. ack[s].pc = "done" => s \in errs
      BY Zenon, <1>4, SenderFacts DEF SenderOK
    <3> QED
      BY ZenonT(30), <1>2, <1>4, <3>1, SenderFacts DEF SenderOK
  <2> QED
    BY Zenon, <1>1, <1>2, <1>10, <2>1, OtherSenders
<1> QED
  BY <1>3, <1>6, <1>11, <1>12, <1>18, <1>19, <1>20, <1>21, <1>22, ZenonT(30) DEF PipeInv

-----------------------------------------------------------------------------
(* The invariant always holds                                              *)

(* Run starts with all ids in the iterator.                                *)
LEMMA PipeInit == Init => PipeInv
<1> SUFFICES ASSUME Init PROVE PipeInv
  OBVIOUS
<1>1. PICK pool \in Pools :
       /\ rd = [r \in Readers |-> [pc |-> IF r \in pool[1] THEN "idle" ELSE "done",
                                   id |-> -1, mem |-> 0, win |-> FALSE]]
       /\ snd = [s \in Senders |-> [pc |-> IF s \in pool[2] THEN "open" ELSE "closed",
                                    batch |-> <<>>, cc |-> Nothing]]
       /\ ack = [s \in Senders |-> [pc |-> IF s \in pool[2] THEN "none" ELSE "done",
                                    ids |-> <<>>]]
  BY Zenon DEF Init
<1>2. /\ nextID = 0 /\ feeding = TRUE /\ chunkCh = <<>> /\ readCh = <<>> /\ readClosed = FALSE
      /\ stream = [s \in Senders |-> "none"] /\ wire = [s \in Senders |-> <<>>]
      /\ acks = [s \in Senders |-> <<>>] /\ written = {}
      /\ errs = {} /\ cancelled = FALSE /\ faulty = FALSE /\ result = "none"
      /\ base = 0 /\ released = [i \in Slots |-> FALSE] /\ waiters = {} /\ granted = {}
  BY Zenon DEF Init, WinInit
<1>3. \E r \in Readers : r \in pool[1]
  BY PipelineAssumption
<1>4. \E s \in Senders : s \in pool[2]
  BY Zenon, PipelineAssumption
<1>5. \A r \in Readers : /\ rd[r].pc \in {"idle", "done"} /\ rd[r].id = -1 /\ rd[r].win = FALSE
                         /\ (r \in pool[1] => rd[r].pc = "idle")
  BY Zenon, <1>1
<1>6. \A s \in Senders : /\ snd[s].batch = <<>> /\ snd[s].cc = Nothing /\ ack[s].ids = <<>>
                         /\ (snd[s].pc = "open" /\ ack[s].pc = "none") \/ (snd[s].pc = "closed" /\ ack[s].pc = "done")
                         /\ (s \in pool[2] => snd[s].pc = "open")
  BY <1>1
<1>7. \A s \in Senders : stream[s] = "none" /\ wire[s] = <<>> /\ acks[s] = <<>>
  BY <1>2, Zenon
<1>8. PipeTypes
  <2>1. rd \in [Readers -> [pc : ReaderPc, id : ReqIDs \cup {-1}, mem : Nat, win : BOOLEAN]]
    BY <1>1 DEF ReaderPc
  <2>2. Nothing \in Chunk \cup {Nothing} /\ <<>> \in Seq(Chunk) /\ <<>> \in Seq(ReqIDs) /\ <<>> \in Seq(Seq(ReqIDs))
    BY SMTT(30)
  <2>3. snd \in [Senders -> [pc : SenderPc, batch : Seq(Chunk), cc : Chunk \cup {Nothing}]]
    BY Zenon, <1>1, <2>2 DEF SenderPc
  <2>4. ack \in [Senders -> [pc : AckPc, ids : Seq(ReqIDs)]]
    BY <1>1, <2>2 DEF AckPc
  <2>5. released \in [Slots -> BOOLEAN] /\ base \in Nat /\ nextID \in Nat
    BY <1>2
  <2>6. /\ stream \in [Senders -> {"none", "open", "eof", "broken"}]
        /\ wire \in [Senders -> Seq(Seq(ReqIDs))] /\ acks \in [Senders -> Seq(Seq(ReqIDs))]
    BY Zenon, <1>2, <2>2
  <2> QED
    BY ZenonT(30), <1>2, <2>1, <2>2, <2>3, <2>4, <2>5, <2>6 DEF PipeTypes
<1>9. Freed = {}
  <2>1. \A id \in ReqIDs : ~(id < 0) /\ Slot(id) \in Slots
    BY IDs, SlotType
  <2>2. \A id \in ReqIDs : ~released[Slot(id)]
    BY <1>2, <2>1, Zenon
  <2> QED
    BY Zenon, <1>2, <2>1, <2>2 DEF Freed
<1>10. \A id \in ReqIDs, k \in Spots, x \in Owners : Has(k, x, id) <=> k = "unfed" /\ x = Nobody
  <2> SUFFICES ASSUME NEW id \in ReqIDs, NEW k \in Spots, NEW x \in Owners
               PROVE  Has(k, x, id) <=> k = "unfed" /\ x = Nobody
    OBVIOUS
  <2>1. id \in Nat /\ id # -1
    BY IDs
  <2>2. nextID <= id
    BY <1>2, <2>1
  <2>3. \A s \in Senders : SenderOwns(s) = {} /\ snd[s].cc.id \notin ReqIDs
    BY <1>6, EmptyQueues, ChunkOrNothing, IDs DEF SenderOwns
  <2>4. k \in Spots
    BY Zenon
  <2>5. /\ Has("unfed", x, id) <=> x = Nobody
        /\ ~Has("chunkCh", x, id) /\ ~Has("readCh", x, id) /\ ~Has("free", x, id)
    BY Zenon, <1>2, <1>9, <2>2, Cells, EmptyQueues
  <2>6. ~Has("reader", x, id)
    BY Zenon, <1>5, <2>1, Cells
  <2>7. ~Has("batch", x, id) /\ ~Has("cc", x, id)
    <3>1. ~Has("batch", x, id)
      BY Zenon, <2>3, AtBatch
    <3>2. ~Has("cc", x, id)
      BY Zenon, <2>3, AtCC
    <3> QED
      BY Zenon, <3>1, <3>2
  <2>8. ~Has("wire", x, id) /\ ~Has("acks", x, id) /\ ~Has("ack", x, id)
    BY ZenonT(30), <1>6, <1>7, Cells, EmptyQueues
  <2> QED
    BY Zenon, <2>4, <2>5, <2>6, <2>7, <2>8 DEF Spots
<1>11. PlacesInv
  <2>1. Exclusive
    BY <1>10, Zenon DEF Exclusive
  <2>2. \A id \in ReqIDs, k \in Holding, x \in Owners : ~Has(k, x, id)
    BY <1>10 DEF Holding, Spots
  <2>3. \A id \in ReqIDs : Has("unfed", Nobody, id) /\ ~Has("free", Nobody, id)
    BY <1>10, SpotsOwners
  <2> QED
    BY Zenon, <2>1, <2>2, <2>3, SpotsOwners DEF PlacesInv, Holding
<1>12. QueueInv
  BY <1>2, <1>6, <1>7, EmptyQueues, Zenon DEF QueueInv
<1>13. SlotInv /\ WrittenFed
  BY Zenon, <1>2, <1>5 DEF SlotInv, WrittenFed
<1>14. ReaderInv
  BY Zenon, <1>5 DEF ReaderInv, ReaderOK
<1>15. SenderInv
  BY Zenon, <1>6, <1>7 DEF SenderInv, SenderOK
<1>16. ControlInv
  BY Zenon, <1>2, <1>3, <1>4, <1>5, <1>6 DEF ControlInv
<1> QED
  BY <1>8, <1>11, <1>12, <1>13, <1>14, <1>15, <1>16, Zenon DEF PipeInv

(* A stuttering step changes nothing the invariant speaks of.              *)
LEMMA PipeStutter ==
  ASSUME PipeInv, UNCHANGED vars
  PROVE  PipeInv'
<1>1. /\ nextID' = nextID /\ feeding' = feeding /\ chunkCh' = chunkCh /\ rd' = rd /\ readCh' = readCh
      /\ readClosed' = readClosed /\ snd' = snd /\ ack' = ack /\ stream' = stream /\ wire' = wire
      /\ acks' = acks /\ written' = written /\ cancelled' = cancelled /\ result' = result
      /\ base' = base /\ released' = released /\ waiters' = waiters /\ granted' = granted
      /\ errs' = errs /\ faulty' = faulty
  BY Zenon DEF vars, winVars, feedVars, readVars, netVars, ctlVars
<1>2. PipeTypes /\ PlacesInv /\ QueueInv /\ SlotInv /\ ReaderInv /\ SenderInv /\ ControlInv /\ WrittenFed
  BY Zenon DEF PipeInv
<1>3. PipeTypes' /\ QueueInv' /\ SlotInv' /\ ReaderInv' /\ ControlInv' /\ WrittenFed'
  <2>1. PipeTypes'
    BY <1>1, <1>2, Zenon DEF PipeTypes
  <2>2. QueueInv' /\ SlotInv' /\ ReaderInv' /\ ControlInv' /\ WrittenFed'
    BY <1>1, <1>2, Zenon DEF QueueInv, SlotInv, ReaderInv, ControlInv, WrittenFed
  <2> QED
    BY <2>1, <2>2
<1>4. SenderInv'
  BY <1>1, <1>2, ZenonT(30) DEF SenderInv, SenderOK
<1>5. PlacesInv'
  <2>1. Freed' = Freed /\ \A q \in Senders : SenderOwns(q)' = SenderOwns(q)
    BY <1>1, Zenon DEF Freed, SenderOwns, SenderAt
  <2>2. \A id \in ReqIDs, k \in Spots, x \in Owners : Has(k, x, id)' <=> Has(k, x, id)
    BY Zenon, <1>1, <2>1, Unmoved
  <2>3. Carried
    BY <2>2, Zenon DEF Carried, Handled, Stay
  <2>4. Lossless' => Lossless
    BY <1>1, Zenon DEF Lossless
  <2>5. Advance
    BY <1>1, <1>2, <2>4 DEF Advance, PipeTypes
  <2> QED
    BY <1>2, <2>3, <2>5, CarriedPlaces DEF PipeTypes
<1> QED
  BY <1>2, <1>3, <1>4, <1>5, Zenon DEF PipeInv

(* Every step keeps the invariant.                                         *)
LEMMA PipeStep == PipeInv /\ [Next]_vars => PipeInv'
<1> SUFFICES ASSUME PipeInv, [Next]_vars PROVE PipeInv'
  OBVIOUS
<1>1. CASE FeederStep
  BY <1>1, FeedInv, FeederReturnsInv, Zenon DEF FeederStep
<1>2. ASSUME NEW r \in Readers, ReaderStep(r) PROVE PipeInv'
  BY <1>2, ReadTakeInv, ReadDrainedInv, ReadMemInv, ReadWinInv, ReadAtInv, EmitInv, ReadCancelledInv,
     ReadDropInv, ReadReturnsInv, Zenon DEF ReaderStep
<1>3. ASSUME NEW s \in Senders, SenderStep(s) PROVE PipeInv'
  BY <1>3, OpenStreamInv, SendTakeInv, SenderQuietInv, FlushSends, FlushFails, ReleaseMemOnlyInv,
     SendDropInv, Zenon DEF SenderStep
<1>4. ASSUME NEW s \in Senders, AckStep(s) PROVE PipeInv'
  BY <1>4, AckRecvInv, AckReleaseInv, AckReturnsInv, Zenon DEF AckStep
<1>5. ASSUME NEW s \in Senders, WorkerFails(s) \/ ServerWrite(s) \/ ServerReturns(s) PROVE PipeInv'
  BY <1>5, StageFailsInv, ServerWriteInv, ServerReturnsInv, Zenon
<1>6. CASE StageStep
  BY <1>6, CloseReadChInv, StageFailsInv, RunReturnsInv, Zenon DEF StageStep
<1>7. CASE FaultStep
  BY <1>7, ReadFailsInv, OpenFailsInv, StreamBreaksInv, CancelInv, Zenon DEF FaultStep
<1>8. CASE Finished \/ UNCHANGED vars
  BY <1>8, PipeStutter, Zenon DEF Finished
<1> QED
  BY <1>1, <1>2, <1>3, <1>4, <1>5, <1>6, <1>7, <1>8, Zenon DEF Next

(* The inductive invariant of Run, for any number of readers and senders   *)
(* and every window, memory budget, batch size and set of blocks: each id  *)
(* is at one place, an id in flight is inside the window, an acknowledged  *)
(* one is written, and unless something was given up no id is lost between *)
(* the places.                                                             *)
THEOREM PipeInvariant == Spec => []PipeInv
BY PipeInit, PipeStep, PTL DEF Spec

-----------------------------------------------------------------------------
(* One owner                                                               *)

(* The place of the property OneOwner that place k of x belongs to.        *)
PlaceAt(k, x) ==
  CASE k = "reader" -> <<"reader", x, ReaderOwns(x)>>
    [] k = "readCh" -> <<"readCh", 0, Owned(readCh)>>
    [] k = "batch" -> <<"batch", x, SenderOwns(x)>>
    [] k = "cc" -> <<"cc", x, {snd[x].cc.id} \ {-1}>>
    [] k = "wire" -> <<"wire", x, Flat(wire[x])>>
    [] OTHER -> <<"acks", x, Flat(acks[x]) \cup Range(ack[x].ids)>>

(* The places of the property are those of the invariant.                  *)
LEMMA PlacesAre ==
  ASSUME NEW p \in Places, NEW id \in ReqIDs, id \in p[3]
  PROVE  \E k \in Spots, x \in Owners : k # "free" /\ Has(k, x, id) /\ p = PlaceAt(k, x)
<1>1. ASSUME NEW r \in Readers, p = <<"reader", r, ReaderOwns(r)>>
      PROVE  Has("reader", r, id) /\ p = PlaceAt("reader", r)
  BY Zenon, <1>1, Cells DEF PlaceAt, ReaderOwns
<1>2. ASSUME p = <<"readCh", 0, Owned(readCh)>>
      PROVE  Has("readCh", Nobody, id) /\ p = PlaceAt("readCh", Nobody)
  BY <1>2, Cells DEF PlaceAt
<1>3. ASSUME NEW s \in Senders, p = <<"batch", s, SenderOwns(s)>>
      PROVE  Has("batch", s, id) /\ p = PlaceAt("batch", s)
  BY <1>3, Cells DEF PlaceAt
<1>4. ASSUME NEW s \in Senders, p = <<"cc", s, {snd[s].cc.id} \ {-1}>>
      PROVE  Has("cc", s, id) /\ p = PlaceAt("cc", s)
  BY <1>4, Cells DEF PlaceAt
<1>5. ASSUME NEW s \in Senders, p = <<"wire", s, Flat(wire[s])>>
      PROVE  Has("wire", s, id) /\ p = PlaceAt("wire", s)
  BY Zenon, <1>5, Cells DEF PlaceAt
<1>6. ASSUME NEW s \in Senders, p = <<"acks", s, Flat(acks[s]) \cup Range(ack[s].ids)>>
      PROVE  (Has("acks", s, id) \/ Has("ack", s, id)) /\ p = PlaceAt("acks", s) /\ p = PlaceAt("ack", s)
  BY <1>6, Cells DEF PlaceAt
<1>7. \/ \E r \in Readers : p = <<"reader", r, ReaderOwns(r)>>
      \/ p = <<"readCh", 0, Owned(readCh)>>
      \/ \E s \in Senders : \/ p = <<"batch", s, SenderOwns(s)>>
                            \/ p = <<"cc", s, {snd[s].cc.id} \ {-1}>>
                            \/ p = <<"wire", s, Flat(wire[s])>>
                            \/ p = <<"acks", s, Flat(acks[s]) \cup Range(ack[s].ids)>>
  BY Zenon DEF Places
<1>8. \A k \in {"reader", "readCh", "batch", "cc", "wire", "acks", "ack"} : k # "free" /\ k \in Spots
  BY DEF Spots
<1> QED
  BY Zenon, <1>1, <1>2, <1>3, <1>4, <1>5, <1>6, <1>7, <1>8, SpotsOwners

(* The invariant implies that an id has one owner.                         *)
LEMMA SoleOwner == PipeInv => OneOwner
<1> SUFFICES ASSUME PipeInv, NEW id \in ReqIDs, NEW p \in Places, id \in p[3]
             PROVE  id \notin Freed /\ \A q \in Places \ {p} : id \notin q[3]
  BY Zenon DEF OneOwner
<1>1. PICK k \in Spots, x \in Owners : k # "free" /\ Has(k, x, id) /\ p = PlaceAt(k, x)
  BY PlacesAre, Zenon
<1>2. id \notin Freed
  <2>1. ~Has("free", Nobody, id)
    BY <1>1, OnlyHere, SpotsOwners
  <2> QED
    BY Zenon, <2>1, Cells
<1>3. ASSUME NEW q \in Places, id \in q[3] PROVE q = p
  <2>1. PICK l \in Spots, y \in Owners : Has(l, y, id) /\ q = PlaceAt(l, y)
    BY <1>3, PlacesAre, Zenon
  <2>2. k = l /\ x = y
    BY <1>1, <2>1, Zenon DEF PipeInv, PlacesInv, Exclusive
  <2> QED
    BY <1>1, <2>1, <2>2, Zenon
<1> QED
  BY <1>2, <1>3, Zenon

(* An id is owned by one place at a time and by none once it was released, *)
(* so that no slot is released twice or by two goroutines: not when a      *)
(* read, a send or a stream fails, and not when the context is cancelled   *)
(* while a reader or a sender holds the id.                                *)
THEOREM OneOwnerHolds == Spec => []OneOwner
BY PipeInvariant, SoleOwner, PTL

Fed == {id \in ReqIDs : id < nextID}

(* The abstract state is untouched.                                        *)
Unseen == nextID' = nextID /\ written' = written /\ Freed' = Freed /\ faulty' = faulty /\ result' = result

(* The released ids are a matter of the ring alone.                        *)
LEMMA KeepsFreed == ASSUME base' = base, released' = released PROVE Freed' = Freed
BY Zenon DEF Freed

(* Steps inside the pipeline do not show outside.                          *)
LEMMA UnseenStutters == ASSUME Unseen PROVE UNCHANGED Promised!transferVars
BY Zenon DEF Unseen, Promised!transferVars

(* Every step is one of those that the transfer sees, or is inside the     *)
(* pipeline.                                                               *)
LEMMA UnseenSteps ==
  ASSUME PipeInv
  PROVE  /\ FeederReturns => Unseen
         /\ \A r \in Readers :
              ReadTake(r) \/ ReadDrained(r) \/ ReadMem(r) \/ ReadWin(r) \/ ReadAt(r) \/ Emit(r)
                \/ ReadCancelled(r) \/ ReadReturns(r) => Unseen
         /\ \A s \in Senders :
              OpenStream(s) \/ SendTake(s) \/ SendDrained(s) \/ SendCancelled(s) \/ Flush(s)
                \/ ReleaseMemOnly(s) \/ SendReturns(s)
                \/ AckRecv(s) \/ AckReturns(s) \/ WorkerFails(s) \/ ServerReturns(s) => Unseen
         /\ CloseReadCh \/ ReadStageFails \/ SendStageFails => Unseen
<1>1. FeederReturns => Unseen
  BY KeepsFreed, Zenon DEF FeederReturns, Unseen, winVars, netVars
<1>2. ASSUME NEW r \in Readers,
             ReadTake(r) \/ ReadDrained(r) \/ ReadMem(r) \/ ReadAt(r) \/ Emit(r) \/ ReadReturns(r)
      PROVE  Unseen
  <2>1. CASE ReadTake(r) \/ ReadDrained(r) \/ ReadAt(r) \/ ReadReturns(r)
    BY <2>1, KeepsFreed, Zenon DEF ReadTake, ReadDrained, ReadAt, ReadReturns, ReaderKeeps,
         Unseen, winVars, netVars, feedVars
  <2>2. CASE ReadMem(r)
    BY <2>2, KeepsFreed, Zenon DEF ReadMem, ReaderKeeps, Unseen, winVars, netVars, feedVars
  <2>3. CASE Emit(r)
    BY <2>3, KeepsFreed, Zenon DEF Emit, ReaderKeeps, Unseen, winVars, netVars, feedVars, ctlVars
  <2> QED
    BY <1>2, <2>1, <2>2, <2>3, Zenon
<1>3. ASSUME NEW r \in Readers, ReadWin(r) \/ ReadCancelled(r) PROVE Unseen
  <2>1. base' = base /\ released' = released
    BY <1>3, Zenon DEF ReadWin, ReadCancelled, WinAcquire, WinPark, WinWake, WinCancel, winVars
  <2> QED
    BY <1>3, <2>1, KeepsFreed, Zenon DEF ReadWin, ReadCancelled, ReaderKeeps, Unseen, netVars, feedVars
<1>4. ASSUME NEW s \in Senders,
             \/ OpenStream(s) \/ SendTake(s) \/ SendDrained(s) \/ SendCancelled(s) \/ Flush(s)
             \/ ReleaseMemOnly(s) \/ SendReturns(s)
      PROVE  Unseen
  BY <1>4, KeepsFreed, Zenon DEF OpenStream, SendTake, SendDrained, SendCancelled, Flush, ReleaseMemOnly,
       SendReturns, SenderKeeps, ctlVars, Unseen, winVars, netVars, feedVars
<1>5. ASSUME NEW s \in Senders, AckRecv(s) \/ AckReturns(s) \/ WorkerFails(s) \/ ServerReturns(s)
      PROVE  Unseen
  BY <1>5, KeepsFreed, Zenon DEF AckRecv, AckReturns, WorkerFails, ServerReturns, AckKeeps, NetKeeps,
       Unseen, winVars, feedVars
<1>6. CloseReadCh \/ ReadStageFails \/ SendStageFails => Unseen
  BY KeepsFreed, Zenon DEF CloseReadCh, ReadStageFails, SendStageFails, AckKeeps, ctlVars, Unseen,
       winVars, netVars, feedVars
<1> QED
  BY <1>1, <1>2, <1>3, <1>4, <1>5, <1>6, Zenon

(* Run returns nil: every block it took is written and released.           *)
LEMMA NilMeansArrived ==
  ASSUME PipeInv, RunReturns, errs = {}, NEW id \in ReqIDs, id < nextID
  PROVE  id \in written /\ id \in Freed
<1>1. PipeTypes /\ PlacesInv /\ QueueInv /\ SlotInv /\ ReaderInv /\ SenderInv /\ ControlInv /\ WrittenFed
  BY Zenon DEF PipeInv
<1>2. feeding = FALSE /\ readClosed = TRUE /\ \A s \in Senders : snd[s].pc = "closed" /\ ack[s].pc = "done"
  BY Zenon, <1>1 DEF RunReturns, SenderFinished, SenderAt, PipeTypes
<1>3. \A r \in Readers : rd[r].pc = "done" /\ rd[r].id = -1
  <2>1. \A r \in Readers : rd[r].pc = "done"
    BY Zenon, <1>1, <1>2 DEF ControlInv
  <2> QED
    BY Zenon, <1>1, <2>1 DEF ReaderInv, ReaderOK
<1>4. chunkCh = <<>> /\ readCh = <<>>
  BY Zenon, <1>1, <1>2, <1>3 DEF ControlInv
<1>5. \A s \in Senders : /\ snd[s].batch = <<>> /\ snd[s].cc = Nothing /\ ack[s].ids = <<>>
                         /\ stream[s] \in {"none", "eof"} /\ wire[s] = <<>> /\ acks[s] = <<>>
  BY Zenon, <1>1, <1>2 DEF SenderInv, SenderOK
<1>6. Lossless
  BY <1>2, <1>3, <1>5 DEF Lossless
<1>7. PICK k \in Spots, x \in Owners : Has(k, x, id)
  BY <1>1, <1>6, Zenon DEF PlacesInv
<1>8. k = "free" /\ x = Nobody
  <2>1. id \in Nat /\ id # -1 /\ ~(nextID <= id)
    BY <1>1, IDs DEF PipeTypes
  <2>2. Range(<<>>) = {} /\ Owned(<<>>) = {} /\ Flat(<<>>) = {}
    BY Zenon, EmptyQueues
  <2>3. \A s \in Senders : SenderOwns(s) = {} /\ snd[s].cc.id \notin ReqIDs
    BY Zenon, <1>2, <1>5, <2>2, ChunkOrNothing, IDs DEF SenderOwns, SenderAt
  <2>4. k \in Spots
    BY Zenon
  <2>5. ~Has("unfed", x, id) /\ ~Has("chunkCh", x, id) /\ ~Has("readCh", x, id)
    BY Zenon, <1>4, <2>1, <2>2, Cells
  <2>6. ~Has("reader", x, id)
    BY Zenon, <1>3, <2>1, Cells
  <2>7. ~Has("batch", x, id) /\ ~Has("cc", x, id)
    <3>1. ~Has("batch", x, id)
      BY Zenon, <2>3, AtBatch
    <3>2. ~Has("cc", x, id)
      BY Zenon, <2>3, AtCC
    <3> QED
      BY Zenon, <3>1, <3>2
  <2>8. ~Has("wire", x, id) /\ ~Has("acks", x, id) /\ ~Has("ack", x, id)
    BY ZenonT(30), <1>5, <2>2, Cells
  <2>9. k = "free"
    BY Zenon, <1>7, <2>4, <2>5, <2>6, <2>7, <2>8 DEF Spots
  <2> QED
    BY Zenon, <1>7, <2>9, Cells
<1>9. id \in Freed
  BY <1>7, <1>8, Cells
<1>10. id \in written
  BY <1>1, <1>6, <1>7, <1>8, Zenon DEF PlacesInv
<1> QED
  BY <1>9, <1>10

(* Before Run nothing is fed, written or released.                         *)
LEMMA PromiseInit == Init => Promised!TransferInit
<1> SUFFICES ASSUME Init PROVE Promised!TransferInit
  OBVIOUS
<1>1. nextID = 0 /\ written = {} /\ faulty = FALSE /\ result = "none" /\ base = 0
      /\ released = [i \in Slots |-> FALSE]
  BY Zenon DEF Init, WinInit
<1>2. \A id \in ReqIDs : ~(id < 0) /\ Slot(id) \in Slots
  BY IDs, SlotType
<1>3. \A id \in ReqIDs : ~released[Slot(id)]
  BY <1>1, <1>2, Zenon
<1>4. Freed = {} /\ {id \in ReqIDs : id < nextID} = {}
  BY Zenon, <1>1, <1>2, <1>3 DEF Freed
<1> QED
  BY <1>1, <1>4 DEF Promised!TransferInit

(* Every step of the pipeline is a step of the transfer, or a stutter.     *)
LEMMA PromiseStep ==
  ASSUME PipeInv, [Next]_vars
  PROVE  Promised!TransferNext \/ UNCHANGED Promised!transferVars
<1>1. CASE Unseen
  BY <1>1, UnseenStutters
<1>2. CASE Feed
  <2>1. /\ nextID' = nextID + 1 /\ nextID \in ReqIDs /\ feeding = TRUE
        /\ written' = written /\ faulty' = faulty /\ result' = result /\ Freed' = Freed
    BY ZenonT(30), <1>2, KeepsFreed, SenderTypes DEF Feed, winVars, netVars, ctlVars
  <2>2. result = "none"
    BY <2>1, SenderTypes DEF ControlInv
  <2>3. PICK n \in ReqIDs : n = nextID
    BY <2>1, Zenon
  <2>4. Fed' = Fed \cup {n}
    BY <2>1, <2>3, IDs DEF Fed
  <2>5. Promised!Taken(n)
    BY Zenon, <2>1, <2>2, <2>4 DEF Promised!Taken, Fed
  <2> QED
    BY <2>5, Zenon DEF Promised!TransferNext
<1>3. ASSUME NEW r \in Readers, ReadDrop(r)
      PROVE  Promised!TransferNext \/ UNCHANGED Promised!transferVars
  <2>1. nextID' = nextID /\ written' = written /\ faulty' = faulty /\ result' = result
    BY <1>3, Zenon DEF ReadDrop, ReaderKeeps, feedVars, netVars
  <2>2. rd[r].pc = "drop" /\ rd[r].win \in BOOLEAN /\ faulty = TRUE
    BY Zenon, <1>3, ReaderAt DEF ReadDrop, At, ReaderOK
  <2>3. CASE rd[r].win = TRUE
    <3>1. result = "none"
      BY Zenon, <2>2, SenderTypes DEF ControlInv
    <3>2. rd[r].id \in Fed \ Freed /\ Freed' = Freed \cup {rd[r].id} /\ Fed' = Fed /\ rd[r].id \in ReqIDs
      BY Zenon, <1>3, <2>1, <2>3, ReadDropInv DEF Fed
    <3>3. Promised!Abandoned(rd[r].id)
      BY Zenon, <2>1, <2>2, <3>1, <3>2 DEF Promised!Abandoned, Fed
    <3> QED
      BY <3>2, <3>3, Zenon DEF Promised!TransferNext
  <2>4. CASE rd[r].win = FALSE
    BY Zenon, <1>3, <2>1, <2>4, ReadDropInv, UnseenStutters DEF Unseen
  <2> QED
    BY Zenon, <2>2, <2>3, <2>4
<1>4. ASSUME NEW s \in Senders, SendDrop(s)
      PROVE  Promised!TransferNext
  <2>1. nextID' = nextID /\ written' = written /\ faulty' = faulty /\ result' = result
    BY <1>4, Zenon DEF SendDrop, SenderKeeps, feedVars, netVars
  <2>2. result = "none"
    BY Zenon, <1>4, SenderTypes DEF SendDrop, SenderAt, ControlInv
  <2>3. PICK id \in ReqIDs \ Freed : id < nextID /\ Freed' = Freed \cup {id}
    BY Zenon, <1>4, SendDropInv
  <2>4. faulty = TRUE
    BY Zenon, <1>4, SendDropInv
  <2>5. Promised!Abandoned(id)
    BY Zenon, <2>1, <2>2, <2>3, <2>4 DEF Promised!Abandoned
  <2> QED
    BY <2>3, <2>5, Zenon DEF Promised!TransferNext
<1>5. ASSUME NEW s \in Senders, AckRelease(s)
      PROVE  Promised!TransferNext
  <2>1. nextID' = nextID /\ written' = written /\ faulty' = faulty /\ result' = result
    BY <1>5, Zenon DEF AckRelease, AckKeeps, feedVars
  <2>2. result = "none"
    BY Zenon, <1>5, SenderTypes DEF AckRelease, ControlInv
  <2>3. PICK id \in ReqIDs \ Freed : id \in written /\ Freed' = Freed \cup {id}
    BY Zenon, <1>5, AckReleaseInv
  <2>4. Promised!Acked(id)
    BY Zenon, <2>1, <2>2, <2>3 DEF Promised!Acked
  <2> QED
    BY <2>3, <2>4, Zenon DEF Promised!TransferNext
<1>6. ASSUME NEW s \in Senders, ServerWrite(s)
      PROVE  Promised!TransferNext
  <2>1. nextID' = nextID /\ faulty' = faulty /\ result' = result
    BY <1>6, Zenon DEF ServerWrite, NetKeeps, feedVars
  <2>2. PICK W \in SUBSET {id \in ReqIDs : id < nextID} : written' = written \cup W
    BY Zenon, <1>6, ServerWriteInv
  <2>3. Promised!Written(W) /\ W \in SUBSET ReqIDs
    BY Zenon, <1>6, <2>1, <2>2, ServerWriteInv DEF Promised!Written
  <2> QED
    BY <2>3, Zenon DEF Promised!TransferNext
<1>7. ASSUME NEW s \in Senders, StreamBreaks(s)
      PROVE  Promised!TransferNext
  <2>1. nextID' = nextID /\ faulty' = TRUE /\ result' = result
    BY <1>7, Zenon DEF StreamBreaks, NetKeeps, feedVars
  <2>2. PICK W \in SUBSET {id \in ReqIDs : id < nextID} : written' = written \cup W
    BY <1>7, StreamBreaksInv
  <2>3. Promised!Fault(W) /\ W \in SUBSET ReqIDs
    BY Zenon, <1>7, <2>1, <2>2, StreamBreaksInv DEF Promised!Fault
  <2> QED
    BY <2>3, Zenon DEF Promised!TransferNext
<1>8. ASSUME Cancel \/ (\E s \in Senders : OpenFails(s)) \/ (\E r \in Readers : ReadFails(r))
      PROVE  Promised!TransferNext
  <2>1. nextID' = nextID /\ faulty' = TRUE /\ result' = result /\ written' = written /\ base' = base /\ released' = released
    BY <1>8, Zenon DEF Cancel, OpenFails, ReadFails, feedVars, netVars, winVars
  <2>2. Freed' = Freed
    BY Zenon, <2>1, KeepsFreed
  <2>3. Promised!Fault({}) /\ {} \in SUBSET ReqIDs
    BY <2>1, <2>2 DEF Promised!Fault
  <2> QED
    BY <2>3, Zenon DEF Promised!TransferNext
<1>9. ASSUME RunReturns PROVE Promised!TransferNext
  <2>1. /\ nextID' = nextID /\ faulty' = faulty /\ written' = written /\ Freed' = Freed
        /\ result = "none" /\ result' = IF errs = {} THEN "ok" ELSE "err"
    BY <1>9, KeepsFreed, Zenon DEF RunReturns, feedVars, netVars, winVars
  <2>2. CASE errs = {}
    <3>1. \A id \in {id \in ReqIDs : id < nextID} : id \in written \cap Freed
      BY Zenon, <1>9, <2>2, NilMeansArrived
    <3>2. Promised!Return("ok")
      BY Zenon, <2>1, <2>2, <3>1 DEF Promised!Return
    <3> QED
      BY Zenon, <3>2 DEF Promised!TransferNext
  <2>3. CASE errs # {}
    <3>1. faulty = TRUE
      BY Zenon, <2>3, SenderTypes DEF ControlInv
    <3>2. Promised!Return("err")
      BY Zenon, <2>1, <2>3, <3>1 DEF Promised!Return
    <3> QED
      BY <3>2 DEF Promised!TransferNext
  <2> QED
    BY <2>2, <2>3
<1>10. CASE UNCHANGED vars
  <2>1. Unseen
    BY <1>10, KeepsFreed, Zenon DEF vars, Unseen, winVars, feedVars, netVars, ctlVars
  <2> QED
    BY <1>1, <2>1
<1>11. CASE Next
  <2>1. CASE FeederStep
    BY <1>1, <1>2, <2>1, UnseenSteps, Zenon DEF FeederStep
  <2>2. ASSUME NEW r \in Readers, ReaderStep(r)
        PROVE  Promised!TransferNext \/ UNCHANGED Promised!transferVars
    BY <1>1, <1>3, <2>2, UnseenSteps, Zenon DEF ReaderStep
  <2>3. ASSUME NEW s \in Senders, SenderStep(s) \/ AckStep(s) \/ WorkerFails(s)
                                    \/ ServerWrite(s) \/ ServerReturns(s)
        PROVE  Promised!TransferNext \/ UNCHANGED Promised!transferVars
    <3>1. CASE SenderStep(s)
      BY <1>1, <1>4, <3>1, UnseenSteps, Zenon DEF SenderStep
    <3>2. CASE AckStep(s)
      BY <1>1, <1>5, <3>2, UnseenSteps, Zenon DEF AckStep
    <3>3. CASE WorkerFails(s) \/ ServerWrite(s) \/ ServerReturns(s)
      BY <1>1, <1>6, <3>3, UnseenSteps, Zenon
    <3> QED
      BY <2>3, <3>1, <3>2, <3>3, Zenon
  <2>4. CASE StageStep
    BY <1>1, <1>9, <2>4, UnseenSteps, Zenon DEF StageStep
  <2>5. CASE FaultStep
    BY <1>7, <1>8, <2>5, Zenon DEF FaultStep
  <2>6. CASE Finished
    BY <1>10, <2>6, Zenon DEF Finished
  <2> QED
    BY <1>11, <2>1, <2>2, <2>3, <2>4, <2>5, <2>6, ZenonT(30) DEF Next
<1> QED
  BY <1>10, <1>11, Zenon

(* The pipeline of feeder, readers, senders, streams and ack receivers     *)
(* implements the abstract transfer that the CephFS and RBD sources are    *)
(* verified against: only blocks that were taken are written, a block is   *)
(* released after it was written unless something failed, and Run returns  *)
(* nil only when every block it took is written and released.              *)
THEOREM PromiseKept == Spec => PipelineKeepsPromise
<1>1. PipeInv /\ [Next]_vars => [Promised!TransferNext]_(Promised!transferVars)
  BY PromiseStep, Zenon
<1> QED
  BY <1>1, PipeInvariant, PromiseInit, PTL DEF Spec, PipelineKeepsPromise, Promised!TransferSpec
=============================================================================
