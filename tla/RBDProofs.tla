------------------------------ MODULE RBDProofs ------------------------------
(***************************************************************************)
(* Proofs about RBDTransfer for every size of device and chunk, every      *)
(* capacity of the channel and every diff: the blocks cut from the extents *)
(* never overlap, and Done means that the device holds the snapshot.  The  *)
(* second part is about the window semaphore, by which the transfer learns *)
(* what was acknowledged, for every window and every set of ids: the ring  *)
(* keeps an exact watermark, loses no waiter and implements AckWindow.     *)
(***************************************************************************)
EXTENDS RBDTransfer, WindowClients, TLAPS

ExtentType == [off : Nat, len : Nat, zero : BOOLEAN]
Reported == [off : Positions, len : 1 .. Size]
AdapterType == [pos : Nat, rem : ExtentType, pend : ExtentType, done : BOOLEAN]
End(e) == e.off + e.len

(* An extent in hand is empty or lies between the position and the end.    *)
Ahead(e) == e = NoExtent \/ (e.len >= 1 /\ ad.pos <= e.off /\ End(e) <= Size)

(* Types, and where the adapter is: what it holds lies ahead of its        *)
(* position, the pending extent behind the remainder.                      *)
AdapterInv ==
  /\ full \in BOOLEAN
  /\ diff \in Diffs
  /\ diffState \in {"running", "ended", "failed"}
  /\ reported \in 0 .. Len(diff)
  /\ blocksChan \in Seq(Reported)
  /\ \A i \in DOMAIN blocksChan : End(blocksChan[i]) <= Size
  /\ Len(blocksChan) <= DiffCap
  /\ ad \in AdapterType
  /\ ad.pos <= Size
  /\ Ahead(ad.rem) /\ Ahead(ad.pend)
  /\ ad.pend # NoExtent => ad.pend.zero = FALSE
  /\ (ad.pend # NoExtent /\ ad.rem # NoExtent) => End(ad.rem) <= ad.pend.off

(* The blocks emitted so far lie in increasing order before the position,  *)
(* so there are at most as many as positions.                              *)
EmittedInv ==
  /\ emitted \in Seq(ExtentType)
  /\ \A i \in DOMAIN emitted : emitted[i].len \in 1 .. ChunkSize /\ End(emitted[i]) <= ad.pos
  /\ \A i, j \in DOMAIN emitted : i < j => End(emitted[i]) <= emitted[j].off
  /\ Len(emitted) <= ad.pos
  /\ fed = 0 .. Len(emitted) - 1

DisjointInv == AdapterInv /\ EmittedInv
-----------------------------------------------------------------------------
(* How many extents the adapter has taken.                                 *)
taken == reported - Len(blocksChan)

(* Position p is in a block that was emitted, as zeros or as data.         *)
Sent(p, z) == \E k \in DOMAIN emitted : p \in Span(emitted[k]) /\ emitted[k].zero = z
InHand(p, z) ==
  \/ p \in Span(ad.rem) /\ ad.rem.zero = z
  \/ p \in Span(ad.pend) /\ ad.pend.zero = z

(* The channel holds the extents between those taken and those reported,   *)
(* and is empty for good once the adapter has seen its end.                *)
ChannelInv ==
  /\ taken \in Nat
  /\ \A i \in DOMAIN blocksChan : blocksChan[i] = diff[taken + i]
  /\ diffState = "ended" => reported = Len(diff)
  /\ ad.done = TRUE => diffState # "running" /\ blocksChan = <<>> /\ ad.pend = NoExtent

(* What was taken is sent or in hand, as data; what is sent or in hand as  *)
(* data was reported, and nothing that was reported is sent as zeros.      *)
CoverInv ==
  /\ \A i \in 1 .. taken : \A p \in Span(diff[i]) : Sent(p, FALSE) \/ InHand(p, FALSE)
  /\ \A p \in Positions : Sent(p, FALSE) \/ InHand(p, FALSE) => p \in Covered
  /\ \A p \in Positions : Sent(p, TRUE) \/ InHand(p, TRUE) => p \notin Covered

(* From the offset of the last extent up to the position all is sent as    *)
(* data, so what the next one has there can be skipped; a gap has its      *)
(* extent behind it.                                                       *)
BehindInv ==
  ad.done = FALSE =>
    /\ taken = 0 => ad.pos = 0 /\ ad.rem = NoExtent /\ ad.pend = NoExtent
    /\ taken > 0 =>
         /\ \A p \in Positions : diff[taken].off <= p /\ p < ad.pos => Sent(p, FALSE)
         /\ (ad.rem # NoExtent /\ ad.rem.zero = FALSE) => ad.rem.off \in {ad.pos, diff[taken].off}
         /\ ad.pend # NoExtent => ad.pend.off = diff[taken].off
    /\ (ad.rem # NoExtent /\ ad.rem.zero = TRUE) => ad.pend # NoExtent

(* A full diff leaves no gap, and ends at the end of the volume; another   *)
(* one has no zeros.                                                       *)
FillInv ==
  IF full
    THEN /\ \A p \in Positions : p < ad.pos => Sent(p, TRUE) \/ Sent(p, FALSE)
         /\ ad.rem # NoExtent => ad.rem.off = ad.pos
         /\ ad.pend # NoExtent =>
              ad.pend.off = IF ad.rem = NoExtent THEN ad.pos ELSE End(ad.rem)
         /\ ad.done = TRUE => (IF ad.rem = NoExtent THEN ad.pos ELSE End(ad.rem)) = Size
    ELSE \A p \in Positions : ~Sent(p, TRUE) /\ ~InHand(p, TRUE)

(* The device has the blocks that were written, in any order.              *)
Content(id) == IF emitted[id + 1].zero THEN "zero" ELSE "data"
DeviceInv ==
  /\ stored \subseteq fed /\ free \subseteq fed
  /\ device \in [Positions -> {"old", "data", "zero"}]
  /\ durable \in [Positions -> {"old", "data", "zero"}]
  /\ \A id \in stored : \A p \in Span(emitted[id + 1]) : device[p] = Content(id)
  /\ \A p \in Positions :
       (\A id \in stored : p \notin Span(emitted[id + 1])) => device[p] = "old"

(* Sync gets past Run only with nil: every block is then written, and what *)
(* is on the device is synced.                                             *)
OutcomeInv ==
  /\ main \in {"run", "acks", "commit", "signal", "close", "returned"}
  /\ outcome \in {"none", "ok", "err"}
  /\ outcome = "none" <=> main = "run"
  /\ main \in {"acks", "commit", "signal"} \/ signalled => outcome = "ok"
  /\ outcome = "ok" => /\ ad.done = TRUE /\ ad.rem = NoExtent
                       /\ fed \subseteq stored
                       /\ durable = device
  /\ {signalled, cancelled, faulted} \subseteq BOOLEAN

StateInv == DisjointInv /\ ChannelInv /\ DeviceInv /\ OutcomeInv
FlowInv == CoverInv /\ BehindInv /\ FillInv
CompleteInv == StateInv /\ ((outcome # "err" /\ diffState # "failed") => FlowInv)

-----------------------------------------------------------------------------
(* Facts about single operators and steps                                  *)

(* An extent in hand that is not empty has a position.                     *)
LEMMA NoExtentIsEmpty ==
  NoExtent \in ExtentType /\ NoExtent.len = 0 /\ NoExtent.off = 0 /\ NoExtent.zero = FALSE
BY DEF NoExtent, Extent, ExtentType

LEMMA ExtentFields ==
  ASSUME NEW o \in Nat, NEW n \in Nat, NEW z \in BOOLEAN
  PROVE  /\ Extent(o, n, z) \in ExtentType
         /\ Extent(o, n, z).off = o /\ Extent(o, n, z).len = n /\ Extent(o, n, z).zero = z
         /\ n >= 1 => Extent(o, n, z) # NoExtent
BY DEF NoExtent, Extent, ExtentType

(* What is left of an extent lies ahead of the position and within the     *)
(* extent, and is the part of it that is ahead.                            *)
LEMMA ClampedIsAhead ==
  ASSUME NEW e \in Reported, NEW pos \in Nat, Size \in Nat
  PROVE  /\ Clamped(e, pos).len \in Int
         /\ Clamped(e, pos).len > 0 => Clamped(e, pos) \in ExtentType
         /\ Clamped(e, pos).len > 0 => Clamped(e, pos) # NoExtent
         /\ Clamped(e, pos).off \in Nat
         /\ pos <= Clamped(e, pos).off
         /\ Clamped(e, pos).off \in {pos, e.off}
         /\ e.off <= Clamped(e, pos).off
         /\ End(Clamped(e, pos)) = End(e)
         /\ Clamped(e, pos).zero = FALSE
BY DEF Clamped, Extent, NoExtent, ExtentType, Reported, End, Positions

(* The first part of a step of the adapter: the record it leaves.          *)
LEMMA AdapterRecord ==
  ASSUME AdapterInv
  PROVE  /\ ad.pos \in Nat /\ ad.rem \in ExtentType /\ ad.pend \in ExtentType
         /\ ad.done \in BOOLEAN
         /\ ad.rem.off \in Nat /\ ad.rem.len \in Nat /\ ad.rem.zero \in BOOLEAN
         /\ ad.pend.off \in Nat /\ ad.pend.len \in Nat /\ ad.pend.zero \in BOOLEAN
         /\ Size \in Nat \ {0} /\ ChunkSize \in Nat \ {0} /\ DiffCap \in Nat \ {0}
BY RBDAssumption DEF AdapterInv, AdapterType, ExtentType

(* Steps that neither move the adapter nor touch the channel.              *)
QuietStep ==
  /\ \/ diffState' = diffState
     \/ /\ diffState = "running"
        /\ diffState' = "failed" \/ (diffState' = "ended" /\ reported = Len(diff))
  /\ UNCHANGED <<full, diff, reported, blocksChan, ad, emitted, fed>>

LEMMA QuietDisjoint == DisjointInv /\ QuietStep => DisjointInv'
BY DEF DisjointInv, QuietStep, AdapterInv, EmittedInv, Ahead, End

(* Extents as they are reported.                                           *)
LEMMA DiffExtent ==
  ASSUME AdapterInv, NEW i \in 1 .. Len(diff)
  PROVE  /\ diff[i] \in Reported
         /\ End(diff[i]) <= Size
         /\ DOMAIN diff = 1 .. Len(diff)
<1>1. diff \in Seq(Reported)
  BY Zenon, RBDAssumption DEF AdapterInv, Reported
<1>2. \A j \in DOMAIN diff : diff[j].off + diff[j].len <= Size
  BY RBDAssumption DEF AdapterInv
<1>3. QED
  BY <1>1, <1>2 DEF End

(* A step of the channel: the adapter and the blocks stay as they are.     *)
LEMMA ChannelDisjoint ==
  ASSUME DisjointInv, UNCHANGED <<full, diff, diffState, ad, emitted, fed>>,
         reported' \in 0 .. Len(diff),
         blocksChan' \in Seq(Reported),
         \A i \in DOMAIN blocksChan' : End(blocksChan'[i]) <= Size,
         Len(blocksChan') <= DiffCap
  PROVE  DisjointInv'
BY DEF DisjointInv, AdapterInv, EmittedInv, Ahead, End

LEMMA ReportsStep ==
  ASSUME AdapterInv, DiffReports
  PROVE  /\ reported' = reported + 1 /\ reported' \in 0 .. Len(diff)
         /\ blocksChan' \in Seq(Reported)
         /\ Len(blocksChan') = Len(blocksChan) + 1
         /\ Len(blocksChan') <= DiffCap
         /\ \A i \in 1 .. Len(blocksChan) : blocksChan'[i] = blocksChan[i]
         /\ blocksChan'[Len(blocksChan) + 1] = diff[reported + 1]
         /\ \A i \in DOMAIN blocksChan' : End(blocksChan'[i]) <= Size
         /\ UNCHANGED <<transferVars, full, diff, diffState, ad, emitted, device, syncVars>>
<1>1. reported \in Nat /\ reported + 1 \in 1 .. Len(diff)
  BY RBDAssumption DEF AdapterInv, DiffReports
<1>2. diff[reported + 1] \in Reported /\ End(diff[reported + 1]) <= Size
  BY <1>1, DiffExtent
<1>3. blocksChan \in Seq(Reported) /\ Len(blocksChan) < DiffCap
      /\ DiffCap \in Nat /\ \A i \in DOMAIN blocksChan : End(blocksChan[i]) <= Size
  BY RBDAssumption DEF AdapterInv, DiffReports
<1>4. blocksChan' = Append(blocksChan, diff[reported + 1]) /\ reported' = reported + 1
      /\ UNCHANGED <<transferVars, full, diff, diffState, ad, emitted, device, syncVars>>
  BY DEF DiffReports, DiffKeeps
<1>5. QED
  BY <1>1, <1>2, <1>3, <1>4

(* The head of the channel is an extent of the volume.                     *)
LEMMA HeadStep ==
  ASSUME AdapterInv, blocksChan # <<>>, blocksChan' = Tail(blocksChan)
  PROVE  /\ Head(blocksChan) \in Reported
         /\ Head(blocksChan) = blocksChan[1] /\ 1 \in DOMAIN blocksChan
         /\ End(Head(blocksChan)) <= Size
         /\ blocksChan' \in Seq(Reported)
         /\ Len(blocksChan) \in Nat \ {0}
         /\ Len(blocksChan') = Len(blocksChan) - 1
         /\ Len(blocksChan') <= DiffCap
         /\ \A i \in DOMAIN blocksChan' : blocksChan'[i] = blocksChan[i + 1] /\ i + 1 \in DOMAIN blocksChan
         /\ \A i \in DOMAIN blocksChan' : End(blocksChan'[i]) <= Size
<1>1. blocksChan \in Seq(Reported) /\ Len(blocksChan) <= DiffCap
      /\ DiffCap \in Nat /\ \A i \in DOMAIN blocksChan : End(blocksChan[i]) <= Size
  BY RBDAssumption DEF AdapterInv
<1>2. /\ Head(blocksChan) = blocksChan[1] /\ 1 \in DOMAIN blocksChan
      /\ Len(blocksChan) \in Nat \ {0} /\ Len(blocksChan') = Len(blocksChan) - 1
      /\ blocksChan' \in Seq(Reported)
      /\ \A i \in DOMAIN blocksChan' : blocksChan'[i] = blocksChan[i + 1] /\ i + 1 \in DOMAIN blocksChan
  BY <1>1
<1>3. Head(blocksChan) \in Reported /\ End(Head(blocksChan)) <= Size
  BY <1>1, <1>2
<1>4. QED
  BY <1>1, <1>2, <1>3

LEMMA PendingStep ==
  ASSUME AdapterInv, LoadPending
  PROVE  /\ outcome = "none" /\ ad.done = FALSE /\ ad.rem = NoExtent /\ ad.pend # NoExtent
         /\ ad' \in AdapterType
         /\ ad'.pos = ad.pos /\ ad'.rem = ad.pend /\ ad'.pend = NoExtent /\ ad'.done = FALSE
         /\ UNCHANGED <<transferVars, diffVars, emitted, device, syncVars>>
<1>1. ad \in AdapterType
  BY DEF AdapterInv
<1>2. outcome = "none" /\ ad.rem = NoExtent /\ ~ad.done /\ ad.pend # NoExtent
  BY DEF LoadPending, Loads
<1>3. ad' = [ad EXCEPT !.rem = ad.pend, !.pend = NoExtent]
  BY DEF LoadPending
<1>4. UNCHANGED <<transferVars, diffVars, emitted, device, syncVars>>
  BY DEF LoadPending, AdapterKeeps, diffVars
<1>5. QED
  BY Zenon, <1>1, <1>2, <1>3, <1>4, NoExtentIsEmpty DEF AdapterType

(* The three things LoadExtent does with the head of the channel.          *)
TakesGap(e) ==
  /\ full /\ e.off > ad.pos
  /\ ad'.rem = Extent(ad.pos, e.off - ad.pos, TRUE)
  /\ ad'.pend = Extent(e.off, e.len, FALSE)
TakesNothing(e) ==
  /\ ~(full /\ e.off > ad.pos) /\ Clamped(e, ad.pos).len <= 0
  /\ ad'.rem = NoExtent /\ ad'.pend = NoExtent
TakesRest(e) ==
  /\ ~(full /\ e.off > ad.pos) /\ Clamped(e, ad.pos).len > 0
  /\ ad'.rem = Clamped(e, ad.pos) /\ ad'.pend = NoExtent

LEMMA ExtentStep ==
  ASSUME AdapterInv, LoadExtent
  PROVE  LET e == Head(blocksChan) IN
         /\ outcome = "none" /\ ad.done = FALSE /\ ad.rem = NoExtent /\ ad.pend = NoExtent
         /\ blocksChan # <<>> /\ blocksChan' = Tail(blocksChan)
         /\ ad' \in AdapterType
         /\ ad'.pos = ad.pos /\ ad'.done = FALSE
         /\ TakesGap(e) \/ TakesNothing(e) \/ TakesRest(e)
         /\ UNCHANGED <<transferVars, full, diff, diffState, reported, emitted, device, syncVars>>
<1> DEFINE e == Head(blocksChan)
           rest == Clamped(e, ad.pos)
           gap == Extent(ad.pos, e.off - ad.pos, TRUE)
           all == Extent(e.off, e.len, FALSE)
<1>1. ad \in AdapterType /\ ad.pos \in Nat /\ Size \in Nat
  BY Zenon, AdapterRecord DEF AdapterInv
<1>2. /\ outcome = "none" /\ ad.rem = NoExtent /\ ~ad.done /\ ad.pend = NoExtent
      /\ blocksChan # <<>> /\ blocksChan' = Tail(blocksChan)
  BY DEF LoadExtent, Loads
<1>3. ad' = CASE full /\ e.off > ad.pos -> [ad EXCEPT !.rem = gap, !.pend = all]
              [] rest.len <= 0 -> ad
              [] OTHER -> [ad EXCEPT !.rem = rest]
  BY DEF LoadExtent
<1>4. UNCHANGED <<transferVars, full, diff, diffState, reported, emitted, device, syncVars>>
  BY DEF LoadExtent, AdapterKeeps
<1>5. e \in Reported
  BY <1>2, HeadStep
<1>6. e.off \in Nat /\ e.len \in Nat
  BY <1>1, <1>5 DEF Reported, Positions
<1>7. all \in ExtentType
  BY Zenon, <1>6, ExtentFields
<1>8. rest.len \in Int /\ (rest.len > 0 => rest \in ExtentType)
  BY Zenon, <1>1, <1>5, ClampedIsAhead
<1>9. e.off > ad.pos => gap \in ExtentType /\ rest.len > 0
  <2>1. e.off > ad.pos => e.off - ad.pos \in Nat
    BY <1>1, <1>6
  <2>2. e.off > ad.pos => gap \in ExtentType
    BY <1>1, <2>1 DEF Extent, ExtentType
  <2>3. e.off > ad.pos => rest.len > 0
    BY <1>1, <1>5, <1>6 DEF Clamped, Extent, Reported
  <2>4. QED
    BY Zenon, <2>2, <2>3
<1> HIDE DEF e, rest, gap, all
<1>10. CASE full /\ e.off > ad.pos
  <2>1. ad' = [ad EXCEPT !.rem = gap, !.pend = all]
    BY <1>3, <1>8, <1>9, <1>10
  <2>2. ad' \in AdapterType /\ ad'.pos = ad.pos /\ ad'.done = ad.done /\ ad'.rem = gap /\ ad'.pend = all
    BY Zenon, <2>1, <1>1, <1>7, <1>9, <1>10 DEF AdapterType
  <2>3. TakesGap(e)
    BY <2>2, <1>10 DEF TakesGap, gap, all
  <2>4. QED
    BY <1>1, <1>2, <1>4, <2>2, <2>3 DEF e, AdapterType
<1>11. CASE ~(full /\ e.off > ad.pos) /\ rest.len <= 0
  <2>1. ad' = ad
    BY <1>3, <1>11
  <2>2. TakesNothing(e)
    BY <2>1, <1>2, <1>11 DEF TakesNothing, rest
  <2>3. QED
    BY <1>1, <1>2, <1>4, <2>1, <2>2 DEF e, AdapterType
<1>12. CASE ~(full /\ e.off > ad.pos) /\ ~(rest.len <= 0)
  <2>1. ad' = [ad EXCEPT !.rem = rest] /\ rest.len > 0
    BY <1>3, <1>8, <1>12
  <2>2. ad' \in AdapterType /\ ad'.pos = ad.pos /\ ad'.done = ad.done /\ ad'.rem = rest
        /\ ad'.pend = NoExtent
    BY <2>1, <1>1, <1>2, <1>8 DEF AdapterType
  <2>3. TakesRest(e)
    BY <2>1, <2>2, <1>12 DEF TakesRest, rest
  <2>4. QED
    BY <1>1, <1>2, <1>4, <2>2, <2>3 DEF e, AdapterType
<1>13. QED
  BY Zenon, <1>10, <1>11, <1>12

(* The end of the channel: zeros up to the size, or nothing.               *)
LEMMA EndStep ==
  ASSUME AdapterInv, LoadEnd
  PROVE  /\ outcome = "none" /\ ad.done = FALSE /\ ad.rem = NoExtent /\ ad.pend = NoExtent
         /\ blocksChan = <<>> /\ diffState # "running"
         /\ ad' \in AdapterType
         /\ ad'.pos = ad.pos /\ ad'.pend = NoExtent /\ ad'.done = TRUE
         /\ IF full /\ ad.pos < Size THEN ad'.rem = Extent(ad.pos, Size - ad.pos, TRUE)
                                    ELSE ad'.rem = NoExtent
         /\ UNCHANGED <<transferVars, diffVars, emitted, device, syncVars>>
<1> DEFINE last == Extent(ad.pos, Size - ad.pos, TRUE)
           r == IF full /\ ad.pos < Size THEN last ELSE NoExtent
<1>1. ad \in AdapterType /\ ad.pos \in Nat /\ Size \in Nat
  BY Zenon, AdapterRecord DEF AdapterInv
<1>2. outcome = "none" /\ ad.rem = NoExtent /\ ~ad.done /\ ad.pend = NoExtent
  BY DEF LoadEnd, Loads
<1>3. blocksChan = <<>> /\ diffState # "running"
  BY DEF LoadEnd
<1>4. ad' = [ad EXCEPT !.done = TRUE, !.rem = r]
  BY DEF LoadEnd
<1>5. ad.pos < Size => last \in ExtentType
  BY <1>1 DEF Extent, ExtentType
<1>6. UNCHANGED <<transferVars, diffVars, emitted, device, syncVars>>
  BY DEF LoadEnd, AdapterKeeps, diffVars
<1> HIDE DEF last
<1>7. r \in ExtentType
  BY <1>5, NoExtentIsEmpty
<1>8. r = IF full /\ ad.pos < Size THEN last ELSE NoExtent
  OBVIOUS
<1> HIDE DEF r
<1>9. ad' \in AdapterType /\ ad'.pos = ad.pos /\ ad'.pend = NoExtent /\ ad'.done = TRUE /\ ad'.rem = r
  BY Zenon, <1>1, <1>2, <1>4, <1>7 DEF AdapterType
<1>10. QED
  BY Zenon, <1>1, <1>2, <1>3, <1>6, <1>8, <1>9 DEF last, AdapterType

(* One block: a chunk, or what is left of the extent.                      *)
EmitsBlock(n) ==
  /\ n \in 1 .. ChunkSize /\ n <= ad.rem.len
  /\ emitted' = Append(emitted, Extent(ad.rem.off, n, ad.rem.zero))
  /\ ad' \in AdapterType
  /\ ad'.pos = ad.rem.off + n /\ ad'.pend = ad.pend /\ ad'.done = ad.done
  /\ \/ ad.rem.len = n /\ ad'.rem = NoExtent
     \/ ad.rem.len > n /\ ad'.rem = Extent(ad.rem.off + n, ad.rem.len - n, ad.rem.zero)
  /\ fed' = fed \cup {Len(emitted)}
  /\ UNCHANGED <<stored, free, faulted, outcome, diffVars, device, syncVars>>

LEMMA EmitStep ==
  ASSUME AdapterInv, EmitFromRemainder
  PROVE  outcome = "none" /\ ad.rem # NoExtent /\ \E n \in Nat : EmitsBlock(n)
<1> DEFINE n == IF ad.rem.len > ChunkSize THEN ChunkSize ELSE ad.rem.len
           next == ad.rem.off + n
           left == Extent(next, ad.rem.len - n, ad.rem.zero)
           r == IF ad.rem.len = n THEN NoExtent ELSE left
<1>1. /\ ad \in AdapterType /\ ad.rem.off \in Nat /\ ad.rem.len \in Nat /\ ad.rem.zero \in BOOLEAN
      /\ ChunkSize \in Nat \ {0}
  BY Zenon, AdapterRecord DEF AdapterInv
<1>2. ad.rem # NoExtent
  BY DEF EmitFromRemainder
<1>3. ad.rem.len >= 1
  BY <1>2 DEF AdapterInv, Ahead
<1>4. n \in 1 .. ChunkSize /\ n <= ad.rem.len /\ n \in Nat
  BY <1>1, <1>3
<1>5. ad' = [ad EXCEPT !.pos = next, !.rem = r]
  BY DEF EmitFromRemainder
<1>6. emitted' = Append(emitted, Extent(ad.rem.off, n, ad.rem.zero))
  BY DEF EmitFromRemainder
<1>7. outcome = "none" /\ fed' = fed \cup {Len(emitted)} /\ UNCHANGED <<stored, free, faulted, outcome>>
  BY DEF EmitFromRemainder, Taken, reqID
<1>8. UNCHANGED <<diffVars, device, syncVars>>
  BY DEF EmitFromRemainder, AdapterKeeps, diffVars
<1> HIDE DEF n
<1>9. left \in ExtentType
  BY <1>1, <1>4 DEF Extent, ExtentType
<1> HIDE DEF left
<1>10. r \in ExtentType
  BY <1>9, NoExtentIsEmpty
<1>11. (ad.rem.len = n /\ r = NoExtent) \/ (ad.rem.len > n /\ r = left)
  BY <1>1, <1>4
<1>12. next \in Nat
  BY <1>1, <1>4
<1> HIDE DEF r, next
<1>13. /\ ad' \in AdapterType
       /\ ad'.pos = next /\ ad'.pend = ad.pend /\ ad'.done = ad.done /\ ad'.rem = r
  BY Zenon, <1>1, <1>5, <1>10, <1>12 DEF AdapterType
<1>14. EmitsBlock(n)
  BY <1>4, <1>6, <1>7, <1>8, <1>11, <1>13 DEF EmitsBlock, left, next
<1>15. QED
  BY <1>2, <1>4, <1>7, <1>14

-----------------------------------------------------------------------------
(* DisjointInv is inductive                                                *)

(* A load leaves position, blocks and channel within their bounds.         *)
LEMMA LoadedDisjoint ==
  ASSUME DisjointInv,
         UNCHANGED <<full, diff, diffState, reported, emitted, fed>>,
         blocksChan' \in Seq(Reported), Len(blocksChan') <= DiffCap,
         \A i \in DOMAIN blocksChan' : End(blocksChan'[i]) <= Size,
         ad' \in AdapterType, ad'.pos = ad.pos,
         Ahead(ad.rem)', Ahead(ad.pend)',
         ad'.pend # NoExtent => ad'.pend.zero = FALSE,
         (ad'.pend # NoExtent /\ ad'.rem # NoExtent) => End(ad'.rem) <= ad'.pend.off
  PROVE  DisjointInv'
<1>1. AdapterInv'
  BY DEF DisjointInv, AdapterInv
<1>2. EmittedInv'
  BY DEF DisjointInv, EmittedInv
<1>3. QED
  BY <1>1, <1>2 DEF DisjointInv

LEMMA PendingDisjoint == DisjointInv /\ LoadPending => DisjointInv'
<1> SUFFICES ASSUME DisjointInv, LoadPending PROVE DisjointInv'
  OBVIOUS
<1>1. AdapterInv
  BY DEF DisjointInv
<1>2. /\ ad' \in AdapterType /\ ad'.pos = ad.pos /\ ad'.rem = ad.pend /\ ad'.pend = NoExtent
      /\ UNCHANGED <<full, diff, diffState, reported, blocksChan, emitted, fed>>
  BY <1>1, PendingStep DEF transferVars, diffVars
<1>3. Ahead(ad.rem)' /\ Ahead(ad.pend)'
  BY <1>1, <1>2 DEF AdapterInv, Ahead, End
<1>4. /\ blocksChan' \in Seq(Reported) /\ Len(blocksChan') <= DiffCap
      /\ \A i \in DOMAIN blocksChan' : End(blocksChan'[i]) <= Size
  BY <1>1, <1>2 DEF AdapterInv
<1>5. QED
  BY <1>2, <1>3, <1>4, LoadedDisjoint

LEMMA ExtentDisjoint == DisjointInv /\ LoadExtent => DisjointInv'
<1> SUFFICES ASSUME DisjointInv, LoadExtent PROVE DisjointInv'
  OBVIOUS
<1> DEFINE e == Head(blocksChan)
<1>1. AdapterInv
  BY DEF DisjointInv
<1>2. /\ ad' \in AdapterType /\ ad'.pos = ad.pos
      /\ TakesGap(e) \/ TakesNothing(e) \/ TakesRest(e)
      /\ blocksChan # <<>> /\ blocksChan' = Tail(blocksChan)
      /\ UNCHANGED <<full, diff, diffState, reported, emitted, fed>>
  BY <1>1, ExtentStep DEF transferVars
<1>3. /\ e \in Reported /\ End(e) <= Size
      /\ blocksChan' \in Seq(Reported) /\ Len(blocksChan') <= DiffCap
      /\ \A i \in DOMAIN blocksChan' : End(blocksChan'[i]) <= Size
  BY <1>1, <1>2, HeadStep
<1>4. ad.pos \in Nat /\ Size \in Nat
  BY <1>1, AdapterRecord
<1> HIDE DEF e
<1>5. e.off \in Nat /\ e.len \in Nat /\ e.len >= 1
  BY <1>3, <1>4 DEF Reported, Positions
<1>6. CASE TakesGap(e)
  <2>1. /\ ad'.rem.off = ad.pos /\ ad'.rem.len = e.off - ad.pos /\ e.off > ad.pos
        /\ ad'.pend.off = e.off /\ ad'.pend.len = e.len /\ ad'.pend.zero = FALSE
    BY <1>6 DEF TakesGap, Extent
  <2>2. Ahead(ad.rem)' /\ Ahead(ad.pend)' /\ End(ad'.rem) <= ad'.pend.off
    BY <2>1, <1>2, <1>3, <1>4, <1>5 DEF Ahead, End
  <2>3. QED
    BY Zenon, <2>1, <2>2, <1>2, <1>3, LoadedDisjoint
<1>7. CASE TakesNothing(e)
  <2>1. ad'.rem = NoExtent /\ ad'.pend = NoExtent
    BY <1>7 DEF TakesNothing
  <2>2. Ahead(ad.rem)' /\ Ahead(ad.pend)'
    BY <2>1 DEF Ahead
  <2>3. QED
    BY <2>1, <2>2, <1>2, <1>3, LoadedDisjoint
<1>8. CASE TakesRest(e)
  <2>1. ad'.pend = NoExtent /\ ad'.rem = Clamped(e, ad.pos) /\ Clamped(e, ad.pos).len > 0
    BY <1>8 DEF TakesRest
  <2>2. /\ ad.pos <= ad'.rem.off /\ End(ad'.rem) = End(e)
        /\ ad'.rem.len >= 1
    <3>1. ad.pos <= Size
      BY <1>1 DEF AdapterInv
    <3>2. ad.pos <= Clamped(e, ad.pos).off /\ End(Clamped(e, ad.pos)) = End(e)
      BY Zenon, <3>1, <1>3, <1>4, ClampedIsAhead
    <3>3. Clamped(e, ad.pos).len \in Int
      BY Zenon, <3>1, <1>3, <1>4, ClampedIsAhead
    <3>4. QED
      BY <3>2, <3>3, <2>1
  <2>3. Ahead(ad.rem)' /\ Ahead(ad.pend)'
    BY <2>1, <2>2, <1>2, <1>3 DEF Ahead, End
  <2>4. QED
    BY <2>1, <2>3, <1>2, <1>3, LoadedDisjoint
<1>9. QED
  BY <1>2, <1>6, <1>7, <1>8

LEMMA EndDisjoint == DisjointInv /\ LoadEnd => DisjointInv'
<1> SUFFICES ASSUME DisjointInv, LoadEnd PROVE DisjointInv'
  OBVIOUS
<1>1. AdapterInv
  BY DEF DisjointInv
<1>2. /\ ad' \in AdapterType /\ ad'.pos = ad.pos /\ ad'.pend = NoExtent
      /\ IF full /\ ad.pos < Size THEN ad'.rem = Extent(ad.pos, Size - ad.pos, TRUE)
                                  ELSE ad'.rem = NoExtent
      /\ UNCHANGED <<full, diff, diffState, reported, blocksChan, emitted, fed>>
  BY Zenon, <1>1, EndStep DEF transferVars, diffVars
<1>3. ad.pos \in Nat /\ Size \in Nat
  BY <1>1, AdapterRecord
<1>4. Ahead(ad.rem)' /\ Ahead(ad.pend)'
  BY <1>2, <1>3 DEF Ahead, End, Extent
<1>5. /\ blocksChan' \in Seq(Reported) /\ Len(blocksChan') <= DiffCap
      /\ \A i \in DOMAIN blocksChan' : End(blocksChan'[i]) <= Size
  BY <1>1, <1>2 DEF AdapterInv
<1>6. QED
  BY <1>2, <1>4, <1>5, LoadedDisjoint

(* What emitting a block does to the list: the new block is the last one,  *)
(* behind all the others.                                                  *)
LEMMA EmittedGrows ==
  ASSUME DisjointInv, NEW n \in Nat, EmitsBlock(n), ad.rem # NoExtent
  PROVE  LET last == Len(emitted) + 1 IN
         /\ last \in Nat /\ Len(emitted') = last /\ emitted' \in Seq(ExtentType)
         /\ DOMAIN emitted = 1 .. Len(emitted) /\ DOMAIN emitted' = 1 .. last
         /\ \A i \in 1 .. Len(emitted) : emitted'[i] = emitted[i] /\ emitted[i] \in ExtentType
         /\ emitted'[last].off = ad.rem.off /\ emitted'[last].len = n
         /\ emitted'[last].zero = ad.rem.zero /\ emitted'[last] \in ExtentType
         /\ ad.rem.off \in Nat /\ ad.rem.len \in Nat
         /\ ad.pos <= ad.rem.off /\ End(ad.rem) <= Size /\ n >= 1
         /\ ad'.pos = ad.rem.off + n
<1> DEFINE b == Extent(ad.rem.off, n, ad.rem.zero)
<1>1. AdapterInv /\ EmittedInv
  BY DEF DisjointInv
<1>2. ad.rem.off \in Nat /\ ad.rem.len \in Nat /\ ad.rem.zero \in BOOLEAN /\ ChunkSize \in Nat
  BY <1>1, AdapterRecord
<1>3. b \in ExtentType /\ b.off = ad.rem.off /\ b.len = n /\ b.zero = ad.rem.zero
  BY <1>2 DEF Extent, ExtentType
<1>4. emitted' = Append(emitted, b) /\ emitted \in Seq(ExtentType)
  BY <1>1 DEF EmitsBlock, EmittedInv
<1> HIDE DEF b
<1>5. /\ Len(emitted) + 1 \in Nat /\ Len(emitted') = Len(emitted) + 1 /\ emitted' \in Seq(ExtentType)
      /\ DOMAIN emitted = 1 .. Len(emitted) /\ DOMAIN emitted' = 1 .. Len(emitted) + 1
      /\ \A i \in 1 .. Len(emitted) : emitted'[i] = emitted[i] /\ emitted[i] \in ExtentType
      /\ emitted'[Len(emitted) + 1] = b
  BY <1>3, <1>4
<1>6. ad.pos <= ad.rem.off /\ End(ad.rem) <= Size
  BY <1>1 DEF AdapterInv, Ahead
<1>7. n >= 1 /\ ad'.pos = ad.rem.off + n
  BY <1>2 DEF EmitsBlock
<1>8. QED
  BY <1>2, <1>3, <1>5, <1>6, <1>7

LEMMA EmitDisjoint == DisjointInv /\ EmitFromRemainder => DisjointInv'
<1> SUFFICES ASSUME DisjointInv, EmitFromRemainder PROVE DisjointInv'
  OBVIOUS
<1>1. AdapterInv /\ EmittedInv
  BY DEF DisjointInv
<1>2. PICK n \in Nat : EmitsBlock(n)
  BY <1>1, EmitStep
<1>3. ad.rem # NoExtent
  BY <1>1, EmitStep
<1> DEFINE last == Len(emitted) + 1
<1>4. /\ last \in Nat /\ Len(emitted') = last /\ emitted' \in Seq(ExtentType)
      /\ DOMAIN emitted = 1 .. Len(emitted) /\ DOMAIN emitted' = 1 .. last
      /\ \A i \in 1 .. Len(emitted) : emitted'[i] = emitted[i] /\ emitted[i] \in ExtentType
      /\ emitted'[last].off = ad.rem.off /\ emitted'[last].len = n
      /\ ad.rem.off \in Nat /\ ad.rem.len \in Nat
      /\ ad.pos <= ad.rem.off /\ End(ad.rem) <= Size /\ n >= 1
      /\ ad'.pos = ad.rem.off + n
  BY <1>2, <1>3, EmittedGrows
<1>5. /\ n \in 1 .. ChunkSize /\ n <= ad.rem.len
      /\ ad' \in AdapterType /\ ad'.pend = ad.pend
      /\ \/ ad.rem.len = n /\ ad'.rem = NoExtent
         \/ ad.rem.len > n /\ ad'.rem = Extent(ad.rem.off + n, ad.rem.len - n, ad.rem.zero)
      /\ fed' = fed \cup {Len(emitted)}
      /\ UNCHANGED <<full, diff, diffState, reported, blocksChan>>
  BY <1>2 DEF EmitsBlock, diffVars
<1>6. ad.pos \in Nat /\ Size \in Nat /\ ChunkSize \in Nat /\ ad.pend.off \in Nat /\ ad.pend.len \in Nat
  BY <1>1, AdapterRecord
<1>7. /\ ad.rem.off \in Nat /\ ad.rem.len \in Nat /\ n >= 1 /\ n <= ad.rem.len
      /\ ad'.pos = ad.rem.off + n /\ ad.pos <= ad.rem.off /\ End(ad.rem) <= Size
      /\ ad'.pend = ad.pend
  BY <1>4, <1>5
<1>8. ad'.pos <= Size
  BY <1>6, <1>7 DEF End
<1>9. Ahead(ad.rem)'
  <2>1. CASE ad'.rem = NoExtent
    BY <2>1 DEF Ahead
  <2>2. CASE ad'.rem = Extent(ad.rem.off + n, ad.rem.len - n, ad.rem.zero) /\ ad.rem.len > n
    <3>1. ad'.rem.off = ad.rem.off + n /\ ad'.rem.len = ad.rem.len - n
      BY <2>2 DEF Extent
    <3>2. QED
      BY <3>1, <2>2, <1>6, <1>7 DEF Ahead, End
  <2>3. QED
    BY <1>5, <2>1, <2>2
<1>10. ad.pend # NoExtent => End(ad.rem) <= ad.pend.off
  BY <1>1, <1>3 DEF AdapterInv
<1>11. Ahead(ad.pend)'
  <2>1. SUFFICES ASSUME ad.pend # NoExtent
                 PROVE  ad.pend.len >= 1 /\ ad'.pos <= ad.pend.off /\ End(ad.pend) <= Size
    BY <1>5 DEF Ahead
  <2>2. ad.pend.len >= 1 /\ End(ad.pend) <= Size
    BY <2>1, <1>1 DEF AdapterInv, Ahead
  <2>3. QED
    BY <2>1, <2>2, <1>6, <1>10, <1>7 DEF End
<1>12. (ad'.pend # NoExtent /\ ad'.rem # NoExtent) => End(ad'.rem) <= ad'.pend.off
  <2>1. SUFFICES ASSUME ad'.pend # NoExtent, ad'.rem # NoExtent PROVE End(ad'.rem) <= ad'.pend.off
    OBVIOUS
  <2>2. ad'.rem.off = ad.rem.off + n /\ ad'.rem.len = ad.rem.len - n
    BY <2>1, <1>5 DEF Extent
  <2>3. QED
    BY <2>1, <2>2, <1>6, <1>10, <1>7 DEF End
<1>13. ad'.pend # NoExtent => ad'.pend.zero = FALSE
  BY <1>1, <1>5 DEF AdapterInv
<1>14. AdapterInv'
  BY <1>1, <1>5, <1>8, <1>9, <1>11, <1>12, <1>13 DEF AdapterInv
<1>15. \A i \in 1 .. Len(emitted) : emitted[i].len \in 1 .. ChunkSize /\ End(emitted[i]) <= ad.pos
  BY <1>1, <1>4 DEF EmittedInv
<1>16. ad.rem.off \in Nat /\ ad'.pos \in Nat /\ ad.pos <= ad.rem.off /\ ad.pos <= ad'.pos
  BY <1>4, <1>6
<1>17. \A i \in DOMAIN emitted' : emitted'[i].len \in 1 .. ChunkSize /\ End(emitted'[i]) <= ad'.pos
  <2>1. SUFFICES ASSUME NEW i \in 1 .. last
                 PROVE  emitted'[i].len \in 1 .. ChunkSize /\ End(emitted'[i]) <= ad'.pos
    BY <1>4
  <2>2. CASE i = last
    BY <2>2, <1>4, <1>5 DEF End
  <2>3. CASE i \in 1 .. Len(emitted)
    <3>1. emitted[i].off \in Nat /\ emitted[i].len \in Nat
      BY Zenon, <2>3, <1>4 DEF ExtentType
    <3>2. /\ emitted'[i] = emitted[i] /\ emitted[i].len \in 1 .. ChunkSize
          /\ End(emitted[i]) <= ad.pos
      BY <2>3, <1>4, <1>15
    <3>3. QED
      BY <3>1, <3>2, <1>6, <1>16 DEF End
  <2>4. QED
    BY <2>1, <2>2, <2>3, <1>4
<1>18. \A i, j \in DOMAIN emitted' : i < j => End(emitted'[i]) <= emitted'[j].off
  <2>1. SUFFICES ASSUME NEW i \in 1 .. last, NEW j \in 1 .. last, i < j
                 PROVE  End(emitted'[i]) <= emitted'[j].off
    BY <1>4
  <2>2. i \in 1 .. Len(emitted) /\ emitted'[i] = emitted[i]
    BY <2>1, <1>4
  <2>3. CASE j = last
    <3>1. emitted[i].off \in Nat /\ emitted[i].len \in Nat
      BY Zenon, <2>2, <1>4 DEF ExtentType
    <3>2. End(emitted[i]) <= ad.pos /\ emitted'[j].off = ad.rem.off
      BY <2>2, <2>3, <1>4, <1>15
    <3>3. QED
      BY <3>1, <3>2, <2>2, <1>6, <1>16 DEF End
  <2>4. CASE j \in 1 .. Len(emitted)
    <3>1. \A k, m \in 1 .. Len(emitted) : k < m => End(emitted[k]) <= emitted[m].off
      BY Zenon, <1>1, <1>4 DEF EmittedInv
    <3>2. emitted'[j] = emitted[j]
      BY <2>4, <1>4
    <3>3. QED
      BY <3>1, <3>2, <2>1, <2>2, <2>4
  <2>5. QED
    BY <2>1, <2>3, <2>4, <1>4
<1>19. Len(emitted') <= ad'.pos
  BY <1>1, <1>4, <1>6 DEF EmittedInv
<1>20. fed' = 0 .. Len(emitted') - 1
  BY <1>1, <1>4, <1>5 DEF EmittedInv
<1>21. EmittedInv'
  BY Zenon, <1>4, <1>17, <1>18, <1>19, <1>20 DEF EmittedInv
<1>22. QED
  BY <1>14, <1>21 DEF DisjointInv

(* Every other step is quiet.                                              *)
LEMMA NextSplit ==
  ASSUME [Next]_vars
  PROVE  \/ DiffReports \/ CloseDrains
         \/ LoadPending \/ LoadExtent \/ LoadEnd \/ EmitFromRemainder
         \/ QuietStep
<1> USE DEF QuietStep
<1>1. CASE DiffStep
  BY <1>1 DEF DiffStep, DiffEnds, DiffKeeps, transferVars
<1>2. CASE AdapterStep
  BY <1>2 DEF AdapterStep
<1>3. CASE SyncStep
  BY Zenon, <1>3 DEF SyncStep, AcksSeen, AcksCancelled, CommitSent, SignalDone, SyncReturns, SyncKeeps, transferVars
<1>4. ASSUME NEW id \in Blocks, TransferStep(id) \/ BlockAbandoned(id) PROVE QuietStep
  BY <1>4 DEF TransferStep, DestinationWrites, BlockAcked, BlockAbandoned, Written, Acked,
              Abandoned, TransferKeeps, diffVars
<1>5. ASSUME NEW o \in {"ok", "err"}, RunReturns(o) PROVE QuietStep
  BY <1>5 DEF RunReturns, Return, diffVars
<1>6. CASE WriteEnds
  BY <1>6 DEF WriteEnds, diffVars, transferVars
<1>7. CASE DiffFails
  BY <1>7 DEF DiffFails, DiffKeeps, transferVars
<1>8. CASE PipelineFault
  BY <1>8 DEF PipelineFault, Fault, TransferKeeps, diffVars
<1>9. CASE CommitFails \/ Cancel
  BY <1>9 DEF CommitFails, Cancel, SyncKeeps, transferVars
<1>10. CASE Finished \/ UNCHANGED vars
  BY <1>10 DEF Finished, vars, diffVars, transferVars
<1>11. QED
  BY <1>1, <1>2, <1>3, <1>4, <1>5, <1>6, <1>7, <1>8, <1>9, <1>10 DEF Next

LEMMA DisjointInit == Init => DisjointInv
<1> SUFFICES ASSUME Init PROVE DisjointInv
  OBVIOUS
<1>1. /\ ad = [pos |-> 0, rem |-> NoExtent, pend |-> NoExtent, done |-> FALSE]
      /\ full \in BOOLEAN /\ diff \in Diffs /\ diffState = "running" /\ reported = 0
      /\ blocksChan = <<>> /\ emitted = <<>> /\ fed = {}
  BY DEF Init, TransferInit
<1>2. ad \in AdapterType /\ ad.pos = 0 /\ ad.rem = NoExtent /\ ad.pend = NoExtent
  BY <1>1, NoExtentIsEmpty DEF AdapterType
<1>3. Len(diff) \in Nat /\ Size \in Nat /\ DiffCap \in Nat
  BY <1>1, RBDAssumption
<1>4. AdapterInv
  BY <1>1, <1>2, <1>3 DEF AdapterInv, Ahead
<1>5. EmittedInv
  BY <1>1, <1>2 DEF EmittedInv
<1>6. QED
  BY <1>4, <1>5 DEF DisjointInv

LEMMA DisjointNext == DisjointInv /\ [Next]_vars => DisjointInv'
<1> SUFFICES ASSUME DisjointInv, [Next]_vars PROVE DisjointInv'
  OBVIOUS
<1>1. AdapterInv
  BY DEF DisjointInv
<1>2. CASE DiffReports
  BY <1>1, <1>2, ReportsStep, ChannelDisjoint DEF transferVars
<1>3. CASE CloseDrains
  <2>1. blocksChan # <<>> /\ blocksChan' = Tail(blocksChan)
        /\ UNCHANGED <<full, diff, diffState, reported, ad, emitted, fed>>
    BY <1>3 DEF CloseDrains, SyncKeeps, transferVars
  <2>2. reported' \in 0 .. Len(diff)
    BY <2>1, <1>1 DEF AdapterInv
  <2>3. /\ blocksChan' \in Seq(Reported) /\ Len(blocksChan') <= DiffCap
        /\ \A i \in DOMAIN blocksChan' : End(blocksChan'[i]) <= Size
    BY <2>1, <1>1, HeadStep
  <2>4. QED
    BY <2>1, <2>2, <2>3, ChannelDisjoint
<1>4. QED
  BY <1>2, <1>3, NextSplit, QuietDisjoint, PendingDisjoint, ExtentDisjoint, EndDisjoint, EmitDisjoint

(* What rbdIterAdapter has cut, and what it still has to cut, never share  *)
(* a position: the inductive invariant of BlocksDisjoint.                  *)
THEOREM DisjointAlways == Spec => []DisjointInv
<1>1. QED
  BY DisjointInit, DisjointNext, PTL DEF Spec

(* Blocks in increasing order share no position.                           *)
LEMMA DisjointBlocks == DisjointInv => BlocksDisjoint
<1> SUFFICES ASSUME DisjointInv, NEW i \in DOMAIN emitted, NEW j \in DOMAIN emitted, i # j
             PROVE  Span(emitted[i]) \cap Span(emitted[j]) = {}
  BY DEF BlocksDisjoint
<1>1. EmittedInv
  BY DEF DisjointInv
<1>2. emitted \in Seq(ExtentType)
  BY <1>1 DEF EmittedInv
<1>3. /\ emitted[i].off \in Nat /\ emitted[i].len \in Nat
      /\ emitted[j].off \in Nat /\ emitted[j].len \in Nat
      /\ i \in Nat /\ j \in Nat
  <2>1. emitted[i] \in ExtentType /\ emitted[j] \in ExtentType /\ i \in Nat /\ j \in Nat
    BY <1>2
  <2>2. QED
    BY <2>1 DEF ExtentType
<1>4. i < j => End(emitted[i]) <= emitted[j].off
  BY <1>1 DEF EmittedInv
<1>5. j < i => End(emitted[j]) <= emitted[i].off
  BY <1>1 DEF EmittedInv
<1>6. i < j \/ j < i
  BY <1>3
<1>7. \A p \in Span(emitted[i]) : p \in Int /\ emitted[i].off <= p /\ p < End(emitted[i])
  BY <1>3 DEF End, Span
<1>8. \A p \in Span(emitted[j]) : p \in Int /\ emitted[j].off <= p /\ p < End(emitted[j])
  BY <1>3 DEF End, Span
<1>9. End(emitted[i]) \in Nat /\ End(emitted[j]) \in Nat
  BY <1>3 DEF End
<1>10. ASSUME NEW p \in Span(emitted[i]) \cap Span(emitted[j]) PROVE FALSE
  BY <1>3, <1>4, <1>5, <1>6, <1>7, <1>8, <1>9
<1>11. QED
  BY <1>10

(* rbdIterAdapter.Next never cuts two blocks that share a position,        *)
(* whatever extents librbd reports and in whatever order: the senders may  *)
(* deliver them in any order.                                              *)
THEOREM BlocksNeverOverlap == Spec => []BlocksDisjoint
<1>1. QED
  BY DisjointAlways, DisjointBlocks, PTL

-----------------------------------------------------------------------------
(* The channel, the device and the outcome                                 *)

(* The channel holds what was reported and not yet taken.                  *)
LEMMA ChannelNext ==
  ASSUME AdapterInv, ChannelInv, [Next]_vars
  PROVE  ChannelInv'
<1>1. /\ reported \in Nat /\ Len(diff) \in Nat /\ blocksChan \in Seq(Reported)
      /\ Len(blocksChan) \in Nat /\ DOMAIN blocksChan = 1 .. Len(blocksChan)
  BY RBDAssumption DEF AdapterInv
<1>2. /\ taken \in Nat /\ taken = reported - Len(blocksChan)
      /\ \A i \in DOMAIN blocksChan : blocksChan[i] = diff[taken + i]
  BY DEF ChannelInv, taken
<1>3. CASE DiffReports
  <2>1. /\ reported' = reported + 1 /\ blocksChan' \in Seq(Reported)
        /\ Len(blocksChan') = Len(blocksChan) + 1
        /\ \A i \in 1 .. Len(blocksChan) : blocksChan'[i] = blocksChan[i]
        /\ blocksChan'[Len(blocksChan) + 1] = diff[reported + 1]
        /\ UNCHANGED <<diff, diffState, ad>>
    BY <1>3, ReportsStep
  <2>2. diffState = "running"
    BY <1>3 DEF DiffReports
  <2>3. taken' = taken
    BY <2>1, <1>1 DEF taken
  <2>4. \A i \in DOMAIN blocksChan' : blocksChan'[i] = diff'[taken' + i]
    <3>1. SUFFICES ASSUME NEW i \in 1 .. Len(blocksChan) + 1
                   PROVE  blocksChan'[i] = diff[taken + i]
      BY <2>1, <2>3, <1>1
    <3>2. CASE i = Len(blocksChan) + 1
      <4>1. taken + i = reported + 1
        BY <3>2, <1>1, <1>2
      <4>2. QED
        BY <4>1, <3>2, <2>1
    <3>3. CASE i \in 1 .. Len(blocksChan)
      BY Zenon, <3>3, <2>1, <1>1, <1>2
    <3>4. QED
      BY <3>1, <3>2, <3>3, <1>1
  <2>5. QED
    BY <2>1, <2>2, <2>3, <2>4, <1>2 DEF ChannelInv
<1>4. ASSUME blocksChan # <<>>, blocksChan' = Tail(blocksChan),
             UNCHANGED <<diff, diffState, reported>>, ad'.done = ad.done
      PROVE  ChannelInv'
  <2>1. /\ Len(blocksChan) \in Nat \ {0} /\ Len(blocksChan') = Len(blocksChan) - 1
        /\ \A i \in DOMAIN blocksChan' : blocksChan'[i] = blocksChan[i + 1] /\ i + 1 \in DOMAIN blocksChan
        /\ blocksChan' \in Seq(Reported)
    BY <1>4, HeadStep
  <2>2. taken' = taken + 1
    BY <2>1, <1>1, <1>4 DEF taken
  <2>3. \A i \in DOMAIN blocksChan' : blocksChan'[i] = diff'[taken' + i]
    <3>1. SUFFICES ASSUME NEW i \in DOMAIN blocksChan'
                   PROVE  blocksChan'[i] = diff[(taken + 1) + i]
      BY <2>2, <1>4
    <3>2. i \in Nat
      BY <2>1
    <3>3. (taken + 1) + i = taken + (i + 1)
      BY <3>2, <1>2
    <3>4. QED
      BY <3>3, <2>1, <1>2
  <2>4. ad'.done # TRUE
    BY Zenon, <1>4 DEF ChannelInv
  <2>5. QED
    BY <2>2, <2>3, <2>4, <1>2, <1>4 DEF ChannelInv
<1>5. CASE CloseDrains
  <2>1. blocksChan # <<>> /\ blocksChan' = Tail(blocksChan) /\ UNCHANGED <<diff, diffState, reported, ad>>
    BY <1>5 DEF CloseDrains, SyncKeeps
  <2>2. QED
    BY <2>1, <1>4
<1>6. CASE LoadExtent
  <2>1. /\ blocksChan # <<>> /\ blocksChan' = Tail(blocksChan)
        /\ UNCHANGED <<diff, diffState, reported>> /\ ad'.done = ad.done
    BY Zenon, <1>6, ExtentStep
  <2>2. QED
    BY <2>1, <1>4
<1>7. CASE LoadPending
  <2>1. UNCHANGED <<diff, diffState, reported, blocksChan>> /\ ad'.done = FALSE
    BY Zenon, <1>7, PendingStep DEF diffVars
  <2>2. QED
    BY <2>1 DEF ChannelInv, taken
<1>8. CASE LoadEnd
  <2>1. /\ UNCHANGED <<diff, diffState, reported, blocksChan>>
        /\ blocksChan = <<>> /\ diffState # "running" /\ ad'.pend = NoExtent
    BY <1>8, EndStep DEF diffVars
  <2>2. QED
    BY <2>1 DEF ChannelInv, taken
<1>9. CASE EmitFromRemainder
  <2>1. /\ UNCHANGED <<diff, diffState, reported, blocksChan>>
        /\ ad'.done = ad.done /\ ad'.pend = ad.pend
    BY <1>9, EmitStep DEF EmitsBlock, diffVars
  <2>2. QED
    BY <2>1 DEF ChannelInv, taken
<1>10. CASE QuietStep
  BY <1>10 DEF QuietStep, ChannelInv, taken
<1>11. QED
  BY <1>3, <1>5, <1>6, <1>7, <1>8, <1>9, <1>10, NextSplit

(* Steps that write no block and emit none.                                *)
IdleDevice ==
  /\ UNCHANGED <<fed, stored, emitted, device>>
  /\ free' \subseteq fed
  /\ durable' \in {durable, device}

LEMMA DeviceSplit ==
  ASSUME AdapterInv, DeviceInv, [Next]_vars
  PROVE  EmitFromRemainder \/ (\E id \in Blocks : DestinationWrites(id)) \/ IdleDevice
<1> USE DEF IdleDevice
<1>1. free \subseteq fed /\ stored \subseteq fed
  BY DEF DeviceInv
<1>2. CASE DiffStep \/ DiffFails
  <2>1. DiffKeeps
    BY <1>2 DEF DiffStep, DiffReports, DiffEnds, DiffFails
  <2>2. QED
    BY <1>1, <2>1 DEF DiffKeeps, transferVars, syncVars
<1>3. CASE AdapterStep
  BY Zenon, <1>1, <1>3, PendingStep, ExtentStep, EndStep DEF AdapterStep, transferVars, syncVars
<1>4. CASE SyncStep
  BY Zenon, <1>1, <1>4 DEF SyncStep, AcksSeen, AcksCancelled, CommitSent, SignalDone, CloseDrains,
                    SyncReturns, SyncKeeps, transferVars, syncVars
<1>5. ASSUME NEW id \in Blocks, TransferStep(id) \/ BlockAbandoned(id)
      PROVE  DestinationWrites(id) \/ IdleDevice
  BY <1>1, <1>5 DEF TransferStep, BlockAcked, BlockAbandoned, Acked, Abandoned, TransferKeeps, syncVars
<1>6. ASSUME NEW o \in {"ok", "err"}, RunReturns(o) PROVE IdleDevice
  BY <1>1, <1>6 DEF RunReturns, Return
<1>7. CASE WriteEnds
  BY <1>1, <1>7 DEF WriteEnds, transferVars
<1>8. CASE PipelineFault
  BY <1>1, <1>8 DEF PipelineFault, Fault, TransferKeeps, syncVars
<1>9. CASE CommitFails \/ Cancel
  BY <1>1, <1>9 DEF CommitFails, Cancel, SyncKeeps, transferVars
<1>10. CASE Finished \/ UNCHANGED vars
  BY <1>1, <1>10 DEF Finished, vars, transferVars, syncVars
<1>11. QED
  BY <1>2, <1>3, <1>4, <1>5, <1>6, <1>7, <1>8, <1>9, <1>10 DEF Next

(* A fed block has an entry in the list.                                   *)
LEMMA FedIsEmitted ==
  ASSUME EmittedInv, NEW id \in fed
  PROVE  /\ id \in Nat /\ id + 1 \in DOMAIN emitted /\ emitted[id + 1] \in ExtentType
<1>1. emitted \in Seq(ExtentType) /\ fed = 0 .. Len(emitted) - 1
  BY DEF EmittedInv
<1>2. id \in Nat /\ id + 1 \in 1 .. Len(emitted)
  BY <1>1
<1>3. QED
  BY <1>1, <1>2

(* The blocks may be written in any order, as they share no position.      *)
LEMMA DeviceNext ==
  ASSUME DisjointInv, DeviceInv, [Next]_vars
  PROVE  DeviceInv'
<1>1. AdapterInv /\ EmittedInv
  BY DEF DisjointInv
<1>2. CASE EmitFromRemainder
  <2>1. PICK n \in Nat : EmitsBlock(n)
    BY <1>1, <1>2, EmitStep
  <2>2. ad.rem # NoExtent
    BY <1>1, <1>2, EmitStep
  <2>3. /\ \A i \in 1 .. Len(emitted) : emitted'[i] = emitted[i]
        /\ DOMAIN emitted = 1 .. Len(emitted)
    BY <2>1, <2>2, EmittedGrows
  <2>4. fed \subseteq fed' /\ UNCHANGED <<stored, free, device, durable>>
    BY <2>1 DEF EmitsBlock, syncVars
  <2>5. stored \subseteq fed
    BY DEF DeviceInv
  <2>6. \A id \in stored : emitted'[id + 1] = emitted[id + 1]
    BY <2>3, <2>5, <1>1, FedIsEmitted
  <2>7. QED
    BY <2>4, <2>6 DEF DeviceInv, Content
<1>3. ASSUME NEW id \in Blocks, DestinationWrites(id) PROVE DeviceInv'
  <2>1. /\ id \in fed /\ id \notin stored /\ stored' = stored \cup {id}
        /\ UNCHANGED <<fed, free, emitted, durable>>
    BY <1>3 DEF DestinationWrites, Written, TransferKeeps, syncVars
  <2>2. device' = [p \in Positions |-> IF p \in Span(emitted[id + 1]) THEN Content(id) ELSE device[p]]
    BY <1>3 DEF DestinationWrites, Content
  <2>3. /\ stored \subseteq fed /\ free \subseteq fed
        /\ device \in [Positions -> {"old", "data", "zero"}]
        /\ durable \in [Positions -> {"old", "data", "zero"}]
        /\ \A k \in stored : \A p \in Span(emitted[k + 1]) : device[p] = Content(k)
        /\ \A p \in Positions :
             (\A k \in stored : p \notin Span(emitted[k + 1])) => device[p] = "old"
    BY DEF DeviceInv
  <2>4. Content(id) \in {"old", "data", "zero"}
    BY DEF Content
  <2>5. device' \in [Positions -> {"old", "data", "zero"}]
    BY <2>2, <2>3, <2>4
  <2>6. \A k \in fed : Span(emitted[k + 1]) \subseteq Positions
    <3>1. SUFFICES ASSUME NEW k \in fed PROVE Span(emitted[k + 1]) \subseteq Positions
      OBVIOUS
    <3>2. k + 1 \in DOMAIN emitted /\ emitted[k + 1].off \in Nat /\ emitted[k + 1].len \in Nat
      BY <1>1, FedIsEmitted DEF ExtentType
    <3>3. End(emitted[k + 1]) <= ad.pos /\ ad.pos <= Size /\ ad.pos \in Nat /\ Size \in Nat
      BY Zenon, <3>2, <1>1, AdapterRecord DEF EmittedInv, AdapterInv
    <3>4. QED
      BY <3>2, <3>3 DEF End, Span, Positions
  <2>7. \A k \in stored : Span(emitted[k + 1]) \cap Span(emitted[id + 1]) = {}
    <3>1. SUFFICES ASSUME NEW k \in stored
                   PROVE  Span(emitted[k + 1]) \cap Span(emitted[id + 1]) = {}
      OBVIOUS
    <3>2. k \in Nat /\ id \in Nat /\ k # id /\ {k + 1, id + 1} \subseteq DOMAIN emitted
      BY <2>1, <2>3, <1>1, FedIsEmitted
    <3>3. k + 1 # id + 1
      BY <3>2
    <3>4. QED
      BY <3>2, <3>3, DisjointBlocks DEF BlocksDisjoint
  <2>8. \A k \in stored' : \A p \in Span(emitted'[k + 1]) : device'[p] = Content(k)'
    <3>1. SUFFICES ASSUME NEW k \in stored', NEW p \in Span(emitted[k + 1])
                   PROVE  device'[p] = Content(k)
      BY <2>1 DEF Content
    <3>2. p \in Positions
      BY <2>1, <2>3, <2>6
    <3>3. CASE k = id
      BY <3>2, <3>3, <2>2
    <3>4. CASE k \in stored
      BY <3>2, <3>4, <2>2, <2>3, <2>7
    <3>5. QED
      BY <3>3, <3>4, <2>1
  <2>9. \A p \in Positions :
          (\A k \in stored' : p \notin Span(emitted'[k + 1])) => device'[p] = "old"
    BY <2>1, <2>2, <2>3
  <2>10. stored' \subseteq fed' /\ free' \subseteq fed' /\ durable' \in [Positions -> {"old", "data", "zero"}]
    BY <2>1, <2>3
  <2>11. QED
    BY <2>5, <2>8, <2>9, <2>10 DEF DeviceInv
<1>4. CASE IdleDevice
  BY <1>4 DEF IdleDevice, DeviceInv, Content
<1>5. QED
  BY <1>1, <1>2, <1>3, <1>4, DeviceSplit

(* Where Sync stands and what Run has returned.                            *)
LEMMA OutcomeNext ==
  ASSUME DisjointInv, DeviceInv, OutcomeInv, [Next]_vars
  PROVE  OutcomeInv'
<1>1. AdapterInv
  BY DEF DisjointInv
<1>2. /\ main \in {"run", "acks", "commit", "signal", "close", "returned"}
      /\ outcome \in {"none", "ok", "err"}
      /\ outcome = "none" <=> main = "run"
      /\ main \in {"acks", "commit", "signal"} \/ signalled = TRUE => outcome = "ok"
      /\ outcome = "ok" => /\ ad.done = TRUE /\ ad.rem = NoExtent
                           /\ fed \subseteq stored
                           /\ durable = device
      /\ signalled \in BOOLEAN /\ cancelled \in BOOLEAN /\ faulted \in BOOLEAN
  BY DEF OutcomeInv
<1>3. ASSUME UNCHANGED <<outcome, main, signalled, cancelled, faulted>>,
             outcome = "none" \/ UNCHANGED <<ad, fed, stored, durable, device>>
      PROVE  OutcomeInv'
  BY <1>3, <1>2 DEF OutcomeInv
<1>4. CASE DiffStep \/ DiffFails
  BY <1>3, <1>4 DEF DiffStep, DiffReports, DiffEnds, DiffFails, DiffKeeps, transferVars, syncVars
<1>5. CASE AdapterStep
  <2>1. outcome = "none" /\ UNCHANGED <<outcome, main, signalled, cancelled, faulted>>
    BY Zenon, <1>1, <1>5, PendingStep, ExtentStep, EndStep, EmitStep
       DEF AdapterStep, EmitsBlock, transferVars, syncVars
  <2>2. QED
    BY <2>1, <1>3
<1>6. CASE SyncStep
  BY Zenon, <1>2, <1>6 DEF SyncStep, AcksSeen, AcksCancelled, CommitSent, SignalDone, CloseDrains,
                    SyncReturns, SyncKeeps, transferVars, syncVars, OutcomeInv
<1>7. ASSUME NEW id \in Blocks, TransferStep(id) \/ BlockAbandoned(id) PROVE OutcomeInv'
  <2>1. CASE DestinationWrites(id)
    <3>1. id \in fed /\ id \notin stored /\ UNCHANGED <<outcome, main, signalled, cancelled, faulted, ad, fed, durable>>
      BY <2>1 DEF DestinationWrites, Written, TransferKeeps, syncVars
    <3>2. outcome # "ok"
      BY <3>1, <1>2
    <3>3. QED
      BY <3>1, <3>2, <1>2 DEF OutcomeInv
  <2>2. CASE BlockAcked(id) \/ BlockAbandoned(id)
    BY <2>2, <1>3 DEF BlockAcked, BlockAbandoned, Acked, Abandoned, TransferKeeps, syncVars
  <2>3. QED
    BY <1>7, <2>1, <2>2 DEF TransferStep
<1>8. ASSUME NEW o \in {"ok", "err"}, RunReturns(o) PROVE OutcomeInv'
  <2>1. /\ main = "run" /\ outcome = "none" /\ outcome' = o
        /\ o = "ok" => ad.done = TRUE /\ ad.rem = NoExtent /\ durable = device /\ fed \subseteq stored
        /\ main' = IF o = "err" THEN "close" ELSE IF reqID = 0 THEN "signal" ELSE "acks"
        /\ UNCHANGED <<ad, fed, stored, device, durable, signalled, cancelled, faulted>>
    BY <1>1, <1>8, AdapterRecord DEF RunReturns, Return
  <2>2. QED
    BY <2>1, <1>2 DEF OutcomeInv
<1>9. CASE WriteEnds
  BY <1>2, <1>9 DEF WriteEnds, transferVars, OutcomeInv
<1>10. CASE PipelineFault
  BY <1>2, <1>10 DEF PipelineFault, Fault, TransferKeeps, syncVars, OutcomeInv
<1>11. CASE CommitFails \/ Cancel
  BY Zenon, <1>2, <1>11 DEF CommitFails, Cancel, SyncKeeps, transferVars, OutcomeInv
<1>12. CASE Finished \/ UNCHANGED vars
  BY <1>3, <1>12 DEF Finished, vars, transferVars, syncVars
<1>13. QED
  BY <1>4, <1>5, <1>6, <1>7, <1>8, <1>9, <1>10, <1>11, <1>12 DEF Next

-----------------------------------------------------------------------------
(* What was reported is sent                                               *)

LEMMA NothingInHand ==
  ASSUME ad.rem = NoExtent, ad.pend = NoExtent
  PROVE  \A p, z : ~InHand(p, z)
<1>1. Span(NoExtent) = {}
  BY DEF Span, NoExtent, Extent
<1>2. QED
  BY <1>1 DEF InHand

(* What is sent lies behind the position.                                  *)
LEMMA SentIsBehind ==
  ASSUME DisjointInv, NEW p, NEW z, Sent(p, z)
  PROVE  p \in Positions /\ p < ad.pos
<1>1. AdapterInv /\ EmittedInv
  BY DEF DisjointInv
<1>2. PICK k \in DOMAIN emitted : p \in Span(emitted[k])
  BY DEF Sent
<1>3. emitted[k] \in ExtentType /\ End(emitted[k]) <= ad.pos
  BY <1>1 DEF EmittedInv
<1>4. ad.pos \in Nat /\ Size \in Nat /\ ad.pos <= Size
  BY Zenon, <1>1, AdapterRecord DEF AdapterInv
<1>5. emitted[k].off \in Nat /\ emitted[k].len \in Nat
  BY <1>3 DEF ExtentType
<1>6. QED
  BY <1>2, <1>3, <1>4, <1>5 DEF End, Span, Positions

(* The span of an extent that librbd reports, in numbers.                  *)
LEMMA DiffSpan ==
  ASSUME AdapterInv, NEW i \in 1 .. Len(diff)
  PROVE  /\ diff[i].off \in Nat /\ diff[i].len \in Nat /\ diff[i].len >= 1
         /\ \A p : p \in Span(diff[i]) <=> p \in Int /\ diff[i].off <= p /\ p < End(diff[i])
         /\ Span(diff[i]) \subseteq Positions /\ Span(diff[i]) \subseteq Covered
<1>1. diff[i] \in Reported /\ End(diff[i]) <= Size /\ DOMAIN diff = 1 .. Len(diff) /\ Size \in Nat
  BY DiffExtent, AdapterRecord
<1>2. diff[i].off \in Nat /\ diff[i].len \in Nat /\ diff[i].len >= 1
  BY <1>1 DEF Reported, Positions
<1>3. \A p : p \in Span(diff[i]) <=> p \in Int /\ diff[i].off <= p /\ p < End(diff[i])
  BY <1>2 DEF Span, End
<1>4. Span(diff[i]) \subseteq Positions
  BY <1>1, <1>2 DEF Span, End, Positions
<1>5. Span(diff[i]) \subseteq Covered
  BY <1>1 DEF Covered
<1>6. QED
  BY <1>2, <1>3, <1>4, <1>5

(* Steps that leave the adapter and the list of blocks alone.              *)
LEMMA FlowKept ==
  ASSUME FlowInv, UNCHANGED <<full, diff, ad, emitted>>, taken' = taken
  PROVE  FlowInv'
<1>1. \A p, z : (Sent(p, z)' <=> Sent(p, z)) /\ (InHand(p, z)' <=> InHand(p, z))
  BY Zenon DEF Sent, InHand
<1>2. Covered' = Covered
  BY DEF Covered
<1>3. CoverInv'
  BY Zenon, <1>1, <1>2 DEF FlowInv, CoverInv
<1>4. BehindInv'
  BY Zenon, <1>1 DEF FlowInv, BehindInv
<1>5. FillInv'
  BY Zenon, <1>1 DEF FlowInv, FillInv
<1>6. QED
  BY <1>3, <1>4, <1>5 DEF FlowInv

LEMMA PendingFlow ==
  ASSUME AdapterInv, FlowInv, LoadPending
  PROVE  FlowInv'
<1>1. /\ ad.done = FALSE /\ ad.rem = NoExtent /\ ad.pend # NoExtent
      /\ ad'.pos = ad.pos /\ ad'.rem = ad.pend /\ ad'.pend = NoExtent /\ ad'.done = FALSE
      /\ UNCHANGED <<full, diff, reported, blocksChan, emitted>>
  BY Zenon, PendingStep DEF diffVars
<1>2. taken' = taken /\ Covered' = Covered
  BY Zenon, <1>1 DEF taken, Covered
<1>3. \A p, z : Sent(p, z)' <=> Sent(p, z)
  BY <1>1 DEF Sent
<1>4. \A p, z : InHand(p, z)' <=> InHand(p, z)
  <2>1. Span(NoExtent) = {}
    BY DEF Span, NoExtent, Extent
  <2>2. QED
    BY <2>1, <1>1 DEF InHand
<1>5. CoverInv'
  BY Zenon, <1>1, <1>2, <1>3, <1>4 DEF FlowInv, CoverInv
<1>6. ad.pend.zero = FALSE
  BY <1>1 DEF AdapterInv
<1>7. BehindInv'
  BY Zenon, <1>1, <1>2, <1>3, <1>6 DEF FlowInv, BehindInv
<1>8. FillInv'
  BY Zenon, <1>1, <1>3, <1>4 DEF FlowInv, FillInv
<1>9. QED
  BY <1>5, <1>7, <1>8 DEF FlowInv

(* The extent at the head of the channel is the next one of the diff: what *)
(* it has behind the position is sent, and it starts no earlier than those *)
(* before and no later than those after it.                                *)
LEMMA HeadOfDiff ==
  ASSUME DisjointInv, ChannelInv, FlowInv, LoadExtent
  PROVE  LET e == Head(blocksChan) IN
         /\ taken \in Nat /\ taken' = taken + 1 /\ taken + 1 \in 1 .. Len(diff)
         /\ e = diff[taken + 1]
         /\ e.off \in Nat /\ e.len \in Nat /\ e.len >= 1
         /\ \A p \in Positions : e.off <= p /\ p < ad.pos => Sent(p, FALSE)
         /\ \A i \in taken + 1 .. Len(diff) : e.off <= diff[i].off
<1> DEFINE e == Head(blocksChan)
<1>1. AdapterInv
  BY DEF DisjointInv
<1>2. /\ ad.done = FALSE /\ ad.rem = NoExtent /\ ad.pend = NoExtent
      /\ blocksChan # <<>> /\ blocksChan' = Tail(blocksChan) /\ reported' = reported
  BY Zenon, <1>1, ExtentStep
<1>3. /\ e = blocksChan[1] /\ 1 \in DOMAIN blocksChan /\ Len(blocksChan) \in Nat \ {0}
      /\ Len(blocksChan') = Len(blocksChan) - 1
  BY <1>1, <1>2, HeadStep
<1>4. taken \in Nat /\ e = diff[taken + 1]
  BY <1>3 DEF ChannelInv
<1>5. reported \in 0 .. Len(diff) /\ Len(diff) \in Nat
  BY <1>1, RBDAssumption DEF AdapterInv
<1>6. taken' = taken + 1 /\ taken + 1 \in 1 .. Len(diff)
  BY <1>2, <1>3, <1>4, <1>5 DEF taken
<1> HIDE DEF e
<1>7. e.off \in Nat /\ e.len \in Nat /\ e.len >= 1
  BY <1>1, <1>4, <1>6, DiffSpan
<1>8. diff \in Diffs /\ DOMAIN diff = 1 .. Len(diff)
  BY <1>1, <1>6, DiffExtent DEF AdapterInv
<1>9. \A i \in taken + 1 .. Len(diff) : e.off <= diff[i].off
  <2>1. SUFFICES ASSUME NEW i \in taken + 1 .. Len(diff) PROVE e.off <= diff[i].off
    OBVIOUS
  <2>2. i \in DOMAIN diff /\ taken + 1 \in DOMAIN diff /\ (i = taken + 1 \/ taken + 1 < i)
    BY <1>4, <1>5, <1>6, <1>8
  <2>3. taken + 1 < i => e.off <= diff[i].off
    BY <2>2, <1>4, <1>8, DiffOrderAssumption
  <2>4. i = taken + 1 => e.off <= diff[i].off
    BY <1>4, <1>7
  <2>5. QED
    BY <2>2, <2>3, <2>4
<1>10. \A p \in Positions : e.off <= p /\ p < ad.pos => Sent(p, FALSE)
  <2>1. SUFFICES ASSUME NEW p \in Positions, e.off <= p, p < ad.pos PROVE Sent(p, FALSE)
    BY Zenon
  <2>2. ad.pos \in Nat /\ Size \in Nat /\ p \in Nat
    BY <1>1, AdapterRecord DEF Positions
  <2>3. CASE taken = 0
    <3>1. ad.pos = 0
      BY <2>3, <1>2 DEF FlowInv, BehindInv
    <3>2. QED
      BY <3>1, <2>1, <2>2
  <2>4. CASE taken > 0
    <3>1. taken \in 1 .. Len(diff) /\ taken < taken + 1
      BY <2>4, <1>4, <1>5, <1>6
    <3>2. diff[taken].off <= e.off
      BY <3>1, <1>4, <1>6, <1>8, DiffOrderAssumption
    <3>3. diff[taken].off \in Nat
      BY <3>1, <1>1, DiffSpan
    <3>4. diff[taken].off <= p
      BY <3>2, <3>3, <2>1, <2>2, <1>7
    <3>5. QED
      BY Zenon, <3>4, <2>1, <2>4, <1>2 DEF FlowInv, BehindInv
  <2>5. taken = 0 \/ taken > 0
    BY <1>4
  <2>6. QED
    BY Zenon, <2>3, <2>4, <2>5
<1>11. QED
  BY Zenon, <1>4, <1>6, <1>7, <1>9, <1>10 DEF e

(* With nothing in hand, what was taken is behind the position.            *)
LEMMA TakenIsBehind ==
  ASSUME DisjointInv, FlowInv, ad.rem = NoExtent, ad.pend = NoExtent,
         NEW i \in 1 .. taken, NEW p \in Span(diff[i])
  PROVE  Sent(p, FALSE) /\ p < ad.pos
<1>1. Sent(p, FALSE)
  BY Zenon, NothingInHand DEF FlowInv, CoverInv
<1>2. QED
  BY Zenon, <1>1, SentIsBehind

(* A gap that is filled holds nothing that is reported.                    *)
LEMMA GapIsFree ==
  ASSUME DisjointInv, FlowInv, ad.rem = NoExtent, ad.pend = NoExtent, taken \in Nat,
         NEW p \in Positions, ad.pos <= p,
         \A i \in taken + 1 .. Len(diff) : p < diff[i].off
  PROVE  p \notin Covered
<1>1. AdapterInv
  BY DEF DisjointInv
<1>2. SUFFICES ASSUME p \in Covered PROVE FALSE
  OBVIOUS
<1>3. PICK i \in DOMAIN diff : p \in Span(diff[i])
  BY <1>2 DEF Covered
<1>4. Len(diff) \in Nat /\ i \in 1 .. Len(diff)
  BY <1>1, RBDAssumption DEF AdapterInv
<1>5. ad.pos \in Nat /\ p \in Int
  BY <1>1, AdapterRecord DEF Positions
<1>6. CASE i \in 1 .. taken
  <2>1. p < ad.pos
    BY Zenon, <1>3, <1>6, TakenIsBehind
  <2>2. QED
    BY <2>1, <1>5
<1>7. CASE i \in taken + 1 .. Len(diff)
  <2>1. diff[i].off <= p /\ diff[i].off \in Nat
    BY <1>1, <1>3, <1>4, DiffSpan
  <2>2. QED
    BY <2>1, <1>5, <1>7
<1>8. QED
  BY <1>4, <1>6, <1>7

LEMMA ExtentFlow ==
  ASSUME DisjointInv, ChannelInv, FlowInv, LoadExtent
  PROVE  FlowInv'
<1> DEFINE e == Head(blocksChan)
<1>1. AdapterInv
  BY DEF DisjointInv
<1>2. /\ ad.done = FALSE /\ ad.rem = NoExtent /\ ad.pend = NoExtent
      /\ ad'.pos = ad.pos /\ ad'.done = FALSE
      /\ TakesGap(e) \/ TakesNothing(e) \/ TakesRest(e)
      /\ UNCHANGED <<full, diff, emitted>>
  BY Zenon, <1>1, ExtentStep
<1>3. /\ taken \in Nat /\ taken' = taken + 1 /\ taken + 1 \in 1 .. Len(diff)
      /\ e = diff[taken + 1]
      /\ e.off \in Nat /\ e.len \in Nat /\ e.len >= 1
      /\ \A p \in Positions : e.off <= p /\ p < ad.pos => Sent(p, FALSE)
      /\ \A i \in taken + 1 .. Len(diff) : e.off <= diff[i].off
  BY Zenon, HeadOfDiff
<1>4. e \in Reported /\ ad.pos \in Nat /\ Size \in Nat
  BY Zenon, <1>1, <1>3, DiffExtent, AdapterRecord
<1>5. taken \in Nat /\ taken + 1 \in 1 .. Len(diff) /\ e = diff[taken + 1] /\ taken' = taken + 1
      /\ e.off \in Nat /\ e.len \in Nat /\ e.len >= 1 /\ ad.pos \in Nat
  BY Zenon, <1>3, <1>4
<1> HIDE DEF e
<1>6. \A p, z : Sent(p, z)' <=> Sent(p, z)
  BY <1>2 DEF Sent
<1>7. \A p, z : ~InHand(p, z)
  BY <1>2, NothingInHand
<1>8. Covered' = Covered
  BY <1>2 DEF Covered
<1>9. /\ \A p : p \in Span(e) <=> p \in Int /\ e.off <= p /\ p < End(e)
      /\ Span(e) \subseteq Positions /\ Span(e) \subseteq Covered
  BY <1>1, <1>5, DiffSpan
(* What the step leaves in hand: the part of e that is ahead, as data, and *)
(* in a full diff the gap before it, as zeros.                             *)
<1>10. /\ \A p \in Span(e) : Sent(p, FALSE) \/ InHand(p, FALSE)'
       /\ \A p : InHand(p, FALSE)' => p \in Span(e)
       /\ \A p : InHand(p, TRUE)' => full /\ p \in Int /\ ad.pos <= p /\ p < e.off
       /\ (ad'.rem # NoExtent /\ ad'.rem.zero = FALSE) => ad'.rem.off \in {ad.pos, e.off}
       /\ ad'.pend # NoExtent => ad'.pend.off = e.off
       /\ (ad'.rem # NoExtent /\ ad'.rem.zero = TRUE) => ad'.pend # NoExtent
       /\ (full /\ ad'.rem # NoExtent) => ad'.rem.off = ad.pos
       /\ ad'.pend # NoExtent => ad'.rem # NoExtent /\ ad'.pend.off = End(ad'.rem)
  <2>1. CASE TakesGap(e)
    <3>1. /\ full /\ e.off > ad.pos
          /\ ad'.rem.off = ad.pos /\ ad'.rem.len = e.off - ad.pos /\ ad'.rem.zero = TRUE
          /\ ad'.pend.off = e.off /\ ad'.pend.len = e.len /\ ad'.pend.zero = FALSE
      BY <2>1 DEF TakesGap, Extent
    <3>2. ad'.rem # NoExtent /\ ad'.pend # NoExtent
      BY <3>1, <1>3, <1>4, NoExtentIsEmpty
    <3>3. Span(ad'.pend) = Span(e) /\ End(ad'.rem) = e.off
      BY <3>1, <1>5 DEF Span, End
    <3>4. \A p : p \in Span(ad'.rem) => p \in Int /\ ad.pos <= p /\ p < e.off
      BY <3>1, <1>5 DEF Span
    <3>5. QED
      BY Zenon, <3>1, <3>2, <3>3, <3>4 DEF InHand
  <2>2. CASE TakesNothing(e)
    <3>1. ad'.rem = NoExtent /\ ad'.pend = NoExtent /\ Clamped(e, ad.pos).len <= 0
      BY <2>2 DEF TakesNothing
    <3>2. \A p, z : ~InHand(p, z)'
      <4>1. Span(NoExtent) = {}
        BY DEF Span, NoExtent, Extent
      <4>2. QED
        BY <3>1, <4>1 DEF InHand
    <3>3. e.off + e.len <= ad.pos
      BY <3>1, <1>3, <1>4 DEF Clamped, Extent
    <3>4. \A p \in Span(e) : Sent(p, FALSE)
      <4>1. SUFFICES ASSUME NEW p \in Span(e) PROVE Sent(p, FALSE)
        BY Zenon
      <4>2. p \in Positions /\ p \in Int /\ e.off <= p /\ p < e.off + e.len
        BY <1>9 DEF End
      <4>3. p < ad.pos
        BY <4>2, <3>3, <1>5
      <4>4. QED
        BY Zenon, <4>2, <4>3, <1>3
    <3>5. QED
      BY Zenon, <3>1, <3>2, <3>4
  <2>3. CASE TakesRest(e)
    <3>1. /\ ad'.rem = Clamped(e, ad.pos) /\ ad'.pend = NoExtent
          /\ ~(full /\ e.off > ad.pos)
      BY <2>3 DEF TakesRest
    <3>2. /\ ad.pos <= ad'.rem.off /\ ad'.rem.off \in {ad.pos, e.off} /\ ad'.rem.off \in Nat
          /\ e.off <= ad'.rem.off /\ ad'.rem.zero = FALSE /\ End(ad'.rem) = End(e)
          /\ ad'.rem.len \in Int
      BY ZenonT(30), <3>1, <1>4, ClampedIsAhead
    <3>3. full => ad'.rem.off = ad.pos
      BY <3>1, <3>2, <1>3, <1>4
    <3>4. \A p : p \in Span(ad'.rem) <=> p \in Int /\ ad'.rem.off <= p /\ p < End(e)
      BY <3>2 DEF Span, End
    <3>5. \A p : InHand(p, FALSE)' <=> p \in Span(ad'.rem)
      <4>1. Span(NoExtent) = {}
        BY DEF Span, NoExtent, Extent
      <4>2. QED
        BY Zenon, <3>1, <3>2, <4>1 DEF InHand
    <3>6. \A p : ~InHand(p, TRUE)'
      BY <3>1, <3>2, NoExtentIsEmpty DEF InHand
    <3>7. \A p \in Span(e) : Sent(p, FALSE) \/ InHand(p, FALSE)'
      <4>1. SUFFICES ASSUME NEW p \in Span(e) PROVE Sent(p, FALSE) \/ p \in Span(ad'.rem)
        BY Zenon, <3>5
      <4>2. p \in Positions /\ p \in Int /\ e.off <= p /\ p < End(e)
        BY <1>9
      <4>3. CASE p < ad.pos
        BY Zenon, <4>2, <4>3, <1>3
      <4>4. CASE ~(p < ad.pos)
        <5>1. ad'.rem.off <= p
          BY <4>2, <4>4, <3>2, <1>3, <1>4
        <5>2. QED
          BY Zenon, <5>1, <4>2, <3>4
      <4>5. QED
        BY Zenon, <4>3, <4>4
    <3>8. \A p : InHand(p, FALSE)' => p \in Span(e)
      <4>1. SUFFICES ASSUME NEW p, p \in Span(ad'.rem) PROVE p \in Span(e)
        BY Zenon, <3>5
      <4>2. p \in Int /\ ad'.rem.off <= p /\ p < End(e)
        BY <4>1, <3>4
      <4>3. e.off <= p
        BY <4>2, <3>2, <1>3
      <4>4. QED
        BY <4>2, <4>3, <1>9
    <3>9. QED
      BY Zenon, <3>1, <3>2, <3>3, <3>6, <3>7, <3>8
  <2>4. QED
    BY ZenonT(30), <1>2, <2>1, <2>2, <2>3
<1>11. \A i \in 1 .. taken' : \A p \in Span(diff[i]) : Sent(p, FALSE) \/ InHand(p, FALSE)'
  <2>1. SUFFICES ASSUME NEW i \in 1 .. taken + 1, NEW p \in Span(diff[i])
                 PROVE  Sent(p, FALSE) \/ InHand(p, FALSE)'
    BY Zenon, <1>3
  <2>2. CASE i = taken + 1
    BY Zenon, <2>2, <1>3, <1>10
  <2>3. CASE i \in 1 .. taken
    BY Zenon, <2>3, <1>2, TakenIsBehind
  <2>4. taken \in Nat
    BY <1>3
  <2>5. i = taken + 1 \/ i \in 1 .. taken
    BY <2>4
  <2>6. QED
    BY Zenon, <2>2, <2>3, <2>5
<1>12. \A p \in Positions : InHand(p, TRUE)' => p \notin Covered
  <2>1. SUFFICES ASSUME NEW p \in Positions, InHand(p, TRUE)' PROVE p \notin Covered
    BY Zenon
  <2>2. p \in Int /\ ad.pos <= p /\ p < e.off
    BY Zenon, <2>1, <1>10
  <2>3. \A i \in taken + 1 .. Len(diff) : p < diff[i].off
    <3>1. SUFFICES ASSUME NEW i \in taken + 1 .. Len(diff) PROVE p < diff[i].off
      OBVIOUS
    <3>2. Len(diff) \in Nat
      BY <1>1, RBDAssumption DEF AdapterInv
    <3>3. diff[i].off \in Nat
      BY <3>2, <1>1, <1>3, DiffSpan
    <3>4. e.off <= diff[i].off
      BY Zenon, <1>3
    <3>5. QED
      BY <3>3, <3>4, <2>2, <1>3
  <2>4. QED
    BY <2>2, <2>3, <1>2, <1>3, GapIsFree
<1>13. CoverInv'
  <2>1. \A p \in Positions : Sent(p, FALSE) => p \in Covered
    BY Zenon DEF FlowInv, CoverInv
  <2>2. \A p \in Positions : Sent(p, TRUE) => p \notin Covered
    BY ZenonT(30) DEF FlowInv, CoverInv
  <2>3. QED
    BY Zenon, <2>1, <2>2, <1>2, <1>6, <1>8, <1>9, <1>10, <1>11, <1>12 DEF CoverInv
<1>14. BehindInv'
  <2>1. taken' \in Nat /\ taken' # 0 /\ diff'[taken'] = e
    BY <1>2, <1>5
  <2>2. \A p \in Positions : e.off <= p /\ p < ad'.pos => Sent(p, FALSE)'
    BY ZenonT(30), <1>2, <1>3, <1>6
  <2>3. QED
    BY Zenon, <2>1, <2>2, <1>2, <1>10 DEF BehindInv
<1>15. FillInv'
  BY Zenon, <1>2, <1>6, <1>10 DEF FlowInv, FillInv
<1>16. QED
  BY <1>13, <1>14, <1>15 DEF FlowInv

(* At the end of a diff that did not fail, every extent was taken.         *)
LEMMA AllTaken ==
  ASSUME AdapterInv, ChannelInv, blocksChan = <<>>, diffState = "ended"
  PROVE  taken = Len(diff) /\ taken \in Nat
<1>1. reported = Len(diff) /\ taken \in Nat
  BY DEF ChannelInv
<1>2. Len(blocksChan) = 0 /\ Len(diff) \in Nat
  BY RBDAssumption DEF AdapterInv
<1>3. QED
  BY <1>1, <1>2 DEF taken

LEMMA EndFlow ==
  ASSUME DisjointInv, ChannelInv, FlowInv, LoadEnd, diffState # "failed"
  PROVE  FlowInv'
<1>1. AdapterInv
  BY DEF DisjointInv
<1>2. /\ ad.rem = NoExtent /\ ad.pend = NoExtent /\ blocksChan = <<>> /\ diffState # "running"
      /\ ad'.pos = ad.pos /\ ad'.pend = NoExtent /\ ad'.done = TRUE
      /\ IF full /\ ad.pos < Size THEN ad'.rem = Extent(ad.pos, Size - ad.pos, TRUE)
                                 ELSE ad'.rem = NoExtent
      /\ UNCHANGED <<full, diff, reported, blocksChan, emitted>>
  BY Zenon, <1>1, EndStep DEF diffVars
<1>3. taken = Len(diff) /\ taken \in Nat
  BY <1>1, <1>2, AllTaken DEF AdapterInv
<1>4. taken' = taken /\ Covered' = Covered
  BY <1>2 DEF taken, Covered
<1>5. \A p, z : Sent(p, z)' <=> Sent(p, z)
  BY <1>2 DEF Sent
<1>6. ad.pos \in Nat /\ Size \in Nat /\ ad.pos <= Size
  BY Zenon, <1>1, AdapterRecord DEF AdapterInv
<1>7. /\ \A p : ~InHand(p, FALSE)'
      /\ \A p : InHand(p, TRUE)' => full /\ p \in Int /\ ad.pos <= p
      /\ ad'.rem # NoExtent => ad'.rem.off = ad.pos /\ End(ad'.rem) = Size
      /\ (full /\ ad'.rem = NoExtent) => ad.pos = Size
  <2>1. Span(NoExtent) = {}
    BY DEF Span, NoExtent, Extent
  <2>2. CASE full /\ ad.pos < Size
    <3>1. ad'.rem.off = ad.pos /\ ad'.rem.len = Size - ad.pos /\ ad'.rem.zero = TRUE
      BY <2>2, <1>2 DEF Extent
    <3>2. ad'.rem # NoExtent
      BY <3>1, NoExtentIsEmpty
    <3>3. End(ad'.rem) = Size
      BY <3>1, <1>6 DEF End
    <3>4. \A p \in Span(ad'.rem) : p \in Int /\ ad.pos <= p
      BY <3>1, <1>6 DEF Span
    <3>5. QED
      BY Zenon, <2>1, <2>2, <3>1, <3>2, <3>3, <3>4, <1>2 DEF InHand
  <2>3. CASE ~(full /\ ad.pos < Size)
    <3>1. ad'.rem = NoExtent
      BY Zenon, <2>3, <1>2
    <3>2. full => ad.pos = Size
      BY <2>3, <1>6
    <3>3. QED
      BY <2>1, <3>1, <3>2, <1>2 DEF InHand
  <2>4. QED
    BY Zenon, <2>2, <2>3
<1>8. \A p \in Positions : InHand(p, TRUE)' => p \notin Covered
  <2>1. \A i \in taken + 1 .. Len(diff) : FALSE
    BY <1>3
  <2>2. QED
    BY Zenon, <2>1, <1>2, <1>3, <1>7, GapIsFree
<1>9. \A i \in 1 .. taken : \A p \in Span(diff[i]) : Sent(p, FALSE)
  BY Zenon, <1>2, TakenIsBehind
<1>10. CoverInv'
  <2>1. \A p \in Positions : Sent(p, FALSE) => p \in Covered
    BY Zenon DEF FlowInv, CoverInv
  <2>2. \A p \in Positions : Sent(p, TRUE) => p \notin Covered
    BY Zenon DEF FlowInv, CoverInv
  <2>3. QED
    BY Zenon, <2>1, <2>2, <1>2, <1>4, <1>5, <1>7, <1>8, <1>9 DEF CoverInv
<1>11. BehindInv'
  BY <1>2 DEF BehindInv
<1>12. FillInv'
  BY Zenon, <1>2, <1>5, <1>7 DEF FlowInv, FillInv
<1>13. QED
  BY <1>10, <1>11, <1>12 DEF FlowInv

LEMMA EmitFlow ==
  ASSUME DisjointInv, ChannelInv, FlowInv, EmitFromRemainder
  PROVE  FlowInv'
<1>1. AdapterInv
  BY DEF DisjointInv
<1>2. PICK n \in Nat : EmitsBlock(n)
  BY <1>1, EmitStep
<1>3. ad.rem # NoExtent
  BY <1>1, EmitStep
<1> DEFINE last == Len(emitted) + 1
           block == ad.rem.off .. ad.rem.off + n - 1
<1>4. /\ last \in Nat /\ DOMAIN emitted = 1 .. Len(emitted) /\ DOMAIN emitted' = 1 .. last
      /\ \A i \in 1 .. Len(emitted) : emitted'[i] = emitted[i]
      /\ emitted'[last].off = ad.rem.off /\ emitted'[last].len = n
      /\ emitted'[last].zero = ad.rem.zero
      /\ ad.rem.off \in Nat /\ ad.rem.len \in Nat /\ ad.pos <= ad.rem.off /\ n >= 1
      /\ ad'.pos = ad.rem.off + n
  BY Zenon, <1>2, <1>3, EmittedGrows
<1>5. /\ n <= ad.rem.len /\ ad'.pend = ad.pend /\ ad'.done = ad.done
      /\ \/ ad.rem.len = n /\ ad'.rem = NoExtent
         \/ ad.rem.len > n /\ ad'.rem = Extent(ad.rem.off + n, ad.rem.len - n, ad.rem.zero)
      /\ UNCHANGED <<full, diff, reported, blocksChan>>
  BY <1>2 DEF EmitsBlock, diffVars
<1>6. ad.pos \in Nat /\ ad.rem.zero \in BOOLEAN /\ ad.pend.off \in Nat
  BY Zenon, <1>1, AdapterRecord
<1>7. /\ ad.rem.off \in Nat /\ ad.rem.len \in Nat /\ n >= 1 /\ n <= ad.rem.len
      /\ ad'.pos = ad.rem.off + n /\ ad.pos <= ad.rem.off
  BY Zenon, <1>4, <1>5
<1>8. UNCHANGED <<full, diff, reported, blocksChan>> /\ ad'.pend = ad.pend /\ ad'.done = ad.done
  BY Zenon, <1>5
<1>9. taken' = taken /\ Covered' = Covered
  BY Zenon, <1>8 DEF taken, Covered
<1>10. \A p, z : Sent(p, z)' <=> (Sent(p, z) \/ (p \in block /\ ad.rem.zero = z))
  <2>1. Span(emitted'[last]) = block
    BY <1>4 DEF Span
  <2>2. SUFFICES ASSUME NEW p, NEW z
                 PROVE  Sent(p, z)' <=> (Sent(p, z) \/ (p \in block /\ ad.rem.zero = z))
    OBVIOUS
  <2>3. Sent(p, z)' <=> \E k \in 1 .. last : p \in Span(emitted'[k]) /\ emitted'[k].zero = z
    BY Zenon, <1>4 DEF Sent
  <2>4. \A k \in 1 .. last : k = last \/ k \in 1 .. Len(emitted)
    BY <1>4
  <2>5. last \in 1 .. last /\ 1 .. Len(emitted) \subseteq 1 .. last
    BY <1>4
  <2>6. Sent(p, z) <=> \E k \in 1 .. Len(emitted) : p \in Span(emitted[k]) /\ emitted[k].zero = z
    BY Zenon, <1>4 DEF Sent
  <2> HIDE DEF last, block
  <2>7. QED
    BY Zenon, <2>1, <2>3, <2>4, <2>5, <2>6, <1>4
<1>11. /\ \A p, z : InHand(p, z) => (p \in block /\ ad.rem.zero = z) \/ InHand(p, z)'
       /\ \A p, z : InHand(p, z)' => InHand(p, z)
       /\ \A p, z : (p \in block /\ ad.rem.zero = z) => InHand(p, z)
       /\ ad'.rem # NoExtent => /\ ad'.rem.off = ad'.pos /\ End(ad'.rem) = End(ad.rem)
                                /\ ad'.rem.zero = ad.rem.zero
       /\ ad'.rem = NoExtent => ad'.pos = End(ad.rem)
  <2>1. block \subseteq Span(ad.rem)
    BY <1>7 DEF Span
  <2>2. CASE ad.rem.len = n /\ ad'.rem = NoExtent
    <3>1. Span(NoExtent) = {}
      BY DEF Span, NoExtent, Extent
    <3>2. Span(ad.rem) = block /\ ad'.pos = End(ad.rem)
      BY <2>2, <1>7 DEF Span, End
    <3> HIDE DEF block
    <3>3. QED
      BY <3>1, <3>2, <2>2, <1>5 DEF InHand
  <2>3. CASE ad.rem.len > n /\ ad'.rem = Extent(ad.rem.off + n, ad.rem.len - n, ad.rem.zero)
    <3>1. ad'.rem.off = ad.rem.off + n /\ ad'.rem.len = ad.rem.len - n /\ ad'.rem.zero = ad.rem.zero
      <4> HIDE DEF block
      <4>1. QED
        BY <2>3 DEF Extent
    <3>2. End(ad'.rem) = End(ad.rem) /\ ad'.rem # NoExtent
      <4>1. ad.rem.off \in Nat /\ ad.rem.len \in Nat /\ ad.rem.len > n
        BY <2>3, <1>4
      <4>2. ad'.rem.len # 0
        BY <3>1, <4>1
      <4>3. End(ad'.rem) = (ad.rem.off + n) + (ad.rem.len - n)
        BY <3>1 DEF End
      <4>4. End(ad'.rem) = End(ad.rem)
        BY <4>1, <4>3 DEF End
      <4>5. QED
        BY Zenon, <4>2, <4>4, NoExtentIsEmpty
    <3>3. Span(ad.rem) = block \cup Span(ad'.rem)
      <4>1. Span(ad.rem) = ad.rem.off .. ad.rem.off + ad.rem.len - 1
        BY DEF Span
      <4>2. Span(ad'.rem) = (ad.rem.off + n) .. (ad.rem.off + n) + (ad.rem.len - n) - 1
        BY <3>1 DEF Span
      <4>3. \A p \in Int : p \in Span(ad.rem) <=> ad.rem.off <= p /\ p < ad.rem.off + ad.rem.len
        BY <4>1, <1>7
      <4>4. \A p \in Int : p \in Span(ad'.rem) <=> ad.rem.off + n <= p /\ p < ad.rem.off + ad.rem.len
        <5>1. ad.rem.off \in Nat /\ ad.rem.len \in Nat
          BY <1>7
        <5>2. (ad.rem.off + n) + (ad.rem.len - n) - 1 = ad.rem.off + ad.rem.len - 1
          BY <5>1
        <5>3. Span(ad'.rem) = (ad.rem.off + n) .. (ad.rem.off + ad.rem.len - 1)
          BY <5>2, <4>2
        <5>4. QED
          BY <5>1, <5>3
      <4>5. \A p \in Int : p \in block <=> ad.rem.off <= p /\ p < ad.rem.off + n
        BY <1>7
      <4>6. Span(ad.rem) \subseteq Int /\ Span(ad'.rem) \subseteq Int /\ block \subseteq Int
        BY <4>1, <4>2, <1>7
      <4> HIDE DEF block
      <4>7. \A p \in Int : p \in Span(ad.rem) <=> p \in block \/ p \in Span(ad'.rem)
        BY <4>3, <4>4, <4>5, <2>3, <1>7
      <4>8. QED
        BY Zenon, <4>6, <4>7
    <3> HIDE DEF block
    <3>4. QED
      BY Zenon, <3>1, <3>2, <3>3, <1>7, <1>8 DEF InHand
  <2>4. QED
    BY Zenon, <1>5, <2>2, <2>3
<1>12. CoverInv'
  <2> HIDE DEF block
  <2>1. /\ \A i \in 1 .. taken : \A p \in Span(diff[i]) : Sent(p, FALSE) \/ InHand(p, FALSE)
        /\ \A p \in Positions : Sent(p, FALSE) \/ InHand(p, FALSE) => p \in Covered
        /\ \A p \in Positions : Sent(p, TRUE) \/ InHand(p, TRUE) => p \notin Covered
    BY ZenonT(30) DEF FlowInv, CoverInv
  <2>2. \A p, z : Sent(p, z) \/ InHand(p, z) => Sent(p, z)' \/ InHand(p, z)'
    BY <1>10, <1>11
  <2>3. \A p, z : Sent(p, z)' \/ InHand(p, z)' => Sent(p, z) \/ InHand(p, z)
    BY Zenon, <1>10, <1>11
  <2>4. QED
    BY Zenon, <2>1, <2>2, <2>3, <1>5, <1>9 DEF CoverInv
<1>13. BehindInv'
  <2>1. SUFFICES ASSUME ad.done = FALSE PROVE BehindInv'
    BY Zenon, <1>5 DEF BehindInv
  <2>2. /\ taken = 0 => ad.rem = NoExtent
        /\ taken > 0 =>
             /\ \A p \in Positions : diff[taken].off <= p /\ p < ad.pos => Sent(p, FALSE)
             /\ ad.rem.zero = FALSE => ad.rem.off \in {ad.pos, diff[taken].off}
             /\ ad.pend # NoExtent => ad.pend.off = diff[taken].off
        /\ ad.rem.zero = TRUE => ad.pend # NoExtent
    BY Zenon, <2>1, <1>3 DEF FlowInv, BehindInv
  <2>3. taken # 0
    BY <2>2, <1>3
  <2>4. ASSUME taken > 0, NEW p \in Positions, diff[taken].off <= p, p < ad'.pos
        PROVE  Sent(p, FALSE)'
    <3>1. p \in Int /\ p < ad.rem.off + n
      BY <2>4, <1>4, RBDAssumption DEF Positions
    <3>2. CASE p < ad.pos
      BY Zenon, <3>2, <2>2, <2>4, <1>10
    <3>3. CASE ~(p < ad.pos) /\ ad.rem.zero = FALSE
      <4>1. ad.rem.off \in {ad.pos, diff[taken].off}
        BY Zenon, <3>3, <2>2, <2>4
      <4>2. ad.rem.off <= p
        BY <4>1, <3>1, <3>3, <2>4, <1>4, <1>6
      <4>3. p \in block
        BY <4>2, <3>1, <1>4
      <4>4. QED
        BY Zenon, <4>3, <3>3, <1>10
    <3>4. CASE ad.rem.zero = TRUE
      <4>1. ad.pend # NoExtent /\ ad.pend.off = diff[taken].off
        BY Zenon, <3>4, <2>2, <2>4
      <4>2. End(ad.rem) <= diff[taken].off
        BY <4>1, <1>1, <1>3 DEF AdapterInv
      <4>3. ad.pend.off \in Nat
        BY <1>6
      <4>4. FALSE
        BY <4>1, <4>2, <4>3, <3>1, <2>4, <1>7 DEF End
      <4>5. QED
        BY Zenon, <4>4
    <3>5. QED
      BY Zenon, <3>2, <3>3, <3>4, <1>6
  <2>5. QED
    BY ZenonT(30), <2>2, <2>3, <2>4, <1>3, <1>5, <1>9, <1>11 DEF BehindInv
<1>14. FillInv'
  <2>1. CASE full
    <3>1. /\ \A p \in Positions : p < ad.pos => Sent(p, TRUE) \/ Sent(p, FALSE)
          /\ ad.rem.off = ad.pos
          /\ ad.pend # NoExtent => ad.pend.off = End(ad.rem)
          /\ ad.done = TRUE => End(ad.rem) = Size
      BY Zenon, <2>1, <1>3 DEF FlowInv, FillInv
    <3>2. ASSUME NEW p \in Positions, p < ad'.pos PROVE Sent(p, TRUE)' \/ Sent(p, FALSE)'
      <4>1. p \in Int /\ p < ad.rem.off + n
        BY <3>2, <1>4, RBDAssumption DEF Positions
      <4>2. p < ad.pos \/ p \in block
        BY <4>1, <3>1, <1>6, <1>7
      <4>3. QED
        BY Zenon, <4>2, <3>1, <1>6, <1>10
    <3>3. QED
      BY Zenon, <2>1, <3>1, <3>2, <1>5, <1>11 DEF FillInv
  <2>2. CASE ~full
    <3> HIDE DEF block
    <3>1. \A p \in Positions : ~Sent(p, TRUE) /\ ~InHand(p, TRUE)
      BY Zenon, <2>2 DEF FlowInv, FillInv
    <3>2. QED
      BY Zenon, <2>2, <3>1, <1>5, <1>10, <1>11 DEF FillInv
  <2>3. QED
    BY <2>1, <2>2
<1>15. QED
  BY <1>12, <1>13, <1>14 DEF FlowInv

-----------------------------------------------------------------------------
(* CompleteInv is inductive                                                *)

LEMMA CompleteInit == Init => CompleteInv
<1> SUFFICES ASSUME Init PROVE CompleteInv
  OBVIOUS
<1>1. /\ ad = [pos |-> 0, rem |-> NoExtent, pend |-> NoExtent, done |-> FALSE]
      /\ diffState = "running" /\ reported = 0 /\ blocksChan = <<>> /\ emitted = <<>>
      /\ device = [p \in Positions |-> "old"] /\ durable = device
      /\ main = "run" /\ signalled = FALSE /\ cancelled = FALSE
      /\ fed = {} /\ stored = {} /\ free = {} /\ faulted = FALSE /\ outcome = "none"
  BY DEF Init, TransferInit
<1>2. ad.pos = 0 /\ ad.rem = NoExtent /\ ad.pend = NoExtent /\ ad.done = FALSE
  BY <1>1
<1>3. taken = 0
  <2>1. Len(blocksChan) = 0 /\ reported = 0
    BY <1>1
  <2>2. QED
    BY <2>1 DEF taken
<1>4. DisjointInv
  BY DisjointInit
<1>5. ChannelInv
  BY <1>1, <1>2, <1>3 DEF ChannelInv
<1>6. DeviceInv
  BY <1>1 DEF DeviceInv
<1>7. OutcomeInv
  BY Zenon, <1>1 DEF OutcomeInv
<1>8. \A p, z : ~InHand(p, z) /\ ~Sent(p, z)
  BY <1>1, <1>2, NothingInHand DEF Sent
<1>9. CoverInv
  <2>1. 1 .. taken = {}
    BY <1>3
  <2>2. QED
    BY Zenon, <2>1, <1>8 DEF CoverInv
<1>10. BehindInv
  BY <1>2, <1>3 DEF BehindInv
<1>11. FillInv
  <2>1. Positions \subseteq Nat
    BY RBDAssumption DEF Positions
  <2>2. \A p \in Positions : ~(p < ad.pos)
    BY <2>1, <1>2
  <2>3. QED
    BY Zenon, <2>2, <1>2, <1>8 DEF FillInv
<1>12. QED
  BY Zenon, <1>4, <1>5, <1>6, <1>7, <1>9, <1>10, <1>11 DEF CompleteInv, StateInv, FlowInv

LEMMA StateNext == StateInv /\ [Next]_vars => StateInv'
BY DisjointNext, ChannelNext, DeviceNext, OutcomeNext DEF StateInv, DisjointInv

(* A failed diff stays failed, and what Run returned stays.                *)
LEMMA FailureStays ==
  ASSUME AdapterInv, OutcomeInv, [Next]_vars
  PROVE  /\ diffState = "failed" => diffState' = "failed"
         /\ outcome = "err" => outcome' = "err"
<1>1. diffState = "failed" => diffState' = "failed"
  <2>1. DiffReports => diffState' = diffState
    BY DEF DiffReports
  <2>2. CloseDrains => diffState' = diffState
    BY DEF CloseDrains, SyncKeeps
  <2>3. LoadPending \/ LoadExtent \/ LoadEnd \/ EmitFromRemainder => diffState' = diffState
    BY DEF LoadPending, LoadExtent, LoadEnd, EmitFromRemainder, AdapterKeeps
  <2>4. QED
    BY <2>1, <2>2, <2>3, NextSplit DEF QuietStep
<1>2. outcome = "err" => outcome' = "err"
  <2> SUFFICES ASSUME outcome = "err" PROVE outcome' = outcome
    OBVIOUS
  <2>1. CASE DiffStep \/ DiffFails
    <3>1. DiffKeeps
      BY <2>1 DEF DiffStep, DiffReports, DiffEnds, DiffFails
    <3>2. QED
      BY <3>1 DEF DiffKeeps, transferVars
  <2>2. CASE AdapterStep
    <3>1. outcome = "none"
      BY Zenon, <2>2, PendingStep, ExtentStep, EndStep, EmitStep DEF AdapterStep
    <3>2. QED
      BY <3>1
  <2>3. CASE SyncStep
    BY Zenon, <2>3 DEF SyncStep, AcksSeen, AcksCancelled, CommitSent, SignalDone, CloseDrains,
                SyncReturns, SyncKeeps, transferVars
  <2>4. ASSUME NEW id \in Blocks, TransferStep(id) \/ BlockAbandoned(id) PROVE outcome' = outcome
    BY Zenon, <2>4 DEF TransferStep, DestinationWrites, BlockAcked, BlockAbandoned, Written, Acked, Abandoned
  <2>5. ASSUME NEW o \in {"ok", "err"}, RunReturns(o) PROVE FALSE
    BY <2>5 DEF RunReturns, Return
  <2>6. CASE WriteEnds \/ PipelineFault
    BY <2>6 DEF WriteEnds, PipelineFault, Fault, transferVars
  <2>7. CASE CommitFails \/ Cancel
    BY <2>7 DEF CommitFails, Cancel, SyncKeeps, transferVars
  <2>8. CASE Finished \/ UNCHANGED vars
    BY <2>8 DEF Finished, vars, transferVars
  <2>9. QED
    BY <2>1, <2>2, <2>3, <2>4, <2>5, <2>6, <2>7, <2>8 DEF Next
<1>3. QED
  BY <1>1, <1>2

LEMMA CompleteNext == CompleteInv /\ [Next]_vars => CompleteInv'
<1> SUFFICES ASSUME CompleteInv, [Next]_vars PROVE CompleteInv'
  OBVIOUS
<1>1. StateInv /\ DisjointInv /\ ChannelInv /\ OutcomeInv /\ AdapterInv
  BY DEF CompleteInv, StateInv, DisjointInv
<1>2. StateInv'
  BY <1>1, StateNext
<1>3. SUFFICES ASSUME outcome' # "err", diffState' # "failed" PROVE FlowInv'
  BY <1>2 DEF CompleteInv
<1>4. outcome # "err" /\ diffState # "failed"
  BY <1>1, <1>3, FailureStays
<1>5. FlowInv
  BY <1>4 DEF CompleteInv
<1>6. CASE DiffReports
  <2>1. /\ reported' = reported + 1 /\ Len(blocksChan') = Len(blocksChan) + 1
        /\ UNCHANGED <<full, diff, ad, emitted>>
    BY <1>1, <1>6, ReportsStep
  <2>2. reported \in Nat /\ Len(blocksChan) \in Nat
    BY <1>1, RBDAssumption DEF AdapterInv
  <2>3. taken' = taken
    BY <2>1, <2>2 DEF taken
  <2>4. QED
    BY <2>1, <2>3, <1>5, FlowKept
<1>7. CASE CloseDrains
  <2>1. main = "close" /\ blocksChan # <<>>
    BY <1>7 DEF CloseDrains
  <2>2. outcome = "ok"
    BY <2>1, <1>1, <1>4 DEF OutcomeInv
  <2>3. FALSE
    BY <2>1, <2>2, <1>1 DEF OutcomeInv, ChannelInv
  <2>4. QED
    BY <2>3
<1>8. CASE QuietStep
  BY <1>5, <1>8, FlowKept DEF QuietStep, taken
<1>9. QED
  BY <1>1, <1>4, <1>5, <1>6, <1>7, <1>8, NextSplit, PendingFlow, ExtentFlow, EndFlow, EmitFlow

(* Every change that the diff reported is in the channel, in the adapter,  *)
(* in a block on its way or on the device: the inductive invariant of      *)
(* SourceWorker.Sync behind RBDTypes and DoneMeansSnapshot.                *)
THEOREM CompleteAlways == Spec => []CompleteInv
<1>1. QED
  BY CompleteInit, CompleteNext, PTL DEF Spec

(* Every step keeps the bounds: blocksChan never holds more than DiffCap   *)
(* extents, the adapter never passes the end of the volume, and no block   *)
(* is empty or longer than a chunk.                                        *)
THEOREM RBDTypes == Spec => []TypeOK
<1>1. CompleteInv => TypeOK
  <2>1. SUFFICES ASSUME CompleteInv PROVE TypeOK
    OBVIOUS
  <2>2. AdapterInv /\ EmittedInv /\ DeviceInv /\ OutcomeInv
    BY <2>1 DEF CompleteInv, StateInv, DisjointInv
  <2>3. /\ ad.pos \in Nat /\ ad.done \in BOOLEAN /\ Size \in Nat /\ ad.pos <= Size
        /\ Len(emitted) <= ad.pos /\ Len(emitted) \in Nat /\ fed = 0 .. Len(emitted) - 1
    <3>1. ad.pos \in Nat /\ ad.done \in BOOLEAN /\ Size \in Nat
      BY <2>2, AdapterRecord
    <3>2. ad.pos <= Size
      BY <2>2 DEF AdapterInv
    <3>3. Len(emitted) <= ad.pos /\ Len(emitted) \in Nat /\ fed = 0 .. Len(emitted) - 1
      BY <2>2 DEF EmittedInv
    <3>4. QED
      BY <3>1, <3>2, <3>3
  <2>4. ad.pos \in 0 .. Size /\ Len(emitted) <= Size /\ fed \subseteq Blocks
    BY <2>3, RBDAssumption
  <2>5. stored \subseteq fed /\ free \subseteq fed
        /\ device \in [Positions -> {"old", "data", "zero"}]
        /\ durable \in [Positions -> {"old", "data", "zero"}]
    BY <2>2 DEF DeviceInv
  <2>6. /\ main \in {"run", "acks", "commit", "signal", "close", "returned"}
        /\ {signalled, cancelled, faulted} \subseteq BOOLEAN
    BY <2>2 DEF OutcomeInv
  <2>7. /\ full \in BOOLEAN /\ diffState \in {"running", "ended", "failed"}
        /\ reported \in 0 .. Len(diff) /\ Len(blocksChan) <= DiffCap
    BY <2>2 DEF AdapterInv
  <2>8. \A i \in DOMAIN emitted : emitted[i].len \in 1 .. ChunkSize
    BY <2>2 DEF EmittedInv
  <2>9. QED
    BY <2>3, <2>4, <2>5, <2>6, <2>7, <2>8 DEF TypeOK
<1>2. QED
  BY <1>1, CompleteAlways, PTL

(* When Done is received, what is on the device is what librbd reported,   *)
(* zeros elsewhere in a full diff, and old content elsewhere otherwise.    *)
LEMMA DoneIsComplete == CompleteInv => CompleteUnlessDiffFailed
<1> SUFFICES ASSUME CompleteInv, diffState # "failed", signalled = TRUE
             PROVE  device = Wanted /\ durable = Wanted
  BY Zenon DEF CompleteUnlessDiffFailed, SignalMeansComplete, CompleteInv, StateInv, OutcomeInv
<1>1. /\ DisjointInv /\ AdapterInv /\ EmittedInv /\ ChannelInv /\ DeviceInv /\ OutcomeInv
  BY DEF CompleteInv, StateInv, DisjointInv
<1>2. /\ outcome = "ok" /\ ad.done = TRUE /\ ad.rem = NoExtent
      /\ fed \subseteq stored /\ durable = device
  BY <1>1 DEF OutcomeInv
<1>3. FlowInv
  BY Zenon, <1>2 DEF CompleteInv
<1>4. /\ ad.pend = NoExtent /\ blocksChan = <<>> /\ diffState = "ended"
  BY Zenon, <1>1, <1>2 DEF ChannelInv, AdapterInv
<1>5. taken = Len(diff) /\ DOMAIN diff = 1 .. Len(diff)
  BY <1>1, <1>4, AllTaken, RBDAssumption DEF AdapterInv
<1>6. \A p, z : Sent(p, z) => device[p] = IF z THEN "zero" ELSE "data"
  <2>1. SUFFICES ASSUME NEW p, NEW z, Sent(p, z) PROVE device[p] = IF z THEN "zero" ELSE "data"
    OBVIOUS
  <2>2. PICK k \in DOMAIN emitted : p \in Span(emitted[k]) /\ emitted[k].zero = z
    BY <2>1 DEF Sent
  <2>3. k \in Nat /\ (k - 1) + 1 = k /\ k - 1 \in fed
    BY <1>1 DEF EmittedInv
  <2>4. k - 1 \in stored
    BY <2>3, <1>2
  <2>5. device[p] = Content(k - 1)
    BY <2>2, <2>3, <2>4, <1>1 DEF DeviceInv
  <2>6. QED
    BY <2>2, <2>3, <2>5 DEF Content
<1>7. \A p \in Positions : p \in Covered => Sent(p, FALSE)
  <2>1. SUFFICES ASSUME NEW p \in Positions, p \in Covered PROVE Sent(p, FALSE)
    BY Zenon
  <2>2. PICK i \in 1 .. taken : p \in Span(diff[i])
    BY <2>1, <1>5 DEF Covered
  <2>3. QED
    BY Zenon, <2>2, <1>1, <1>2, <1>3, <1>4, TakenIsBehind
<1>8. \A p \in Positions : (full /\ p \notin Covered) => Sent(p, TRUE)
  <2>1. SUFFICES ASSUME NEW p \in Positions, full, p \notin Covered PROVE Sent(p, TRUE)
    BY Zenon
  <2>2. ad.pos = Size
    BY <2>1, <1>2, <1>3 DEF FlowInv, FillInv
  <2>3. p < ad.pos
    BY <2>2, RBDAssumption DEF Positions
  <2>4. Sent(p, TRUE) \/ Sent(p, FALSE)
    BY Zenon, <2>1, <2>3, <1>3 DEF FlowInv, FillInv
  <2>5. ~Sent(p, FALSE)
    BY Zenon, <2>1, <1>3 DEF FlowInv, CoverInv
  <2>6. QED
    BY Zenon, <2>4, <2>5
<1>9. \A p \in Positions : (~full /\ p \notin Covered) => device[p] = "old"
  <2>1. SUFFICES ASSUME NEW p \in Positions, ~full, p \notin Covered PROVE device[p] = "old"
    OBVIOUS
  <2>2. ~Sent(p, FALSE) /\ ~Sent(p, TRUE)
    BY Zenon, <2>1, <1>3 DEF FlowInv, CoverInv, FillInv
  <2>3. \A k \in DOMAIN emitted : emitted[k].zero \in BOOLEAN
    <3>1. \A k \in DOMAIN emitted : emitted[k] \in ExtentType
      BY <1>1 DEF EmittedInv
    <3>2. QED
      BY <3>1 DEF ExtentType
  <2>4. \A k \in DOMAIN emitted : p \notin Span(emitted[k])
    BY <2>2, <2>3 DEF Sent
  <2>5. \A id \in stored : id + 1 \in DOMAIN emitted
    BY <1>1, FedIsEmitted DEF DeviceInv
  <2>6. QED
    BY <2>4, <2>5, <1>1 DEF DeviceInv
<1>10. device \in [Positions -> {"old", "data", "zero"}]
  BY <1>1 DEF DeviceInv
<1>11. \A p \in Positions :
         device[p] = IF p \in Covered THEN "data" ELSE IF full THEN "zero" ELSE "old"
  BY Zenon, <1>6, <1>7, <1>8, <1>9
<1>12. device = Wanted
  BY <1>10, <1>11 DEF Wanted
<1>13. QED
  BY <1>2, <1>12

(* When SourceWorker.Sync tells the destination that it is done, the       *)
(* device holds the target snapshot and it was synced, for every size of   *)
(* device and chunk and every diff that librbd reports in full.            *)
THEOREM DoneMeansSnapshot == Spec => []CompleteUnlessDiffFailed
<1>1. QED
  BY CompleteAlways, DoneIsComplete, PTL

-----------------------------------------------------------------------------
(* The window semaphore, whose IsReleased the transfer waits for, for any  *)
(* MaxWindow and every set of request ids.  First the arithmetic of the    *)
(* ring (two ids of one window never share a slot, ids a whole window      *)
(* apart always do), then one lemma per action for the inductive invariant *)
(* WindowInv, then the theorems.                                           *)

(* The ring has at least one slot.                                         *)
LEMMA LimitPositive == Limit \in Nat /\ Limit > 0
BY MaxWindowAssumption DEF Limit

(* Quotient and remainder, for a divisor that is not a literal.            *)
LEMMA DivMod ==
  ASSUME NEW a \in Nat, NEW L \in Nat, L > 0
  PROVE  /\ a % L \in 0 .. L - 1
         /\ a \div L \in Nat
         /\ a = L * (a \div L) + (a % L)
BY Z3

(* A multiple of L strictly between -L and L is zero.                      *)
LEMMA SmallMultiple ==
  ASSUME NEW L \in Nat, NEW q \in Int, 0 - L < L * q, L * q < L
  PROVE  q = 0
<1>1. CASE q >= 1
  <2>1. PICK p \in Nat : q = p + 1
    BY <1>1
  <2>2. L * q = L * p + L
    BY <2>1
  <2>3. L * p >= 0
    BY <2>1
  <2>. QED BY <2>2, <2>3
<1>2. CASE q <= -1
  <2>1. PICK p \in Nat : q = 0 - (p + 1)
    BY <1>2
  <2>2. L * q = 0 - (L * p + L)
    BY <2>1
  <2>3. L * p >= 0
    BY <2>1
  <2>. QED BY <2>2, <2>3
<1>. QED BY <1>1, <1>2

(* The remainder of a division is unique.                                  *)
LEMMA SameRemainder ==
  ASSUME NEW L \in Nat, L > 0, NEW p \in Int, NEW q \in Int,
         NEW r \in 0 .. L - 1, NEW s \in 0 .. L - 1,
         L * p + r = L * q + s
  PROVE  r = s
<1>1. L * (p - q) = s - r
  OBVIOUS
<1>2. p - q = 0
  BY <1>1, SmallMultiple
<1>. QED BY <1>1, <1>2

(* Numbers less than L apart with the same remainder are equal.            *)
LEMMA ModInjective ==
  ASSUME NEW a \in Nat, NEW b \in Nat, NEW L \in Nat, L > 0,
         a % L = b % L, a < b + L, b < a + L
  PROVE  a = b
<1>1. b - a = L * ((b \div L) - (a \div L))
  BY DivMod
<1>2. (b \div L) - (a \div L) \in Int
  BY DivMod
<1>3. (b \div L) - (a \div L) = 0
  BY <1>1, <1>2, SmallMultiple
<1>. QED BY <1>1, <1>3

(* Adding the divisor does not change the remainder.                       *)
LEMMA ModPeriod ==
  ASSUME NEW a \in Nat, NEW L \in Nat, L > 0
  PROVE  (a + L) % L = a % L
<1>1. a + L = L * ((a \div L) + 1) + (a % L)
  BY DivMod
<1>2. a + L = L * ((a + L) \div L) + ((a + L) % L)
  BY DivMod
<1>3. /\ (a + L) % L \in 0 .. L - 1
      /\ a % L \in 0 .. L - 1
      /\ (a + L) \div L \in Int
      /\ (a \div L) + 1 \in Int
  BY DivMod
<1>. QED BY Zenon, <1>1, <1>2, <1>3, SameRemainder

-----------------------------------------------------------------------------
(* reqID % limit is an index of the ring.                                  *)
LEMMA SlotType == ASSUME NEW n \in Nat PROVE Slot(n) \in Slots
BY LimitPositive, DivMod DEF Slot, Slots

(* Two ids of the same window have different slots of the ring.            *)
LEMMA SlotInjective ==
  ASSUME NEW b \in Nat, NEW m \in Nat, NEW n \in Nat,
         InWindow(m, b), InWindow(n, b), Slot(m) = Slot(n)
  PROVE  m = n
<1>1. m < n + Limit /\ n < m + Limit
  BY LimitPositive DEF InWindow
<1>2. m % Limit = n % Limit
  BY DEF Slot
<1>. QED BY Zenon, <1>1, <1>2, LimitPositive, ModInjective

(* The id one window later has the same slot.                              *)
LEMMA SlotPeriod == ASSUME NEW n \in Nat PROVE Slot(n + Limit) = Slot(n)
BY Zenon, LimitPositive, ModPeriod DEF Slot

(* NewWindowSemaphore establishes the invariant.                           *)
LEMMA InitInv == ClientInit => WindowInv
<1>. SUFFICES ASSUME ClientInit PROVE WindowInv
  OBVIOUS
<1>. USE LimitPositive, ReqIDsAssumption DEF ClientInit, WinInit
<1>1. ClientTypeOK
  <2>1. base \in Nat /\ inFlight \in Int
    OBVIOUS
  <2>2. released \in [Slots -> BOOLEAN] /\ releaseCh \in BOOLEAN
    BY Zenon
  <2>3. caller \in [ReqIDs -> Phases]
    BY DEF Phases
  <2>. QED BY <2>1, <2>2, <2>3 DEF ClientTypeOK, WinTypeOK
<1>2. \A n \in Nat : ~released[Slot(n)]
  BY SlotType
<1>3. RingExact
  <2>. SUFFICES ASSUME NEW n \in 0 .. base + Limit - 1
                PROVE  ~(n < base) /\ ~released[Slot(n)] /\ (n \in ReqIDs => caller[n] # "done")
    BY Zenon DEF RingExact
  <2>1. n \in Nat /\ ~(n < base)
    OBVIOUS
  <2>2. ~released[Slot(n)]
    BY Zenon, <1>2, <2>1
  <2>3. n \in ReqIDs => caller[n] # "done"
    OBVIOUS
  <2>. QED BY <2>1, <2>2, <2>3
<1>4. WindowBounds
  BY DEF WindowBounds, Owners, In
<1>5. WaitersParked
  BY DEF WaitersParked, In
<1>. QED BY Zenon, <1>1, <1>2, <1>3, <1>4, <1>5 DEF WindowInv

(* Acquire on the fast path preserves the invariant.                       *)
LEMMA AcquireInv ==
  ASSUME WindowInv, NEW id \in ReqIDs, Acquire(id)
  PROVE  WindowInv'
<1>. USE ReqIDsAssumption DEF Acquire, Becomes, WinAcquire, WindowInv
<1>1. ClientTypeOK'
  BY DEF ClientTypeOK, WinTypeOK, Phases
<1>2. RingExact'
  BY DEF RingExact, ClientTypeOK, WinTypeOK
<1>3. WindowBounds'
  BY DEF WindowBounds, Owners, In, ClientTypeOK, WinTypeOK, InWindow
<1>4. WaitersParked'
  BY DEF WaitersParked, In, ClientTypeOK, WinTypeOK
<1>. QED BY Zenon, <1>1, <1>2, <1>3, <1>4 DEF Slot

(* Parking in Acquire preserves the invariant.                             *)
LEMMA ParkInv ==
  ASSUME WindowInv, NEW id \in ReqIDs, Park(id)
  PROVE  WindowInv'
<1>. USE ReqIDsAssumption, LimitPositive DEF Park, Becomes, WinPark, WindowInv
<1>1. ClientTypeOK'
  BY DEF ClientTypeOK, WinTypeOK, Phases
<1>2. RingExact'
  BY DEF RingExact, ClientTypeOK, WinTypeOK
<1>3. id >= base + Limit
  <2>1. id \in Nat /\ base \in Nat
    BY DEF ClientTypeOK, WinTypeOK
  <2>2. ~(id < base)
    BY <2>1 DEF RingExact
  <2>. QED BY <2>1, <2>2 DEF InWindow
<1>4. WindowBounds'
  BY <1>3 DEF WindowBounds, Owners, In, ClientTypeOK, WinTypeOK
<1>5. WaitersParked'
  BY DEF WaitersParked, In, ClientTypeOK, WinTypeOK
<1>. QED BY Zenon, <1>1, <1>2, <1>4, <1>5 DEF Slot

(* Returning from a granted wait preserves the invariant.                  *)
LEMMA WakeInv ==
  ASSUME WindowInv, NEW id \in ReqIDs, Wake(id)
  PROVE  WindowInv'
<1>. USE ReqIDsAssumption DEF Wake, Becomes, WinWake, WindowInv
<1>1. ClientTypeOK'
  BY DEF ClientTypeOK, WinTypeOK, Phases
<1>2. RingExact'
  BY DEF RingExact, ClientTypeOK, WinTypeOK
<1>3. WindowBounds'
  BY DEF WindowBounds, Owners, In, ClientTypeOK, WinTypeOK, InWindow
<1>4. WaitersParked'
  BY DEF WaitersParked, In, ClientTypeOK, WinTypeOK
<1>. QED BY <1>1, <1>2, <1>3, <1>4 DEF Slot

(* Leaving the list on cancellation preserves the invariant.               *)
LEMMA CancelInv ==
  ASSUME WindowInv, NEW id \in ReqIDs, CancelWait(id)
  PROVE  WindowInv'
<1>. USE ReqIDsAssumption DEF CancelWait, Becomes, WinCancel, WindowInv
<1>1. ClientTypeOK'
  BY DEF ClientTypeOK, WinTypeOK, Phases
<1>2. RingExact'
  BY DEF RingExact, ClientTypeOK, WinTypeOK
<1>3. WindowBounds'
  BY DEF WindowBounds, Owners, In, ClientTypeOK, WinTypeOK, InWindow
<1>4. WaitersParked'
  BY DEF WaitersParked, In, ClientTypeOK, WinTypeOK
<1>. QED BY <1>1, <1>2, <1>3, <1>4 DEF Slot

(* Draining ReleaseChan preserves the invariant.                           *)
LEMMA SignalInv == ASSUME WindowInv, SignalReceived PROVE WindowInv'
<1>. USE DEF SignalReceived, WinSignalReceived, WindowInv
<1>1. ClientTypeOK'
  BY Zenon DEF ClientTypeOK, WinTypeOK
<1>2. RingExact'
  BY DEF RingExact
<1>3. WindowBounds'
  BY DEF WindowBounds, Owners, In, InWindow
<1>4. WaitersParked'
  BY DEF WaitersParked, In
<1>. QED BY <1>1, <1>2, <1>3, <1>4 DEF Slot

(* What a release by the owner of an id does to the ring.                  *)
LEMMA ReleaseRing ==
  ASSUME WindowInv, NEW id \in ReqIDs, Release(id)
  PROVE  /\ InWindow(id, base)
         /\ ~released[Slot(id)]
         /\ \E k \in 0 .. Limit :
              LET flags == [released EXCEPT ![Slot(id)] = TRUE] IN
              /\ Advances(flags, base, k)
              /\ base' = base + k
              /\ released' = Cleared(flags, base, k)
              /\ inFlight' \in Int
              /\ waiters' = waiters \ Woken(base + k)
              /\ granted' = granted \cup Woken(base + k)
              /\ releaseCh' = TRUE
<1>1. caller[id] = "held" /\ WinRelease(id)
  BY DEF Release, Becomes
<1>2. InWindow(id, base)
  BY <1>1 DEF WindowInv, WindowBounds, Owners, In
<1>3. id \in 0 .. base + Limit - 1
  BY <1>2, LimitPositive, ReqIDsAssumption DEF InWindow, WindowInv, ClientTypeOK, WinTypeOK
<1>4. ~released[Slot(id)]
  BY <1>1, <1>3 DEF WindowInv, RingExact
<1>. DEFINE flags == [released EXCEPT ![Slot(id)] = TRUE]
<1>5. PICK k \in 0 .. Limit, n \in 0 .. Cardinality(waiters) :
        /\ Advances(flags, base, k)
        /\ base' = base + k
        /\ released' = Cleared(flags, base, k)
        /\ inFlight' = inFlight - 1 + n
        /\ waiters' = waiters \ Woken(base + k)
        /\ granted' = granted \cup Woken(base + k)
        /\ releaseCh' = TRUE
  BY Zenon, <1>1, <1>4 DEF WinRelease
<1>6. inFlight' \in Int
  BY <1>5 DEF WindowInv, ClientTypeOK, WinTypeOK
<1>. QED BY Zenon, <1>2, <1>4, <1>5, <1>6

(* Release (flag, advance, clear, wake) preserves the invariant.           *)
LEMMA ReleaseInv ==
  ASSUME WindowInv, NEW id \in ReqIDs, Release(id)
  PROVE  WindowInv'
<1>. DEFINE flags == [released EXCEPT ![Slot(id)] = TRUE]
<1>1. PICK k \in 0 .. Limit :
        /\ Advances(flags, base, k)
        /\ base' = base + k
        /\ released' = Cleared(flags, base, k)
        /\ inFlight' \in Int
        /\ waiters' = waiters \ Woken(base + k)
        /\ granted' = granted \cup Woken(base + k)
        /\ releaseCh' = TRUE
  BY Zenon, ReleaseRing
<1>2. /\ InWindow(id, base)
      /\ caller[id] = "held"
      /\ caller' = [caller EXCEPT ![id] = "done"]
  BY Zenon, ReleaseRing DEF Release, Becomes
<1>3. /\ base \in Nat /\ base' \in Nat /\ k \in Nat /\ id \in Nat
      /\ released \in [Slots -> BOOLEAN]
      /\ caller \in [ReqIDs -> Phases]
      /\ Limit \in Nat /\ Limit > 0
  BY <1>1, LimitPositive, ReqIDsAssumption DEF WindowInv, ClientTypeOK, WinTypeOK
<1>4. flags \in [Slots -> BOOLEAN]
  BY <1>3, SlotType, Zenon
<1>5. \A n \in Nat : InWindow(n, base) =>
         (flags[Slot(n)] <=> (released[Slot(n)] \/ n = id))
  <2>. SUFFICES ASSUME NEW n \in Nat, InWindow(n, base)
                PROVE  flags[Slot(n)] <=> (released[Slot(n)] \/ n = id)
    OBVIOUS
  <2>1. Slot(n) \in Slots /\ Slot(id) \in Slots
    BY <1>3, SlotType
  <2>2. CASE n = id
    BY <2>1, <2>2, <1>3
  <2>3. CASE n # id
    <3>1. Slot(n) # Slot(id)
      BY <1>2, <1>3, <2>3, SlotInjective
    <3>. QED BY <2>1, <2>3, <3>1, <1>3
  <2>. QED BY <2>2, <2>3
<1>6. \A n \in Nat : (base <= n /\ n < base + k) => flags[Slot(n)]
  <2>. SUFFICES ASSUME NEW n \in Nat, base <= n, n < base + k
                PROVE  flags[Slot(n)]
    OBVIOUS
  <2>1. n - base \in 0 .. k - 1 /\ base + (n - base) = n
    BY <1>3
  <2>. QED BY <1>1, <2>1 DEF Advances
<1>7. \A i \in Slots : released'[i] <=> (flags[i] /\ \A j \in 0 .. k - 1 : i # Slot(base + j))
  BY Zenon, <1>1, <1>4 DEF Cleared
<1>8. \A n \in Nat : (base + k <= n /\ n < base + Limit) => (released'[Slot(n)] <=> flags[Slot(n)])
  <2>. SUFFICES ASSUME NEW n \in Nat, base + k <= n, n < base + Limit
                PROVE  released'[Slot(n)] <=> flags[Slot(n)]
    OBVIOUS
  <2>1. \A j \in 0 .. k - 1 : Slot(n) # Slot(base + j)
    <3>. SUFFICES ASSUME NEW j \in 0 .. k - 1, Slot(n) = Slot(base + j) PROVE FALSE
      OBVIOUS
    <3>1. base + j \in Nat /\ InWindow(base + j, base) /\ InWindow(n, base) /\ n # base + j
      BY <1>3 DEF InWindow
    <3>. QED BY <1>3, <3>1, SlotInjective
  <2>. QED BY <1>7, <2>1, SlotType
<1>9. \A n \in Nat : (base + Limit <= n /\ n < base + k + Limit) => ~released'[Slot(n)]
  <2>. SUFFICES ASSUME NEW n \in Nat, base + Limit <= n, n < base + k + Limit
                PROVE  ~released'[Slot(n)]
    OBVIOUS
  <2>1. PICK j \in 0 .. k - 1 : n = (base + j) + Limit
    <3>1. n - Limit - base \in 0 .. k - 1 /\ n = (base + (n - Limit - base)) + Limit
      BY <1>3
    <3>. QED BY <3>1
  <2>2. Slot(n) = Slot(base + j)
    BY <1>3, <2>1, SlotPeriod
  <2>. QED BY <1>7, <2>2, SlotType
<1>10. RingExact'
  <2>. SUFFICES ASSUME NEW n \in 0 .. (base + k) + Limit - 1
                PROVE  (n < base + k \/ released'[Slot(n)]) <=> (n \in ReqIDs /\ caller'[n] = "done")
    BY Zenon, <1>1 DEF RingExact, Slot, Limit
  <2>1. n \in Nat
    BY <1>3
  <2>2. (n \in ReqIDs /\ caller'[n] = "done") <=> (n \in ReqIDs /\ caller[n] = "done") \/ n = id
    BY <1>2, <1>3
  <2>3. n < base + Limit => ((n < base \/ released[Slot(n)]) <=> (n \in ReqIDs /\ caller[n] = "done"))
    BY <2>1, <1>3 DEF WindowInv, RingExact
  <2>4. CASE n < base
    BY <2>1, <2>2, <2>3, <2>4, <1>3
  <2>5. CASE base <= n /\ n < base + k
    <3>1. released[Slot(n)] \/ n = id
      BY <1>1, <1>3, <1>5, <1>6, <2>1, <2>5 DEF InWindow
    <3>. QED BY <2>1, <2>2, <2>3, <2>5, <3>1, <1>3
  <2>6. CASE base + k <= n /\ n < base + Limit
    <3>1. released'[Slot(n)] <=> (released[Slot(n)] \/ n = id)
      BY <1>3, <1>5, <1>8, <2>1, <2>6 DEF InWindow
    <3>. QED BY <2>1, <2>2, <2>3, <2>6, <3>1, <1>3
  <2>7. CASE base + Limit <= n
    <3>1. ~released'[Slot(n)] /\ ~(n < base + k)
      BY <1>3, <1>9, <2>1, <2>7
    <3>2. n # id
      BY <1>2, <1>3, <2>7 DEF InWindow
    <3>3. ~(n \in ReqIDs /\ caller[n] = "done")
      BY <1>3, <2>1, <2>7 DEF WindowInv, WindowBounds, In
    <3>. QED BY <2>2, <3>1, <3>2, <3>3
  <2>. QED BY <2>1, <2>4, <2>5, <2>6, <2>7, <1>3
<1>11. ~released'[Slot(base')]
  <2>1. base + k \in Nat /\ base + k <= base + k /\ base' = base + k
    BY <1>1, <1>3
  <2>2. CASE k < Limit
    <3>1. ~flags[Slot(base + k)]
      BY <1>1, <2>2 DEF Advances
    <3>2. base + k < base + Limit
      BY <1>3, <2>2
    <3>3. ~released'[Slot(base + k)]
      BY Zenon, <1>8, <2>1, <3>1, <3>2
    <3>. QED BY Zenon, <2>1, <3>3
  <2>3. CASE k = Limit
    <3>1. base + Limit <= base + k /\ base + k < base + k + Limit
      BY <1>3, <2>3
    <3>2. ~released'[Slot(base + k)]
      BY <1>9, <2>1, <3>1
    <3>. QED BY <2>1, <3>2
  <2>4. k < Limit \/ k = Limit
    BY <1>1, <1>3
  <2>. QED BY Zenon, <2>2, <2>3, <2>4
<1>12. /\ Woken(base + k) \subseteq waiters
       /\ \A w \in Woken(base + k) : InWindow(w, base + k)
       /\ \A w \in waiters \ Woken(base + k) : w >= (base + k) + Limit
  <2>1. /\ Woken(base + k) \subseteq waiters
        /\ \A w \in waiters : w \in Nat /\ w >= base + Limit
    BY ReqIDsAssumption DEF Woken, WindowInv, WindowBounds, ClientTypeOK, WinTypeOK
  <2>2. \A w \in Woken(base + k) : InWindow(w, base + k)
    BY <2>1 DEF Woken
  <2>3. ASSUME NEW w \in waiters \ Woken(base + k)
        PROVE  w >= (base + k) + Limit
    <3>1. PICK v \in waiters : v <= w /\ ~InWindow(v, base + k)
      BY Zenon DEF Woken
    <3>. QED BY <1>1, <1>3, <2>1, <3>1 DEF InWindow
  <2>. QED BY <2>1, <2>2, <2>3
<1>13. WaitersParked'
  <2>1. waiters \cup granted \subseteq In("parked") /\ waiters \cap granted = {}
    BY DEF WindowInv, WaitersParked
  <2>2. In("parked")' = In("parked")
    BY <1>2, <1>3 DEF In
  <2>. QED BY <1>1, <1>12, <2>1, <2>2 DEF WaitersParked
<1>14. ClientTypeOK'
  <2>1. inFlight' \in Int
    BY <1>1
  <2>2. released' \in [Slots -> BOOLEAN] /\ releaseCh' \in BOOLEAN
    BY <1>1, Zenon DEF Cleared
  <2>3. waiters' \subseteq ReqIDs /\ granted' \subseteq ReqIDs
    BY <1>1, <1>12 DEF WindowInv, ClientTypeOK, WinTypeOK
  <2>4. caller' \in [ReqIDs -> Phases]
    BY <1>2, <1>3 DEF Phases
  <2>. QED BY <1>3, <2>1, <2>2, <2>3, <2>4 DEF ClientTypeOK, WinTypeOK, Slots, Limit
<1>15. WindowBounds'
  <2>1. \A x \in Owners' : InWindow(x, base + k)
    <3>. SUFFICES ASSUME NEW x \in Owners' PROVE InWindow(x, base + k)
      OBVIOUS
    <3>1. x \in ReqIDs /\ x \in Nat
      BY Zenon, <1>14, ReqIDsAssumption DEF Owners, In, ClientTypeOK, WinTypeOK
    <3>2. CASE x \in Woken(base + k)
      BY Zenon, <1>12, <3>2
    <3>3. CASE x \notin Woken(base + k)
      <4>1. x \in Owners /\ caller'[x] # "done"
        BY Zenon, <1>1, <1>2, <1>3, <1>13, <3>1, <3>3 DEF Owners, In, WaitersParked
      <4>2. InWindow(x, base)
        BY Zenon, <4>1 DEF WindowInv, WindowBounds
      <4>3. ~(x < base + k)
        <5>1. x \in 0 .. base' + Limit - 1 /\ base' = base + k
          BY <1>1, <1>3, <3>1, <4>2 DEF InWindow
        <5>. QED BY Zenon, <1>10, <4>1, <5>1 DEF RingExact
      <4>. QED BY <1>1, <1>3, <3>1, <4>2, <4>3 DEF InWindow
    <3>. QED BY <3>2, <3>3
  <2>2. \A x \in In("done")' : x < (base + k) + Limit
    <3>. SUFFICES ASSUME NEW x \in In("done")' PROVE x < (base + k) + Limit
      OBVIOUS
    <3>1. x \in Nat /\ (x \in In("done") \/ x = id)
      BY <1>2, <1>3, ReqIDsAssumption DEF In
    <3>2. x < base + Limit
      BY <1>2, <3>1 DEF WindowInv, WindowBounds, InWindow
    <3>. QED BY <1>1, <1>3, <3>1, <3>2
  <2>3. \A w \in waiters' : w >= (base + k) + Limit
    BY Zenon, <1>1, <1>12
  <2>. QED BY <1>1, <2>1, <2>2, <2>3 DEF WindowBounds, InWindow, Limit
<1>. QED BY <1>10, <1>11, <1>13, <1>14, <1>15 DEF WindowInv, Slot, Limit

(* The inductive invariant of the window, for every MaxWindow and every    *)
(* set of request ids.                                                     *)
THEOREM WindowInvariant == ClientSpec => []WindowInv
<1>1. ClientInit => WindowInv
  BY InitInv
<1>2. WindowInv /\ [ClientNext]_clientVars => WindowInv'
  <2>. SUFFICES ASSUME WindowInv, [ClientNext]_clientVars PROVE WindowInv'
    OBVIOUS
  <2>1. CASE UNCHANGED clientVars
    BY <2>1 DEF clientVars, WindowInv, ClientTypeOK, WinTypeOK, RingExact, WindowBounds,
                WaitersParked, Owners, In, InWindow, Slot
  <2>2. CASE ClientNext
    BY Zenon, <2>2, AcquireInv, ParkInv, WakeInv, CancelInv, ReleaseInv, SignalInv DEF ClientNext
  <2>. QED BY Zenon, <2>1, <2>2
<1>. QED BY <1>1, <1>2, PTL DEF ClientSpec

(* The types of the semaphore's fields and of its callers.                 *)
THEOREM WindowTypes == ClientSpec => []ClientTypeOK
<1>1. WindowInv => ClientTypeOK
  BY DEF WindowInv
<1>. QED BY <1>1, WindowInvariant, PTL

-----------------------------------------------------------------------------
(* Every id below base was released by its owner.                          *)
LEMMA BelowBase ==
  ASSUME WindowInv, NEW n \in Nat, n < base
  PROVE  n \in ReqIDs /\ caller[n] = "done"
<1>1. n \in 0 .. base + Limit - 1
  BY LimitPositive DEF WindowInv, ClientTypeOK, WinTypeOK
<1>. QED BY <1>1 DEF WindowInv, RingExact

(* IsReleased answers TRUE only for an id whose whole prefix was released, *)
(* whatever the width of the window and the order of the releases: what    *)
(* the commit drainer and the RBD source take as "safe to commit".         *)
THEOREM WatermarkIsSound == ClientSpec => []WatermarkSound
<1>1. WindowInv => WatermarkSound
  <2>. SUFFICES ASSUME WindowInv, NEW id \in ReqIDs, WinIsReleased(id),
                       NEW j \in ReqIDs, j <= id
                PROVE  caller[j] = "done"
    BY DEF WatermarkSound
  <2>1. j \in Nat /\ id \in Nat /\ base \in Nat
    BY ReqIDsAssumption DEF WindowInv, ClientTypeOK, WinTypeOK
  <2>2. j < base
    BY <2>1 DEF WinIsReleased
  <2>. QED BY <2>1, <2>2, BelowBase
<1>. QED BY <1>1, WindowInvariant, PTL

(* Once a whole prefix is released IsReleased says so: Release leaves base *)
(* at an id that is not released, so a wait on IsReleased is not stuck     *)
(* behind an advance that stopped short.                                   *)
THEOREM WatermarkIsComplete == ClientSpec => []WatermarkComplete
<1>1. WindowInv => WatermarkComplete
  <2>. SUFFICES ASSUME WindowInv, NEW id \in ReqIDs,
                       \A j \in 0 .. id : j \in ReqIDs /\ caller[j] = "done",
                       ~WinIsReleased(id)
                PROVE  FALSE
    BY DEF WatermarkComplete
  <2>1. id \in Nat /\ base \in Nat /\ base <= id
    BY ReqIDsAssumption DEF WindowInv, ClientTypeOK, WinTypeOK, WinIsReleased
  <2>2. base \in ReqIDs /\ caller[base] = "done"
    BY <2>1
  <2>3. base \in 0 .. base + Limit - 1
    BY <2>1, LimitPositive
  <2>4. base < base \/ released[Slot(base)]
    BY <2>2, <2>3 DEF WindowInv, RingExact
  <2>. QED BY <2>1, <2>4 DEF WindowInv
<1>. QED BY <1>1, WindowInvariant, PTL

(* IsReleased is exact, for every window and every set of ids.             *)
THEOREM WatermarkIsExact == ClientSpec => []WatermarkExact
<1>1. WatermarkSound /\ WatermarkComplete => WatermarkExact
  BY DEF WatermarkExact
<1>. QED BY <1>1, WatermarkIsSound, WatermarkIsComplete, PTL

(* Nobody stays parked while its id is inside the window: a release wakes  *)
(* every waiter that its advance of base lets in.                          *)
THEOREM NoWakeupIsLost == ClientSpec => []NoLostWakeup
<1>1. WindowInv => NoLostWakeup
  <2>. SUFFICES ASSUME WindowInv, NEW w \in waiters, InWindow(w, base)
                PROVE  FALSE
    BY DEF NoLostWakeup
  <2>1. w \in Nat /\ base \in Nat /\ w >= base + Limit /\ w < base + Limit
    BY ReqIDsAssumption DEF WindowInv, ClientTypeOK, WinTypeOK, WindowBounds, InWindow
  <2>. QED BY <2>1, LimitPositive
<1>. QED BY <1>1, WindowInvariant, PTL

-----------------------------------------------------------------------------
(* The refinement: what base and the ring's flags say is exactly the set   *)
(* of ids whose owners released them.                                      *)
DoneExact == Freed = In("done")

(* That holds in every state of the invariant.                             *)
LEMMA FreedExact == WindowInv => DoneExact
<1>. SUFFICES ASSUME WindowInv, NEW n \in ReqIDs
              PROVE  n \in Freed <=> n \in In("done")
  BY DEF DoneExact, Freed, In
<1>1. n \in Nat /\ base \in Nat /\ Limit \in Nat /\ Limit > 0
  BY ReqIDsAssumption, LimitPositive DEF WindowInv, ClientTypeOK, WinTypeOK
<1>2. CASE n < base + Limit
  <2>1. n \in 0 .. base + Limit - 1
    BY <1>1, <1>2
  <2>2. (n < base \/ released[Slot(n)]) <=> caller[n] = "done"
    BY <2>1 DEF WindowInv, RingExact
  <2>3. n < base \/ InWindow(n, base)
    BY <1>1, <1>2 DEF InWindow
  <2>. QED BY <2>2, <2>3 DEF Freed, In
<1>3. CASE ~(n < base + Limit)
  <2>1. n \notin In("done")
    BY <1>3 DEF WindowInv, WindowBounds
  <2>2. ~(n < base) /\ ~InWindow(n, base)
    BY <1>1, <1>3 DEF InWindow
  <2>. QED BY <2>1, <2>2 DEF Freed
<1>. QED BY <1>2, <1>3

(* An id of the window has everything Limit below it released.             *)
LEMMA WindowGuard ==
  ASSUME WindowInv, NEW id \in ReqIDs, InWindow(id, base),
         NEW j \in 0 .. id - Limit
  PROVE  j \in In("done")
<1>1. id \in Nat /\ base \in Nat /\ Limit \in Nat /\ j \in Nat
  BY ReqIDsAssumption, LimitPositive DEF WindowInv, ClientTypeOK, WinTypeOK
<1>2. j < base
  BY <1>1 DEF InWindow
<1>. QED BY <1>1, <1>2, BelowBase DEF In

(* An immediate Acquire is an Enter of the abstract window.                *)
LEMMA AcquireEnters ==
  ASSUME WindowInv, WindowInv', NEW id \in ReqIDs, Acquire(id)
  PROVE  Promise!Enter({id})
<1>1. Freed = In("done") /\ Freed' = In("done")'
  <2>1. DoneExact /\ DoneExact'
    BY FreedExact, PTL
  <2>. QED BY <2>1 DEF DoneExact
<1>2. /\ InWindow(id, base)
      /\ caller[id] = "new"
      /\ caller' = [caller EXCEPT ![id] = "held"]
      /\ granted' = granted
      /\ caller \in [ReqIDs -> Phases]
  BY Zenon DEF Acquire, Becomes, WinAcquire, WindowInv, ClientTypeOK
<1>3. id \notin Owners \cup Freed
  BY <1>1, <1>2 DEF Owners, In, WindowInv, WaitersParked
<1>4. \A j \in 0 .. id - Limit : j \in Freed
  BY <1>1, <1>2, WindowGuard
<1>5. Owners' = Owners \cup {id} /\ Freed' = Freed
  BY <1>1, <1>2 DEF Owners, In
<1>. QED BY <1>3, <1>4, <1>5 DEF Promise!Enter, Promise!MayEnter

(* A Release is a Finish that lets the woken waiters in.                   *)
LEMMA ReleaseFinishes ==
  ASSUME WindowInv, WindowInv', NEW id \in ReqIDs, Release(id)
  PROVE  \E S \in SUBSET ReqIDs : Promise!Finish(id, S)
<1>1. PICK k \in 0 .. Limit :
        /\ base' = base + k
        /\ granted' = granted \cup Woken(base + k)
  BY Zenon, ReleaseRing
<1>2. /\ caller[id] = "held"
      /\ caller' = [caller EXCEPT ![id] = "done"]
      /\ caller \in [ReqIDs -> Phases]
  BY DEF Release, Becomes, WindowInv, ClientTypeOK
<1>3. Freed = In("done") /\ Freed' = In("done")'
  <2>1. DoneExact /\ DoneExact'
    BY FreedExact, PTL
  <2>. QED BY <2>1 DEF DoneExact
<1>4. Woken(base + k) \in SUBSET ReqIDs /\ Woken(base + k) \subseteq waiters
  BY Zenon DEF Woken, WindowInv, ClientTypeOK, WinTypeOK
<1>5. id \in Owners /\ id \notin granted /\ id \notin waiters
  BY <1>2 DEF Owners, In, WindowInv, WaitersParked
<1>6. Freed' = Freed \cup {id}
  BY <1>2, <1>3 DEF In
<1>7. Owners' = (Owners \ {id}) \cup Woken(base + k)
  BY <1>1, <1>2, <1>4, <1>5 DEF Owners, In
<1>8. ASSUME NEW w \in Woken(base + k)
      PROVE  w \notin Owners \cup Freed /\ \A i \in 0 .. w - Limit : i \in Freed'
  <2>1. w \in waiters /\ w \in ReqIDs /\ InWindow(w, base + k)
    <3>1. w \in waiters /\ w \in ReqIDs /\ w \in Nat
      BY Zenon, <1>4, ReqIDsAssumption
    <3>. QED BY <3>1 DEF Woken
  <2>2. w \notin Owners \cup Freed
    BY Zenon, <1>3, <2>1 DEF Owners, In, WindowInv, WaitersParked
  <2>3. ASSUME NEW i \in 0 .. w - Limit PROVE i \in Freed'
    <3>1. /\ i \in Nat /\ base \in Nat /\ k \in Nat /\ Limit \in Nat /\ w \in Nat
          /\ base' \in Nat
      BY <1>1, <2>1, ReqIDsAssumption, LimitPositive DEF WindowInv, ClientTypeOK, WinTypeOK
    <3>2. i < base'
      BY <1>1, <2>1, <3>1 DEF InWindow
    <3>3. i \in 0 .. (base + k) + Limit - 1
      BY <1>1, <3>1, <3>2
    <3>4. RingExact'
      BY DEF WindowInv
    <3>5. i \in ReqIDs /\ caller'[i] = "done"
      BY <1>1, <3>2, <3>3, <3>4 DEF RingExact, Limit
    <3>. QED BY Zenon, <1>3, <3>5 DEF In
  <2>. QED BY <2>2, <2>3
<1>9. Promise!Finish(id, Woken(base + k))
  BY <1>5, <1>6, <1>7, <1>8 DEF Promise!Finish
<1>. QED BY <1>4, <1>9

(* Parking, waking, cancelling and draining the signal are invisible in    *)
(* the abstract window: a woken caller already owned its place.            *)
LEMMA OthersStutter ==
  ASSUME WindowInv, WindowInv',
         \/ \E id \in ReqIDs : Park(id) \/ Wake(id) \/ CancelWait(id)
         \/ SignalReceived
         \/ UNCHANGED clientVars
  PROVE  UNCHANGED Promise!vars
<1>1. Freed = In("done") /\ Freed' = In("done")'
  <2>1. DoneExact /\ DoneExact'
    BY FreedExact, PTL
  <2>. QED BY <2>1 DEF DoneExact
<1>2. caller \in [ReqIDs -> Phases] /\ waiters \cup granted \subseteq In("parked")
  BY DEF WindowInv, ClientTypeOK, WaitersParked
<1>3. ASSUME NEW id \in ReqIDs, Park(id) PROVE UNCHANGED <<Owners, Freed>>
  BY Zenon, <1>1, <1>2, <1>3 DEF Park, Becomes, WinPark, Owners, In
<1>4. ASSUME NEW id \in ReqIDs, Wake(id) PROVE UNCHANGED <<Owners, Freed>>
  BY Zenon, <1>1, <1>2, <1>4 DEF Wake, Becomes, WinWake, Owners, In
<1>5. ASSUME NEW id \in ReqIDs, CancelWait(id) PROVE UNCHANGED <<Owners, Freed>>
  BY Zenon, <1>1, <1>2, <1>5 DEF CancelWait, Becomes, WinCancel, Owners, In
<1>6. CASE SignalReceived
  BY <1>1, <1>6 DEF SignalReceived, WinSignalReceived, Owners, In, Promise!vars
<1>7. CASE UNCHANGED clientVars
  BY <1>1, <1>7 DEF clientVars, Owners, In, Promise!vars
<1>. QED BY <1>3, <1>4, <1>5, <1>6, <1>7 DEF Promise!vars

(* The ring with its modular slots, advance loop and wake loop implements  *)
(* the abstract window, for every width and every set of ids.              *)
THEOREM RingRefinesWindow == ClientSpec => RingImplementsWindow
<1>1. ClientInit => Promise!Init
  <2>. SUFFICES ASSUME ClientInit PROVE Owners = {} /\ Freed = {}
    BY DEF Promise!Init
  <2>1. Owners = {}
    BY DEF ClientInit, WinInit, Owners, In
  <2>2. Freed = {}
    BY FreedExact, InitInv DEF DoneExact, ClientInit, In
  <2>. QED BY <2>1, <2>2
<1>2. WindowInv /\ WindowInv' /\ [ClientNext]_clientVars => [Promise!Next]_(Promise!vars)
  <2>. SUFFICES ASSUME WindowInv, WindowInv', [ClientNext]_clientVars
                PROVE  [Promise!Next]_(Promise!vars)
    OBVIOUS
  <2>1. ASSUME NEW id \in ReqIDs, Acquire(id) PROVE Promise!Next
    BY Zenon, <2>1, AcquireEnters DEF Promise!Next
  <2>2. ASSUME NEW id \in ReqIDs, Release(id) PROVE Promise!Next
    BY <2>2, ReleaseFinishes DEF Promise!Next
  <2>. QED BY <2>1, <2>2, OthersStutter DEF ClientNext
<1>. QED BY <1>1, <1>2, WindowInvariant, PTL DEF ClientSpec, Promise!Spec, RingImplementsWindow
=============================================================================
