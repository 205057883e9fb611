---------------------------- MODULE CephFSProofs ----------------------------
(***************************************************************************)
(* Proofs about CephFSTransfer for every list of files, every capacity of  *)
(* the boundary channel, every batch size, window and choice of failures:  *)
(* a committed file is stored unless the pipeline has failed, no file is   *)
(* committed or announced twice, and when both goroutines return nil none  *)
(* is missing.                                                             *)
(***************************************************************************)
EXTENDS CephFSTransfer, FiniteSetTheorems, NaturalsInduction, WellFoundedInduction, TLAPS

N == Len(Layout)
Boundaries == {Boundary(f) : f \in Files}
DrainerPc == {"run", "drain", "wait", "send", "notify", "fail", "done", "failed"}
DrainerType == [pc : DrainerPc, pending : Seq(Boundaries), current : Int,
                batch : Seq(Files), flushing : BOOLEAN]

TypeInv ==
  /\ fed \subseteq Blocks /\ stored \subseteq Blocks /\ free \subseteq Blocks
  /\ faulted \in BOOLEAN /\ outcome \in {"none", "ok", "err"}
  /\ file \in 0 .. N + 1 /\ iter \in {"blocks", "drain", "end"}
  /\ backlog \in Seq(Boundaries) /\ boundaryCh \in Seq(Boundaries)
  /\ Len(boundaryCh) <= BoundaryCap
  /\ dr \in DrainerType
  /\ commits \in [Files -> Nat] /\ notified \in [Files -> Nat]
  /\ main \in {"run", "close", "end", "returned"}
  /\ {boundaryEnd, releaseCh, gerr, cancelled} \subseteq BOOLEAN

(* The request ids taken so far are the first ones, and the iterator's     *)
(* place among the files agrees with the next id.                          *)
IterInv ==
  /\ reqID \in Nat /\ fed = 0 .. reqID - 1
  /\ iter = "blocks" => file \in Files /\ FirstID[file] <= reqID /\ reqID <= FirstID[file + 1]
  /\ iter = "drain" => file \in 0 .. N /\ reqID = FirstID[file + 1]
  /\ iter = "end" => file \in 1 .. N + 1 /\ reqID = FirstID[file]
  /\ iter = "end" => file = N + 1 \/ cancelled = TRUE

(* The iterator is through with file f.                                    *)
Passed(f) == f < file \/ (f = file /\ iter = "drain")

FilesIn(q) == {q[i].file : i \in DOMAIN q}
Distinct(q) == \A i, j \in DOMAIN q : q[i] = q[j] => i = j
InBatch == Range(dr.batch)
Waiting == FilesIn(backlog) \cup FilesIn(boundaryCh) \cup FilesIn(dr.pending)

(* A boundary is in one place, once, and only of a file the iterator is    *)
(* through with.                                                           *)
PlaceInv ==
  /\ Distinct(backlog) /\ Distinct(boundaryCh) /\ Distinct(dr.pending) /\ Distinct(dr.batch)
  /\ FilesIn(backlog) \cap FilesIn(boundaryCh) = {}
  /\ FilesIn(backlog) \cap FilesIn(dr.pending) = {}
  /\ FilesIn(boundaryCh) \cap FilesIn(dr.pending) = {}
  /\ Waiting \cap InBatch = {}
  /\ \A f \in Waiting \cup InBatch : Passed(f)

(* A file is committed when its batch is sent and announced after that.    *)
Collecting == {"run", "drain", "wait", "send", "done"}
CommitInv ==
  /\ \A f \in Files : notified[f] <= commits[f] /\ commits[f] <= 1
  /\ \A f \in Files : commits[f] > 0 => Passed(f) /\ f \notin Waiting
  /\ dr.pc \in Collecting => \A f \in InBatch : commits[f] = 0
  /\ dr.pc = "notify" => \A f \in InBatch : commits[f] = 1 /\ notified[f] = 0

(* Without a failure, what is released is stored, and so is every file     *)
(* that was taken for a batch.                                             *)
StoredInv ==
  /\ faulted = FALSE => free \subseteq stored
  /\ faulted = FALSE =>
       \A f \in Files : f \in InBatch \/ commits[f] > 0 => BlocksOf(f) \subseteq stored
  /\ outcome = "ok" => fed \subseteq stored

(* What the program counters say of the queues.                            *)
ControlInv ==
  /\ main = "run" <=> outcome = "none"
  /\ outcome = "ok" => iter = "end"
  /\ main \in {"end", "returned"} <=> boundaryEnd = TRUE
  /\ boundaryEnd = TRUE => backlog = <<>>
  /\ main = "returned" /\ outcome = "err" => gerr = TRUE
  /\ dr.flushing = TRUE => boundaryEnd = TRUE /\ boundaryCh = <<>>
  /\ dr.pc \in {"run", "done"} => dr.batch = <<>>
  /\ dr.pc \in {"send", "notify"} => dr.batch # <<>>
  /\ dr.pc = "done" => dr.flushing = TRUE /\ dr.pending = <<>>
  /\ dr.pc = "failed" => gerr = TRUE

(* As long as nothing has failed, no boundary is lost.                     *)
Healthy == gerr = FALSE /\ cancelled = FALSE /\ dr.pc # "fail"
KeptInv ==
  Healthy =>
    \A f \in Files : Passed(f) /\ BlocksOf(f) # {} =>
      f \in Waiting \/ f \in InBatch \/ notified[f] = 1

CephFSInv ==
  TypeInv /\ IterInv /\ PlaceInv /\ CommitInv /\ StoredInv /\ ControlInv /\ KeptInv
-----------------------------------------------------------------------------
(* Every non-empty set of numbers has a least element.                     *)
LEMMA LeastNumber ==
  ASSUME NEW T \in SUBSET Nat, T # {}
  PROVE  \E n \in T : \A m \in T : n <= m
<1> DEFINE R == OpToRel(<, Nat)
<1>1. IsWellFoundedOn(R, Nat)
  BY Zenon, NatLessThanWellFounded
<1>2. \A x, y \in Nat : y < x => <<y, x>> \in R
  BY DEF OpToRel
<1> HIDE DEF R
<1>3. PICK n \in T : \A m \in T : ~(<<m, n>> \in R)
  BY Zenon, <1>1, WFMin
<1>4. \A m \in T : n <= m
  <2> TAKE m \in T
  <2>1. n \in Nat /\ m \in Nat
    OBVIOUS
  <2>2. ~(m < n)
    BY Zenon, <1>2, <1>3, <2>1
  <2> QED
    BY <2>1, <2>2
<1> QED
  BY <1>4

LEMMA LayoutType == N \in Nat /\ Files = 1 .. N /\ \A f \in Files : Layout[f] \in Nat
BY CephFSAssumption DEF N, Files

(* g gives the first request id of each of the files 1 .. n.               *)
Counts(g, n) ==
  /\ g \in [1 .. n -> Nat]
  /\ \A f \in 1 .. n : g[f] = IF f = 1 THEN 0 ELSE g[f - 1] + Layout[f - 1]

LEMMA CountsExist == \A n \in 1 .. N + 1 : \E g : Counts(g, n)
<1> DEFINE Bad == {n \in 1 .. N + 1 : ~ \E g : Counts(g, n)}
<1> SUFFICES ASSUME Bad # {} PROVE FALSE
  BY Zenon
<1>1. Bad \in SUBSET Nat
  BY LayoutType
<1>2. PICK n \in Bad : \A m \in Bad : n <= m
  BY <1>1, LeastNumber, Zenon
<1>3. n \in 1 .. N + 1 /\ ~ \E g : Counts(g, n)
  BY <1>2
<1>4. CASE n = 1
  <2>1. Counts([f \in 1 .. 1 |-> 0], 1)
    BY DEF Counts
  <2> QED
    BY <2>1, <1>3, <1>4, Zenon
<1>5. CASE n # 1
  <2>1. n - 1 \in 1 .. N + 1 /\ ~(n <= n - 1) /\ n - 1 \in 1 .. N
    BY <1>3, <1>5, LayoutType
  <2>2. n - 1 \notin Bad
    BY <1>2, <2>1
  <2>3. PICK g : Counts(g, n - 1)
    BY <2>1, <2>2
  <2> DEFINE h == [f \in 1 .. n |-> IF f = n THEN g[n - 1] + Layout[n - 1] ELSE g[f]]
  <2>4. n - 1 \in Files /\ Layout[n - 1] \in Nat
    BY <2>1, LayoutType
  <2>5. Counts(h, n)
    BY <2>1, <2>3, <2>4, <1>3, <1>5, LayoutType DEF Counts
  <2> QED
    BY <2>5, <1>3, Zenon
<1> QED
  BY <1>4, <1>5

(* The recursion of FirstID is well defined.                               *)
LEMMA FirstIDCounts == Counts(FirstID, N + 1)
<1>1. PICK g : Counts(g, N + 1)
  BY CountsExist, LayoutType
<1>2. g = [f \in 1 .. Len(Layout) + 1 |-> IF f = 1 THEN 0 ELSE g[f - 1] + Layout[f - 1]]
  BY <1>1 DEF Counts, N
<1>3. FirstID = [f \in 1 .. Len(Layout) + 1 |->
                   IF f = 1 THEN 0 ELSE FirstID[f - 1] + Layout[f - 1]]
  BY <1>2, Zenon DEF FirstID
<1> DEFINE Same == {n \in 1 .. N + 1 : FirstID[n] # g[n]}
<1>4. Same = {}
  <2> SUFFICES ASSUME Same # {} PROVE FALSE
    OBVIOUS
  <2>1. Same \in SUBSET Nat
    BY LayoutType
  <2>2. PICK n \in Same : \A m \in Same : n <= m
    BY <2>1, LeastNumber, Zenon
  <2>3. n \in 1 .. N + 1 /\ FirstID[n] # g[n]
    BY <2>2
  <2>4. n # 1
    BY <2>3, <1>2, <1>3 DEF N
  <2>5. n - 1 \in 1 .. N + 1 /\ ~(n <= n - 1)
    BY <2>3, <2>4, LayoutType
  <2>6. FirstID[n - 1] = g[n - 1]
    BY <2>2, <2>5
  <2>7. n \in 1 .. Len(Layout) + 1
    BY <2>3 DEF N
  <2>8. FirstID[n] = FirstID[n - 1] + Layout[n - 1]
    BY <2>4, <2>7, <1>3, Zenon
  <2>9. g[n] = g[n - 1] + Layout[n - 1]
    BY <2>4, <2>7, <1>2, Zenon
  <2> QED
    BY <2>3, <2>6, <2>8, <2>9, Zenon
<1>5. \A n \in 1 .. N + 1 : FirstID[n] = g[n]
  BY <1>4
<1>6. FirstID = g
  BY <1>5, <1>2, <1>3 DEF N
<1> QED
  BY <1>1, <1>6

LEMMA FirstIDStep ==
  /\ FirstID[1] = 0
  /\ \A f \in 1 .. N + 1 : FirstID[f] \in Nat
  /\ \A f \in Files : FirstID[f + 1] \in Nat /\ FirstID[f] <= FirstID[f + 1]
<1>1. FirstID[1] = 0 /\ \A f \in 1 .. N + 1 : FirstID[f] \in Nat
  BY FirstIDCounts, LayoutType DEF Counts
<1>2. ASSUME NEW f \in Files
      PROVE  FirstID[f + 1] \in Nat /\ FirstID[f] <= FirstID[f + 1]
  <2>1. f \in 1 .. N + 1 /\ f + 1 \in 1 .. N + 1 /\ f + 1 # 1 /\ (f + 1) - 1 = f
    BY LayoutType
  <2>2. FirstID[f + 1] = FirstID[f] + Layout[f]
    BY <2>1, FirstIDCounts DEF Counts
  <2> QED
    BY <1>1, <2>1, <2>2, LayoutType
<1> QED
  BY <1>1, <1>2

(* The ids of every file lie before the end of the last one.               *)
LEMMA FirstIDBounded == \A f \in 1 .. N + 1 : FirstID[f] <= FirstID[N + 1]
<1> DEFINE Over == {k \in 0 .. N : ~(FirstID[N + 1 - k] <= FirstID[N + 1])}
<1>1. Over = {}
  <2> SUFFICES ASSUME Over # {} PROVE FALSE
    OBVIOUS
  <2>1. Over \in SUBSET Nat
    BY LayoutType
  <2>2. PICK k \in Over : \A m \in Over : k <= m
    BY <2>1, LeastNumber, Zenon
  <2>3. k \in 0 .. N /\ ~(FirstID[N + 1 - k] <= FirstID[N + 1])
    BY <2>2
  <2>4. k # 0
    <3>1. FirstID[N + 1] \in Nat
      BY FirstIDStep, LayoutType
    <3> QED
      BY <3>1, <2>3, LayoutType
  <2>5. k - 1 \in 0 .. N /\ ~(k <= k - 1) /\ N + 1 - k \in Files
        /\ N + 1 - (k - 1) = (N + 1 - k) + 1
    BY <2>3, <2>4, LayoutType
  <2>6. FirstID[(N + 1 - k) + 1] <= FirstID[N + 1]
    BY <2>2, <2>5
  <2>7. FirstID[N + 1 - k] <= FirstID[(N + 1 - k) + 1] /\ FirstID[(N + 1 - k) + 1] \in Nat
    BY <2>5, FirstIDStep
  <2>8. FirstID[N + 1] \in Nat /\ FirstID[N + 1 - k] \in Nat
    BY FirstIDStep, LayoutType, <2>3
  <2> QED
    BY <2>3, <2>6, <2>7, <2>8
<1>2. \A f \in 1 .. N + 1 : N + 1 - f \in 0 .. N /\ N + 1 - (N + 1 - f) = f
  BY LayoutType
<1> QED
  <2> TAKE f \in 1 .. N + 1
  <2>1. N + 1 - f \notin Over
    BY <1>1
  <2> QED
    BY <2>1, <1>2

LEMMA BlocksOfFile ==
  ASSUME NEW f \in Files
  PROVE  BlocksOf(f) \subseteq Blocks
<1>1. Blocks = 0 .. FirstID[N + 1] - 1
  BY CephFSAssumption DEF N
<1>2. f \in 1 .. N + 1 /\ f + 1 \in 1 .. N + 1
  BY LayoutType
<1>3. FirstID[f] \in Nat /\ FirstID[f + 1] \in Nat /\ FirstID[N + 1] \in Nat
      /\ FirstID[f + 1] <= FirstID[N + 1]
  BY <1>2, FirstIDStep, FirstIDBounded, LayoutType
<1> QED
  BY <1>1, <1>3 DEF BlocksOf

LEMMA BoundaryFields ==
  /\ \A f \in Files : Boundary(f) \in Boundaries
  /\ \A b \in Boundaries : b.file \in Files /\ b = Boundary(b.file) /\ b.last \in Int
                           /\ b.last = FirstID[b.file + 1] - 1
  /\ \A f : Boundary(f).file = f
<1>1. \A b \in Boundaries : b.file \in Files /\ b.last = FirstID[b.file + 1] - 1
                            /\ b = Boundary(b.file)
  BY DEF Boundary, Boundaries
<1>2. \A b \in Boundaries : b.last \in Int
  <2> TAKE b \in Boundaries
  <2>1. b.file + 1 \in 1 .. N + 1 /\ b.last = FirstID[b.file + 1] - 1
    BY <1>1, LayoutType
  <2>2. FirstID[b.file + 1] \in Nat
    BY <2>1, FirstIDStep
  <2> QED
    BY <2>1, <2>2
<1> QED
  BY <1>1, <1>2 DEF Boundary, Boundaries

-----------------------------------------------------------------------------
(* Queues without repetitions.                                             *)
LEMMA AppendDistinct ==
  ASSUME NEW S, NEW q \in Seq(S), NEW b \in S, Distinct(q), b \notin Range(q)
  PROVE  Distinct(Append(q, b)) /\ Range(Append(q, b)) = Range(q) \cup {b}
<1>1. DOMAIN Append(q, b) = DOMAIN q \cup {Len(q) + 1} /\ Len(q) + 1 \notin DOMAIN q
  OBVIOUS
<1>2. Append(q, b)[Len(q) + 1] = b /\ \A i \in DOMAIN q : Append(q, b)[i] = q[i]
  OBVIOUS
<1>3. Range(Append(q, b)) = Range(q) \cup {b}
  BY <1>1, <1>2, Zenon DEF Range
<1>4. Distinct(Append(q, b))
  <2> SUFFICES ASSUME NEW i \in DOMAIN q \cup {Len(q) + 1}, NEW j \in DOMAIN q \cup {Len(q) + 1},
                      Append(q, b)[i] = Append(q, b)[j]
               PROVE  i = j
    BY <1>1, Zenon DEF Distinct
  <2>1. \A k \in DOMAIN q : q[k] # b
    BY Zenon DEF Range
  <2> QED
    BY <1>2, <2>1, Zenon DEF Distinct
<1> QED
  BY <1>3, <1>4

LEMMA TailDistinct ==
  ASSUME NEW S, NEW q \in Seq(S), q # <<>>, Distinct(q)
  PROVE  /\ Distinct(Tail(q)) /\ Range(Tail(q)) = Range(q) \ {Head(q)}
         /\ Head(q) \in Range(q) /\ Head(q) \in S /\ Tail(q) \in Seq(S)
<1>1. Len(q) \in Nat /\ Len(q) >= 1 /\ DOMAIN q = 1 .. Len(q)
      /\ DOMAIN Tail(q) = 1 .. Len(q) - 1 /\ Head(q) = q[1] /\ Tail(q) \in Seq(S)
  OBVIOUS
<1>2. \A i \in 1 .. Len(q) - 1 : Tail(q)[i] = q[i + 1]
  BY <1>1
<1>3. \A i \in 1 .. Len(q) : i = 1 \/ (i - 1 \in 1 .. Len(q) - 1 /\ (i - 1) + 1 = i)
  BY <1>1
<1>4. Distinct(Tail(q))
  BY <1>1, <1>2 DEF Distinct
<1>5. Range(Tail(q)) \subseteq Range(q) \ {Head(q)}
  BY <1>1, <1>2 DEF Distinct, Range
<1>6. Range(q) \ {Head(q)} \subseteq Range(Tail(q))
  <2> SUFFICES ASSUME NEW i \in DOMAIN q, q[i] # Head(q) PROVE q[i] \in Range(Tail(q))
    BY Zenon DEF Range
  <2>1. i - 1 \in DOMAIN Tail(q) /\ (i - 1) + 1 = i
    BY <1>1, <1>3
  <2>2. Tail(q)[i - 1] = q[i]
    BY <1>1, <1>2, <2>1
  <2> QED
    BY <2>1, <2>2, Zenon DEF Range
<1>7. Head(q) \in Range(q) /\ Head(q) \in S
  BY <1>1 DEF Range
<1> QED
  BY <1>1, <1>4, <1>5, <1>6, <1>7

LEMMA FilesInRange ==
  ASSUME NEW q \in Seq(Boundaries)
  PROVE  /\ FilesIn(q) = {b.file : b \in Range(q)} /\ FilesIn(q) \subseteq Files
         /\ \A f : Boundary(f) \in Range(q) => f \in FilesIn(q)
         /\ \A b \in Boundaries : b.file \in FilesIn(q) => b \in Range(q)
<1>1. \A i \in DOMAIN q : q[i] \in Boundaries
  OBVIOUS
<1>2. FilesIn(q) = {b.file : b \in Range(q)}
  BY Zenon DEF FilesIn, Range
<1>3. \A b \in Range(q) : b \in Boundaries
  BY <1>1 DEF Range
<1> QED
  BY <1>2, <1>3, BoundaryFields

LEMMA AppendFiles ==
  ASSUME NEW q \in Seq(Boundaries), NEW b \in Boundaries, Distinct(q), b.file \notin FilesIn(q)
  PROVE  /\ Append(q, b) \in Seq(Boundaries) /\ Distinct(Append(q, b))
         /\ FilesIn(Append(q, b)) = FilesIn(q) \cup {b.file}
<1>1. Append(q, b) \in Seq(Boundaries)
  OBVIOUS
<1>2. b \notin Range(q)
  BY FilesInRange, Zenon
<1>3. Distinct(Append(q, b)) /\ Range(Append(q, b)) = Range(q) \cup {b}
  BY <1>2, AppendDistinct
<1>4. FilesIn(q) = {c.file : c \in Range(q)}
  BY FilesInRange
<1>5. FilesIn(Append(q, b)) = {c.file : c \in Range(Append(q, b))}
  BY Zenon, <1>1, FilesInRange
<1> QED
  BY <1>1, <1>3, <1>4, <1>5, Zenon

LEMMA TailFiles ==
  ASSUME NEW q \in Seq(Boundaries), q # <<>>, Distinct(q)
  PROVE  /\ Tail(q) \in Seq(Boundaries) /\ Distinct(Tail(q))
         /\ FilesIn(Tail(q)) = FilesIn(q) \ {Head(q).file}
         /\ Head(q) \in Boundaries /\ Head(q).file \in FilesIn(q)
<1>1. /\ Distinct(Tail(q)) /\ Range(Tail(q)) = Range(q) \ {Head(q)}
      /\ Head(q) \in Range(q) /\ Head(q) \in Boundaries /\ Tail(q) \in Seq(Boundaries)
  BY TailDistinct
<1>2. FilesIn(q) = {c.file : c \in Range(q)}
  BY FilesInRange
<1>3. FilesIn(Tail(q)) = {c.file : c \in Range(Tail(q))}
  BY Zenon, <1>1, FilesInRange
<1>4. \A c \in Range(q) : c \in Boundaries
  BY DEF Range
<1>5. \A c \in Range(q) : c.file = Head(q).file => c = Head(q)
  BY <1>1, <1>4, BoundaryFields, Zenon
<1> QED
  BY <1>1, <1>2, <1>3, <1>5, Zenon

-----------------------------------------------------------------------------
(* The drainer's steps, field by field.                                    *)
LEMMA DrainerFields ==
  ASSUME TypeInv
  PROVE  /\ dr.pc \in DrainerPc /\ dr.pending \in Seq(Boundaries) /\ dr.current \in Int
         /\ dr.batch \in Seq(Files) /\ dr.flushing \in BOOLEAN
BY DEF TypeInv, DrainerType

LEMMA ReceivedStep ==
  ASSUME TypeInv, BoundaryReceived
  PROVE  /\ dr.pc = "run" /\ dr'.pc = "drain" /\ dr'.pending = Append(dr.pending, Head(boundaryCh))
         /\ dr'.batch = dr.batch /\ dr'.flushing = dr.flushing /\ dr' \in DrainerType
         /\ boundaryCh # <<>> /\ boundaryCh' = Tail(boundaryCh)
<1>1. Head(boundaryCh) \in Boundaries
  BY DEF TypeInv, BoundaryReceived
<1>2. Head(boundaryCh).last \in Int
  BY <1>1, BoundaryFields
<1> DEFINE more == Append(dr.pending, Head(boundaryCh))
           last == Head(boundaryCh).last
<1>3. more \in Seq(Boundaries)
  BY <1>1, DrainerFields
<1>4. dr' = [dr EXCEPT !.pc = "drain", !.current = last, !.pending = more]
      /\ dr.pc = "run" /\ boundaryCh # <<>> /\ boundaryCh' = Tail(boundaryCh)
  BY DEF BoundaryReceived, DrainerAt
<1>5. dr \in DrainerType
  BY DEF TypeInv
<1> HIDE DEF more, last
<1>6. dr' \in DrainerType
  BY Zenon, <1>2, <1>3, <1>4, <1>5 DEF DrainerType, DrainerPc, last
<1>7. /\ dr'.pc = "drain" /\ dr'.pending = more /\ dr'.batch = dr.batch
      /\ dr'.flushing = dr.flushing
  BY <1>4, <1>5 DEF DrainerType
<1> QED
  BY <1>4, <1>6, <1>7 DEF more

LEMMA EndStep ==
  ASSUME TypeInv, BoundariesEnd
  PROVE  /\ dr.pc = "run" /\ dr'.pc = "drain" /\ dr'.pending = dr.pending
         /\ dr'.batch = dr.batch /\ dr'.flushing = TRUE /\ dr' \in DrainerType
         /\ boundaryCh = <<>> /\ boundaryEnd = TRUE
BY Zenon DEF TypeInv, BoundariesEnd, DrainerType, DrainerPc, DrainerAt

LEMMA TakeStep ==
  ASSUME TypeInv, TakeHead
  PROVE  /\ dr.pc = "drain" /\ dr'.pc \in {"send", "drain"} /\ dr.pending # <<>>
         /\ dr'.pending = Tail(dr.pending)
         /\ dr'.batch = Append(dr.batch, Head(dr.pending).file)
         /\ dr'.flushing = dr.flushing /\ dr' \in DrainerType
         /\ Head(dr.pending) \in Boundaries /\ IsReleased(Head(dr.pending).last)
<1>1. dr.pending # <<>> /\ IsReleased(Head(dr.pending).last)
  BY Zenon DEF TakeHead, HeadQualifies, Qualifies
<1>2. Head(dr.pending) \in Boundaries /\ Tail(dr.pending) \in Seq(Boundaries)
  BY <1>1, DrainerFields
<1>3. Head(dr.pending).file \in Files
  BY <1>2, BoundaryFields
<1> DEFINE pc2 == IF Len(dr.batch) + 1 >= CommitBatch THEN "send" ELSE "drain"
<1>4. pc2 \in {"send", "drain"}
  OBVIOUS
<1>5. dr' = [dr EXCEPT !.pending = Tail(@), !.batch = Append(@, Head(dr.pending).file),
                       !.pc = pc2]
  BY DEF TakeHead
<1>6. dr.pc = "drain"
  BY DEF TakeHead, DrainerAt
<1> DEFINE rest == Tail(dr.pending)
           more == Append(dr.batch, Head(dr.pending).file)
<1>7. rest \in Seq(Boundaries) /\ more \in Seq(Files)
  BY <1>2, <1>3, DrainerFields
<1>8. dr' = [dr EXCEPT !.pending = rest, !.batch = more, !.pc = pc2]
  BY <1>5
<1>9. dr \in DrainerType
  BY DEF TypeInv
<1> HIDE DEF pc2, rest, more
<1>10. dr' \in DrainerType
  BY Zenon, <1>4, <1>7, <1>8, <1>9 DEF DrainerType, DrainerPc
<1>11. dr'.pc = pc2 /\ dr'.pending = rest /\ dr'.batch = more /\ dr'.flushing = dr.flushing
  BY <1>8, <1>9 DEF DrainerType
<1> QED
  BY <1>1, <1>2, <1>4, <1>6, <1>10, <1>11 DEF rest, more

LEMMA StopStep ==
  ASSUME TypeInv, StopTaking
  PROVE  /\ dr.pc = "drain" /\ dr'.pending = dr.pending /\ dr'.batch = dr.batch
         /\ dr'.flushing = dr.flushing /\ dr' \in DrainerType
         /\ dr'.pc \in {"wait", "send", "done", "run"}
         /\ dr'.pc = "send" => dr.batch # <<>>
         /\ dr'.pc = "done" => dr.flushing = TRUE /\ dr.pending = <<>> /\ dr.batch = <<>>
         /\ dr'.pc = "run" => dr.batch = <<>>
<1> DEFINE pc2 == CASE dr.flushing /\ dr.pending # <<>> -> "wait"
                    [] ~(dr.flushing /\ dr.pending # <<>>) /\ dr.batch # <<>> -> "send"
                    [] dr.flushing /\ dr.pending = <<>> /\ dr.batch = <<>> -> "done"
                    [] OTHER -> "run"
<1>1. /\ pc2 \in {"wait", "send", "done", "run"}
      /\ pc2 = "send" => dr.batch # <<>>
      /\ pc2 = "done" => dr.flushing = TRUE /\ dr.pending = <<>> /\ dr.batch = <<>>
      /\ pc2 = "run" => dr.batch = <<>>
  <2>1. dr.flushing \in BOOLEAN
    BY DrainerFields
  <2>2. CASE dr.flushing = TRUE
    BY <2>2
  <2>3. CASE dr.flushing = FALSE
    BY <2>3
  <2> QED
    BY <2>1, <2>2, <2>3
<1>2. dr' = [dr EXCEPT !.pc = pc2] /\ dr.pc = "drain"
  BY Zenon DEF StopTaking, DrainerAt
<1> HIDE DEF pc2
<1> QED
  BY Zenon, <1>1, <1>2 DEF TypeInv, DrainerType, DrainerPc

LEMMA SignalStep ==
  ASSUME TypeInv, ReleaseSignal
  PROVE  /\ dr.pc = "wait" /\ dr'.pc = "drain" /\ dr'.pending = dr.pending
         /\ dr'.batch = dr.batch /\ dr'.flushing = dr.flushing /\ dr' \in DrainerType
BY Zenon DEF TypeInv, ReleaseSignal, DrainerType, DrainerPc, DrainerAt

LEMMA SentStep ==
  ASSUME TypeInv, CommitSent
  PROVE  /\ dr.pc = "send" /\ dr'.pc = "notify" /\ dr'.pending = dr.pending
         /\ dr'.batch = dr.batch /\ dr'.flushing = dr.flushing /\ dr' \in DrainerType
         /\ commits' \in [Files -> Nat]
         /\ \A f \in Files : commits'[f] = IF f \in InBatch THEN commits[f] + 1 ELSE commits[f]
<1>1. /\ dr.pc = "send" /\ dr'.pc = "notify" /\ dr'.pending = dr.pending
      /\ dr'.batch = dr.batch /\ dr'.flushing = dr.flushing /\ dr' \in DrainerType
  BY Zenon DEF TypeInv, CommitSent, DrainerType, DrainerPc, DrainerAt
<1>2. commits' = [f \in Files |-> commits[f] + (IF f \in InBatch THEN 1 ELSE 0)]
  BY Zenon DEF CommitSent, InBatch
<1>3. commits \in [Files -> Nat]
  BY DEF TypeInv
<1> HIDE DEF InBatch
<1> QED
  BY <1>1, <1>2, <1>3

LEMMA CommitFailsStep ==
  ASSUME TypeInv, CommitFails
  PROVE  /\ dr.pc = "send" /\ dr'.pc = "fail" /\ dr'.pending = dr.pending
         /\ dr'.batch = dr.batch /\ dr'.flushing = dr.flushing /\ dr' \in DrainerType
         /\ commits' \in [Files -> Nat]
         /\ \A f \in Files : commits'[f] = commits[f]
                             \/ (f \in InBatch /\ commits'[f] = commits[f] + 1)
<1>1. /\ dr.pc = "send" /\ dr'.pc = "fail" /\ dr'.pending = dr.pending
      /\ dr'.batch = dr.batch /\ dr'.flushing = dr.flushing /\ dr' \in DrainerType
  BY Zenon DEF TypeInv, CommitFails, DrainerType, DrainerPc, DrainerAt
<1>2. PICK k \in 0 .. Len(dr.batch) :
        commits' = [f \in Files |->
                      commits[f] + (IF f \in Range(SubSeq(dr.batch, 1, k)) THEN 1 ELSE 0)]
  BY Zenon DEF CommitFails
<1>3. Range(SubSeq(dr.batch, 1, k)) \subseteq InBatch
  <2>1. dr.batch \in Seq(Files)
    BY DrainerFields
  <2> QED
    BY <2>1, <1>2 DEF Range, InBatch
<1>4. commits \in [Files -> Nat]
  BY DEF TypeInv
<1> DEFINE C == Range(SubSeq(dr.batch, 1, k))
<1>5. commits' = [f \in Files |-> commits[f] + (IF f \in C THEN 1 ELSE 0)] /\ C \subseteq InBatch
  BY <1>2, <1>3
<1> HIDE DEF C
<1>6. commits' \in [Files -> Nat]
  BY <1>4, <1>5
<1>7. \A f \in Files : commits'[f] = commits[f]
                       \/ (f \in InBatch /\ commits'[f] = commits[f] + 1)
  BY <1>4, <1>5
<1> QED
  BY <1>1, <1>6, <1>7

LEMMA NotifyStep ==
  ASSUME TypeInv, Notify, dr.batch # <<>>
  PROVE  /\ dr.pc = "notify" /\ dr'.pc \in {"notify", "drain"} /\ dr'.pending = dr.pending
         /\ dr'.pc = "notify" => Tail(dr.batch) # <<>>
         /\ dr'.batch = Tail(dr.batch) /\ dr'.flushing = dr.flushing /\ dr' \in DrainerType
         /\ Head(dr.batch) \in Files /\ notified' \in [Files -> Nat]
         /\ \A f \in Files : notified'[f] = IF f = Head(dr.batch) THEN notified[f] + 1
                                                                  ELSE notified[f]
         /\ dr'.pc = "drain" => Tail(dr.batch) = <<>>
<1>1. dr.batch \in Seq(Files)
  BY DrainerFields
<1>2. Head(dr.batch) \in Files /\ Tail(dr.batch) \in Seq(Files)
      /\ Len(Tail(dr.batch)) = Len(dr.batch) - 1 /\ Len(dr.batch) \in Nat
  BY <1>1
<1>3. Len(dr.batch) > 1 <=> Tail(dr.batch) # <<>>
  <2>1. \A t \in Seq(Files) : Len(t) \in Nat /\ (t = <<>> <=> Len(t) = 0)
    OBVIOUS
  <2>2. Tail(dr.batch) = <<>> <=> Len(dr.batch) - 1 = 0
    BY Zenon, <1>2, <2>1
  <2>3. Len(dr.batch) # 0
    BY <1>1, <2>1
  <2>4. \A n \in Nat : n # 0 => (n > 1 <=> n - 1 # 0)
    OBVIOUS
  <2> QED
    BY <1>2, <2>2, <2>3, <2>4, Zenon
<1> DEFINE pc2 == IF Len(dr.batch) > 1 THEN "notify" ELSE "drain"
<1>4. pc2 \in {"notify", "drain"} /\ (pc2 = "notify" <=> Tail(dr.batch) # <<>>)
  BY <1>3
<1>5. dr' = [dr EXCEPT !.batch = Tail(@), !.pc = pc2] /\ dr.pc = "notify"
  BY DEF Notify, DrainerAt
<1> HIDE DEF pc2
<1>6. notified \in [Files -> Nat]
      /\ notified' = [notified EXCEPT ![Head(dr.batch)] = @ + 1]
  BY DEF TypeInv, Notify
<1>7. notified' \in [Files -> Nat]
      /\ \A f \in Files : notified'[f] = IF f = Head(dr.batch) THEN notified[f] + 1
                                                               ELSE notified[f]
  BY <1>2, <1>6
<1> QED
  BY Zenon, <1>2, <1>4, <1>5, <1>7 DEF TypeInv, DrainerType, DrainerPc

LEMMA StoppedStep ==
  ASSUME TypeInv, DrainerCancelled \/ DrainerFails
  PROVE  /\ dr'.pending = dr.pending /\ dr'.batch = dr.batch /\ dr'.flushing = dr.flushing
         /\ dr' \in DrainerType /\ dr'.pc \in {"fail", "failed"}
         /\ dr'.pc = "fail" => gerr = TRUE \/ cancelled = TRUE
         /\ dr'.pc = "failed" => gerr' = TRUE
<1>1. CASE DrainerCancelled
  BY Zenon, <1>1 DEF TypeInv, DrainerCancelled, DrainerType, DrainerPc, gctxDone
<1>2. CASE DrainerFails
  BY Zenon, <1>2 DEF TypeInv, DrainerFails, DrainerType, DrainerPc
<1> QED
  BY Zenon, <1>1, <1>2

-----------------------------------------------------------------------------
(* The steps, grouped by what they do to the boundaries.                   *)
DrainerQuiet == BoundariesEnd \/ StopTaking \/ ReleaseSignal
DrainerStops == DrainerCancelled \/ DrainerFails
PipelineStep ==
  \/ \E id \in Blocks : TransferStep(id) \/ BlockAbandoned(id)
  \/ PipelineFault

LEMMA NextSplit ==
  [Next]_vars =>
    \/ NextBlock \/ EmitBoundary \/ DrainBacklog \/ AdvanceFile
    \/ FlushBoundary \/ CloseBoundaryCh \/ MainReturns
    \/ BoundaryReceived \/ DrainerQuiet \/ TakeHead \/ CommitSent \/ CommitFails \/ Notify
    \/ DrainerStops \/ PipelineStep \/ (\E o \in {"ok", "err"} : RunReturns(o))
    \/ CancelCaller \/ UNCHANGED vars
BY Zenon DEF Next, FeederStep, CloseStep, DrainerStep, DrainerQuiet, DrainerStops, PipelineStep,
  Finished

LEMMA EmitTypes ==
  ASSUME EmitBoundary, TypeInv
  PROVE  backlog' \in Seq(Boundaries) /\ boundaryCh' \in Seq(Boundaries)
         /\ Len(boundaryCh') <= BoundaryCap
<1>1. Boundary(file) \in Boundaries
  BY BoundaryFields DEF EmitBoundary
<1>2. backlog \in Seq(Boundaries) /\ boundaryCh \in Seq(Boundaries)
      /\ Len(boundaryCh) <= BoundaryCap /\ BoundaryCap \in Nat
  BY CephFSAssumption DEF TypeInv
<1>3. \/ UNCHANGED <<boundaryCh, backlog>>
      \/ /\ Len(boundaryCh) < BoundaryCap
         /\ boundaryCh' = Append(boundaryCh, Boundary(file)) /\ UNCHANGED backlog
      \/ backlog' = Append(backlog, Boundary(file)) /\ UNCHANGED boundaryCh
  BY Zenon DEF EmitBoundary
<1>4. \A q \in Seq(Boundaries), b \in Boundaries :
        Append(q, b) \in Seq(Boundaries) /\ Len(Append(q, b)) = Len(q) + 1 /\ Len(q) \in Nat
  OBVIOUS
<1>5. CASE Len(boundaryCh) < BoundaryCap /\ boundaryCh' = Append(boundaryCh, Boundary(file))
           /\ UNCHANGED backlog
  <2>1. boundaryCh' \in Seq(Boundaries) /\ Len(boundaryCh') = Len(boundaryCh) + 1
        /\ Len(boundaryCh) \in Nat
    BY <1>1, <1>2, <1>4, <1>5
  <2> QED
    BY <1>2, <1>5, <2>1
<1>6. CASE backlog' = Append(backlog, Boundary(file)) /\ UNCHANGED boundaryCh
  BY <1>1, <1>2, <1>4, <1>6
<1> QED
  BY <1>2, <1>3, <1>5, <1>6, Zenon

LEMMA MoveTypes ==
  ASSUME TypeInv, backlog # <<>>, Len(boundaryCh) < BoundaryCap,
         boundaryCh' = Append(boundaryCh, Head(backlog)), backlog' = Tail(backlog)
  PROVE  backlog' \in Seq(Boundaries) /\ boundaryCh' \in Seq(Boundaries)
         /\ Len(boundaryCh') <= BoundaryCap
<1>1. backlog \in Seq(Boundaries) /\ boundaryCh \in Seq(Boundaries)
      /\ Len(boundaryCh) \in Nat /\ BoundaryCap \in Nat
  BY CephFSAssumption DEF TypeInv
<1>2. Head(backlog) \in Boundaries /\ Tail(backlog) \in Seq(Boundaries)
  BY <1>1
<1> QED
  BY <1>1, <1>2

LEMMA TypeNext ==
  ASSUME TypeInv, IterInv, ControlInv, [Next]_vars
  PROVE  TypeInv'
<1> USE DEF TypeInv
<1>1. CASE NextBlock
  <2>1. reqID \in Blocks
    BY <1>1, BlocksOfFile DEF NextBlock
  <2>2. fed' \subseteq Blocks
    BY <1>1, <2>1 DEF NextBlock, Taken
  <2> QED
    BY <1>1, <2>2, Zenon DEF NextBlock, Taken, IterKeeps, iterVars, joinVars
<1>2. CASE EmitBoundary
  <2>1. iter' = "drain" /\ file' = file
    BY <1>2 DEF EmitBoundary
  <2> QED
    BY <1>2, <2>1, EmitTypes, Zenon DEF EmitBoundary, IterKeeps, joinVars, transferVars
<1>3. CASE DrainBacklog
  <2>1. backlog' \in Seq(Boundaries) /\ boundaryCh' \in Seq(Boundaries)
        /\ Len(boundaryCh') <= BoundaryCap
    BY <1>3, MoveTypes DEF DrainBacklog
  <2> QED
    BY <1>3, <2>1, Zenon DEF DrainBacklog, IterKeeps, joinVars, transferVars
<1>4. CASE AdvanceFile
  <2>1. file \in 0 .. N
    BY <1>4 DEF IterInv, AdvanceFile
  <2>2. file' \in 0 .. N + 1
    BY <1>4, <2>1, LayoutType DEF AdvanceFile
  <2>3. iter' \in {"blocks", "drain", "end"}
    BY <1>4 DEF AdvanceFile
  <2> QED
    BY <1>4, <2>2, <2>3, Zenon DEF AdvanceFile, IterKeeps, joinVars, transferVars
<1>5. CASE FlushBoundary
  <2>1. backlog' \in Seq(Boundaries) /\ boundaryCh' \in Seq(Boundaries)
        /\ Len(boundaryCh') <= BoundaryCap
    <3>1. CASE Len(boundaryCh) < BoundaryCap /\ backlog' = Tail(backlog)
               /\ boundaryCh' = Append(boundaryCh, Head(backlog))
      BY <1>5, <3>1, MoveTypes DEF FlushBoundary
    <3>2. CASE backlog' = <<>> /\ UNCHANGED boundaryCh
      BY <3>2
    <3> QED
      BY <1>5, <3>1, <3>2, Zenon DEF FlushBoundary
  <2> QED
    BY <1>5, <2>1, Zenon DEF FlushBoundary, CloseKeeps, transferVars
<1>6. CASE CloseBoundaryCh
  <2>1. main' = "end" /\ boundaryEnd' = TRUE
    BY <1>6 DEF CloseBoundaryCh
  <2> QED
    BY <1>6, <2>1 DEF CloseBoundaryCh, CloseKeeps, transferVars
<1>7. CASE MainReturns
  BY <1>7 DEF MainReturns, CloseKeeps, transferVars
<1>8. CASE BoundaryReceived
  <2>1. dr' \in DrainerType /\ boundaryCh # <<>> /\ boundaryCh' = Tail(boundaryCh)
    BY <1>8, ReceivedStep
  <2>2. boundaryCh' \in Seq(Boundaries) /\ Len(boundaryCh') <= BoundaryCap
    <3>1. Len(boundaryCh') = Len(boundaryCh) - 1 /\ boundaryCh' \in Seq(Boundaries)
      BY <2>1
    <3> QED
      BY <3>1, CephFSAssumption
  <2> QED
    BY <1>8, <2>1, <2>2, Zenon DEF BoundaryReceived, DrainerKeeps, transferVars, iterVars, joinVars
<1>9. CASE DrainerQuiet
  <2>1. dr' \in DrainerType
    BY <1>9, EndStep, StopStep, SignalStep, Zenon DEF DrainerQuiet
  <2>2. releaseCh' \in BOOLEAN
    BY Zenon, <1>9 DEF DrainerQuiet, BoundariesEnd, StopTaking, ReleaseSignal
  <2>3. UNCHANGED <<transferVars, iterVars, boundaryEnd, joinVars, boundaryCh, commits, notified>>
    BY <1>9, Zenon DEF DrainerQuiet, BoundariesEnd, StopTaking, ReleaseSignal, DrainerKeeps
  <2> QED
    BY <2>1, <2>2, <2>3 DEF transferVars, iterVars, joinVars
<1>10. CASE TakeHead
  <2>1. dr' \in DrainerType
    BY <1>10, TakeStep
  <2> QED
    BY <1>10, <2>1, Zenon DEF TakeHead, DrainerKeeps, transferVars, iterVars, joinVars
<1>11. CASE CommitSent
  <2>1. dr' \in DrainerType /\ commits' \in [Files -> Nat]
    BY <1>11, SentStep
  <2> QED
    BY <1>11, <2>1, Zenon DEF CommitSent, DrainerKeeps, transferVars, iterVars, joinVars
<1>12. CASE CommitFails
  <2>1. dr' \in DrainerType /\ commits' \in [Files -> Nat]
    BY <1>12, CommitFailsStep
  <2> QED
    BY <1>12, <2>1, Zenon DEF CommitFails, DrainerKeeps, transferVars, iterVars, joinVars
<1>13. CASE Notify
  <2>1. dr' \in DrainerType /\ notified' \in [Files -> Nat]
    <3>1. dr.batch # <<>>
      BY <1>13 DEF Notify, ControlInv, DrainerAt
    <3> QED
      BY <1>13, <3>1, NotifyStep
  <2> QED
    BY <1>13, <2>1, Zenon DEF Notify, DrainerKeeps, transferVars, iterVars, joinVars
<1>14. CASE DrainerStops
  <2>1. dr' \in DrainerType
    BY <1>14, StoppedStep, Zenon DEF DrainerStops
  <2>2. gerr' \in BOOLEAN
    BY Zenon, <1>14 DEF DrainerStops, DrainerCancelled, DrainerFails, DrainerKeeps, joinVars
  <2>3. UNCHANGED <<transferVars, iterVars, boundaryEnd, boundaryCh, commits, notified,
                    main, cancelled, releaseCh>>
    BY <1>14, Zenon DEF DrainerStops, DrainerCancelled, DrainerFails, DrainerKeeps, joinVars
  <2> QED
    BY <2>1, <2>2, <2>3 DEF transferVars, iterVars
<1>15. CASE PipelineStep
  <2>1. fed' = fed /\ outcome' = outcome /\ stored' \subseteq Blocks /\ free' \subseteq Blocks
        /\ faulted' \in BOOLEAN /\ releaseCh' \in BOOLEAN
    <3>1. CASE PipelineFault
      BY <3>1 DEF PipelineFault, Fault
    <3>2. ASSUME NEW id \in Blocks, TransferStep(id) \/ BlockAbandoned(id)
          PROVE  /\ fed' = fed /\ outcome' = outcome /\ stored' \subseteq Blocks
                 /\ free' \subseteq Blocks /\ faulted' \in BOOLEAN /\ releaseCh' \in BOOLEAN
      BY Zenon, <3>2 DEF TransferStep, DestinationWrites, BlockAcked, BlockAbandoned, Written, Acked,
        Abandoned
    <3> QED
      BY <1>15, <3>1, <3>2, Zenon DEF PipelineStep
  <2>2. TransferKeeps /\ UNCHANGED joinVars
    BY <1>15, Zenon DEF PipelineStep, TransferStep, DestinationWrites, BlockAcked, BlockAbandoned,
      PipelineFault
  <2> QED
    BY <2>1, <2>2 DEF TransferKeeps, iterVars, joinVars
<1>16. ASSUME NEW o \in {"ok", "err"}, RunReturns(o)
       PROVE  TypeInv'
  <2>1. outcome' \in {"none", "ok", "err"} /\ main' = "close"
    BY <1>16 DEF RunReturns, Return
  <2> QED
    BY <1>16, <2>1, Zenon DEF RunReturns, Return, TransferKeeps, iterVars
<1>17. CASE CancelCaller
  BY <1>17 DEF CancelCaller, transferVars, iterVars
<1>18. CASE UNCHANGED vars
  BY <1>18, Zenon DEF vars, transferVars, iterVars, joinVars
<1> QED
  BY <1>1, <1>2, <1>3, <1>4, <1>5, <1>6, <1>7, <1>8, <1>9, <1>10, <1>11, <1>12, <1>13, <1>14,
    <1>15, <1>16, <1>17, <1>18, NextSplit, Zenon

(* Every other step leaves the iterator where it is.                       *)
IterSame == UNCHANGED <<fed, file, iter>> /\ (cancelled = TRUE => cancelled' = TRUE)

LEMMA IterSplit ==
  ASSUME [Next]_vars
  PROVE  NextBlock \/ EmitBoundary \/ AdvanceFile \/ IterSame
<1>1. CASE DrainBacklog
  BY <1>1, Zenon DEF DrainBacklog, IterSame, IterKeeps, transferVars, joinVars
<1>2. CASE FlushBoundary \/ CloseBoundaryCh \/ MainReturns
  BY <1>2, Zenon DEF FlushBoundary, CloseBoundaryCh, MainReturns, CloseKeeps, IterSame,
    transferVars
<1>3. CASE BoundaryReceived \/ DrainerQuiet \/ TakeHead \/ CommitSent \/ CommitFails \/ Notify
  BY <1>3, Zenon DEF BoundaryReceived, DrainerQuiet, BoundariesEnd, StopTaking, ReleaseSignal,
    TakeHead, CommitSent, CommitFails, Notify, DrainerKeeps, IterSame, transferVars, iterVars,
    joinVars
<1>4. CASE DrainerStops
  BY <1>4, Zenon DEF DrainerStops, DrainerCancelled, DrainerFails, DrainerKeeps, IterSame,
    transferVars, iterVars, joinVars
<1>5. CASE PipelineStep
  BY <1>5, Zenon DEF PipelineStep, TransferStep, DestinationWrites, BlockAcked, BlockAbandoned,
    PipelineFault, Written, Acked, Abandoned, Fault, TransferKeeps, IterSame, iterVars, joinVars
<1>6. CASE \E o \in {"ok", "err"} : RunReturns(o)
  BY <1>6, Zenon DEF RunReturns, Return, TransferKeeps, IterSame, iterVars
<1>7. CASE CancelCaller
  BY <1>7, Zenon DEF CancelCaller, IterSame, transferVars, iterVars
<1>8. CASE UNCHANGED vars
  BY <1>8, Zenon DEF vars, IterSame, transferVars, iterVars, joinVars
<1> QED
  BY <1>1, <1>2, <1>3, <1>4, <1>5, <1>6, <1>7, <1>8, NextSplit, Zenon

LEMMA IterNext ==
  ASSUME TypeInv, IterInv, [Next]_vars
  PROVE  IterInv'
<1>1. CASE NextBlock
  <2>1. /\ iter = "blocks" /\ iter' = iter /\ file' = file /\ file \in Files /\ cancelled' = cancelled
        /\ reqID \in FirstID[file] .. FirstID[file + 1] - 1 /\ fed' = fed \cup {reqID}
    BY <1>1 DEF NextBlock, Taken, IterKeeps, iterVars, joinVars, BlocksOf
  <2>2. reqID \in Nat /\ fed = 0 .. reqID - 1
    BY DEF IterInv
  <2>3. FirstID[file] \in Nat /\ FirstID[file + 1] \in Nat
    BY <2>1, FirstIDStep, LayoutType
  <2>4. fed' = 0 .. reqID
    BY <2>1, <2>2
  <2>5. Cardinality(0 .. reqID) = reqID + 1
    BY <2>2, FS_Interval
  <2>6. reqID' = reqID + 1
    BY <2>4, <2>5, Zenon DEF reqID
  <2>7. fed' = 0 .. reqID' - 1 /\ reqID' \in Nat
    BY <2>2, <2>4, <2>6
  <2>8. FirstID[file'] <= reqID' /\ reqID' <= FirstID[file' + 1]
    BY <2>1, <2>2, <2>3, <2>6
  <2> HIDE DEF reqID
  <2> QED
    BY <2>1, <2>7, <2>8 DEF IterInv
<1>2. CASE EmitBoundary
  <2>1. /\ iter' = "drain" /\ file' = file /\ file \in Files /\ fed' = fed
        /\ reqID = FirstID[file + 1]
    BY <1>2 DEF EmitBoundary, transferVars
  <2>2. reqID' = reqID
    BY <2>1, Zenon DEF reqID
  <2>3. file \in 0 .. N
    BY <2>1, LayoutType
  <2> QED
    BY <2>1, <2>2, <2>3 DEF IterInv
<1>3. CASE AdvanceFile
  <2>1. /\ iter = "drain" /\ file' = file + 1 /\ fed' = fed /\ cancelled' = cancelled
        /\ \/ file + 1 \in Files /\ iter' = "blocks"
           \/ file + 1 \notin Files /\ iter' = "end"
           \/ cancelled = TRUE /\ iter' = "end"
    BY <1>3 DEF AdvanceFile, transferVars, IterKeeps, joinVars, TypeInv
  <2>2. reqID' = reqID
    BY <2>1, Zenon DEF reqID
  <2>3. file \in 0 .. N /\ reqID = FirstID[file + 1] /\ reqID \in Nat /\ fed = 0 .. reqID - 1
    BY <2>1 DEF IterInv
  <2>4. file + 1 \in 1 .. N + 1 /\ (file + 1 \notin Files => file + 1 = N + 1)
    BY <2>3, LayoutType
  <2>5. file + 1 \in Files => reqID <= FirstID[file + 1 + 1] /\ FirstID[file + 1] <= reqID
    BY <2>3, FirstIDStep
  <2> HIDE DEF reqID
  <2> QED
    BY <2>1, <2>2, <2>3, <2>4, <2>5 DEF IterInv
<1>4. CASE IterSame
  BY <1>4, Zenon DEF IterInv, IterSame, reqID
<1> QED
  BY <1>1, <1>2, <1>3, <1>4, IterSplit, Zenon

LEMMA ControlNext ==
  ASSUME TypeInv, IterInv, ControlInv, [Next]_vars
  PROVE  ControlInv'
<1> USE DEF ControlInv
<1>1. CASE NextBlock
  BY <1>1, Zenon DEF NextBlock, Taken, IterKeeps, iterVars, joinVars
<1>2. CASE EmitBoundary
  <2>1. outcome = "none" /\ outcome' = outcome
    BY <1>2 DEF EmitBoundary, transferVars
  <2>2. UNCHANGED <<boundaryEnd, dr, main, gerr>>
    BY <1>2 DEF EmitBoundary, IterKeeps, joinVars
  <2>3. main = "run" /\ boundaryEnd # TRUE /\ dr.flushing # TRUE
    BY Zenon, <2>1
  <2> QED
    BY <2>1, <2>2, <2>3
<1>3. CASE DrainBacklog
  <2>1. outcome = "none" /\ outcome' = outcome
    BY <1>3 DEF DrainBacklog, transferVars
  <2>2. UNCHANGED <<boundaryEnd, dr, main, gerr, iter>>
    BY <1>3 DEF DrainBacklog, IterKeeps, joinVars
  <2>3. main = "run" /\ boundaryEnd # TRUE /\ dr.flushing # TRUE
    BY Zenon, <2>1
  <2> QED
    BY <2>1, <2>2, <2>3
<1>4. CASE AdvanceFile
  <2>1. outcome = "none" /\ outcome' = outcome
    BY <1>4 DEF AdvanceFile, transferVars
  <2>2. UNCHANGED <<boundaryEnd, dr, main, gerr, backlog, boundaryCh>>
    BY <1>4 DEF AdvanceFile, IterKeeps, joinVars
  <2> QED
    BY <2>1, <2>2
<1>5. CASE FlushBoundary
  <2>1. main = "close" /\ UNCHANGED <<boundaryEnd, dr, main, gerr, iter, outcome>>
    BY <1>5 DEF FlushBoundary, CloseKeeps, transferVars
  <2>2. boundaryEnd # TRUE /\ dr.flushing # TRUE
    BY Zenon, <2>1
  <2> QED
    BY <2>1, <2>2
<1>6. CASE CloseBoundaryCh
  <2>1. main = "close" /\ main' = "end" /\ boundaryEnd' = TRUE /\ backlog = <<>>
        /\ UNCHANGED <<backlog, boundaryCh, dr, gerr, iter, outcome>>
    BY <1>6 DEF CloseBoundaryCh, CloseKeeps, transferVars
  <2> QED
    BY <2>1
<1>7. CASE MainReturns
  <2>1. main = "end" /\ main' = "returned" /\ gerr' = (gerr \/ outcome = "err")
        /\ UNCHANGED <<backlog, boundaryCh, boundaryEnd, dr, iter, outcome>>
    BY <1>7 DEF MainReturns, CloseKeeps, transferVars
  <2>2. outcome = "err" => gerr' = TRUE
    BY Zenon, <2>1
  <2>3. gerr = TRUE => gerr' = TRUE
    BY Zenon, <2>1
  <2> HIDE DEF gctxDone
  <2> QED
    BY <2>1, <2>2, <2>3, Zenon
<1>8. CASE BoundaryReceived
  <2>1. /\ dr.pc = "run" /\ dr'.pc = "drain" /\ boundaryCh # <<>>
        /\ dr'.batch = dr.batch /\ dr'.flushing = dr.flushing
    BY <1>8, ReceivedStep
  <2>2. UNCHANGED <<boundaryEnd, main, gerr, iter, outcome, backlog>>
    BY <1>8 DEF BoundaryReceived, DrainerKeeps, transferVars, iterVars, joinVars
  <2> QED
    BY <2>1, <2>2
<1>9. CASE DrainerQuiet
  <2>1. UNCHANGED <<boundaryEnd, main, gerr, iter, outcome, backlog, boundaryCh>>
    BY <1>9, Zenon DEF DrainerQuiet, BoundariesEnd, StopTaking, ReleaseSignal, DrainerKeeps,
      transferVars, iterVars, joinVars
  <2>2. CASE BoundariesEnd
    BY <2>1, <2>2, EndStep
  <2>3. CASE StopTaking
    BY Zenon, <2>1, <2>3, StopStep
  <2>4. CASE ReleaseSignal
    BY <2>1, <2>4, SignalStep
  <2> QED
    BY <1>9, <2>2, <2>3, <2>4, Zenon DEF DrainerQuiet
<1>10. CASE TakeHead
  <2>1. UNCHANGED <<boundaryEnd, main, gerr, iter, outcome, backlog, boundaryCh>>
    BY <1>10 DEF TakeHead, DrainerKeeps, transferVars, iterVars, joinVars
  <2>2. /\ dr'.pc \in {"send", "drain"} /\ dr'.batch = Append(dr.batch, Head(dr.pending).file)
        /\ dr'.flushing = dr.flushing /\ Head(dr.pending) \in Boundaries
    BY <1>10, TakeStep
  <2>3. dr'.batch # <<>>
    <3>1. dr.batch \in Seq(Files) /\ Head(dr.pending).file \in Files
      BY <2>2, DrainerFields, BoundaryFields
    <3>2. Len(Append(dr.batch, Head(dr.pending).file)) = Len(dr.batch) + 1 /\ Len(dr.batch) \in Nat
      BY <3>1
    <3> QED
      BY <2>2, <3>2
  <2> QED
    BY <2>1, <2>2, <2>3
<1>11. CASE CommitSent
  <2>1. UNCHANGED <<boundaryEnd, main, gerr, iter, outcome, backlog, boundaryCh>>
    BY <1>11 DEF CommitSent, DrainerKeeps, transferVars, iterVars, joinVars
  <2>2. /\ dr.pc = "send" /\ dr'.pc = "notify" /\ dr'.pending = dr.pending
        /\ dr'.batch = dr.batch /\ dr'.flushing = dr.flushing
    BY <1>11, SentStep
  <2> QED
    BY <2>1, <2>2
<1>12. CASE CommitFails
  <2>1. UNCHANGED <<boundaryEnd, main, gerr, iter, outcome, backlog, boundaryCh>>
    BY <1>12 DEF CommitFails, DrainerKeeps, transferVars, iterVars, joinVars
  <2>2. dr'.pc = "fail" /\ dr'.flushing = dr.flushing
    BY <1>12, CommitFailsStep
  <2> QED
    BY <2>1, <2>2
<1>13. CASE Notify
  <2>1. UNCHANGED <<boundaryEnd, main, gerr, iter, outcome, backlog, boundaryCh>>
    BY <1>13 DEF Notify, DrainerKeeps, transferVars, iterVars, joinVars
  <2>2. dr.batch # <<>>
    BY <1>13 DEF Notify, DrainerAt
  <2>3. /\ dr'.pc \in {"notify", "drain"} /\ (dr'.pc = "notify" => dr'.batch # <<>>)
        /\ dr'.flushing = dr.flushing
    BY Zenon, <1>13, <2>2, NotifyStep
  <2> QED
    BY <2>1, <2>3
<1>14. CASE DrainerStops
  <2>1. UNCHANGED <<boundaryEnd, main, iter, outcome, backlog, boundaryCh>>
        /\ (gerr = TRUE => gerr' = TRUE)
    BY <1>14, Zenon DEF DrainerStops, DrainerCancelled, DrainerFails, DrainerKeeps,
      transferVars, iterVars, joinVars
  <2>2. /\ dr'.flushing = dr.flushing /\ dr'.pc \in {"fail", "failed"}
        /\ dr'.pc = "failed" => gerr' = TRUE
    BY <1>14, StoppedStep, Zenon DEF DrainerStops
  <2> QED
    BY <2>1, <2>2
<1>15. CASE PipelineStep
  <2>1. UNCHANGED <<boundaryEnd, main, gerr, dr, iter, outcome, backlog, boundaryCh>>
    BY <1>15, Zenon DEF PipelineStep, TransferStep, DestinationWrites, BlockAcked, BlockAbandoned,
      PipelineFault, Written, Acked, Abandoned, Fault, TransferKeeps, iterVars, joinVars
  <2> QED
    BY <2>1, Zenon
<1>16. ASSUME NEW o \in {"ok", "err"}, RunReturns(o)
       PROVE  ControlInv'
  <2>1. /\ main = "run" /\ main' = "close" /\ outcome' = o /\ (o = "ok" => iter = "end")
        /\ UNCHANGED <<boundaryEnd, gerr, dr, iter, backlog, boundaryCh>>
    BY <1>16 DEF RunReturns, Return, TransferKeeps, iterVars
  <2> QED
    BY <2>1
<1>17. CASE CancelCaller
  BY <1>17, Zenon DEF CancelCaller, transferVars, iterVars
<1>18. CASE UNCHANGED vars
  BY <1>18, Zenon DEF vars, transferVars, iterVars, joinVars
<1> QED
  BY <1>1, <1>2, <1>3, <1>4, <1>5, <1>6, <1>7, <1>8, <1>9, <1>10, <1>11, <1>12, <1>13, <1>14,
    <1>15, <1>16, <1>17, <1>18, NextSplit, Zenon

-----------------------------------------------------------------------------
(* How the steps move the boundaries.                                      *)
PlacesSame == UNCHANGED <<backlog, boundaryCh>> /\ dr'.pending = dr.pending /\ dr'.batch = dr.batch
PassedSame == \A f \in Files : Passed(f)' <=> Passed(f)

LEMMA PlaceTypes ==
  ASSUME TypeInv
  PROVE  /\ FilesIn(backlog) \subseteq Files /\ FilesIn(boundaryCh) \subseteq Files
         /\ FilesIn(dr.pending) \subseteq Files /\ InBatch \subseteq Files
         /\ Waiting \subseteq Files
<1>1. backlog \in Seq(Boundaries) /\ boundaryCh \in Seq(Boundaries)
      /\ dr.pending \in Seq(Boundaries) /\ dr.batch \in Seq(Files)
  BY DrainerFields DEF TypeInv
<1>2. FilesIn(backlog) \subseteq Files /\ FilesIn(boundaryCh) \subseteq Files
      /\ FilesIn(dr.pending) \subseteq Files
  BY <1>1, FilesInRange
<1>3. InBatch \subseteq Files
  BY <1>1 DEF InBatch, Range
<1> QED
  BY <1>2, <1>3 DEF Waiting

LEMMA SamePlaces ==
  ASSUME TypeInv, PlaceInv, PlacesSame, PassedSame
  PROVE  PlaceInv' /\ Waiting' = Waiting /\ InBatch' = InBatch
<1>1. Waiting' = Waiting /\ InBatch' = InBatch
  BY Zenon DEF PlacesSame, Waiting, InBatch
<1>2. \A f \in Waiting \cup InBatch : Passed(f)'
  BY PlaceTypes, Zenon DEF PlaceInv, PassedSame
<1> QED
  BY <1>1, <1>2, Zenon DEF PlaceInv, PlacesSame

(* A boundary goes from the backlog into the channel.                      *)
LEMMA MovePlaces ==
  ASSUME TypeInv, PlaceInv, PassedSame, backlog # <<>>, dr' = dr,
         boundaryCh' = Append(boundaryCh, Head(backlog)), backlog' = Tail(backlog)
  PROVE  PlaceInv' /\ Waiting' = Waiting /\ InBatch' = InBatch
<1> DEFINE f == Head(backlog).file
<1>1. backlog \in Seq(Boundaries) /\ boundaryCh \in Seq(Boundaries)
  BY DEF TypeInv
<1>2. /\ Distinct(backlog') /\ FilesIn(backlog)' = FilesIn(backlog) \ {f}
      /\ Head(backlog) \in Boundaries /\ f \in FilesIn(backlog)
  BY <1>1, TailFiles DEF PlaceInv
<1>3. f \notin FilesIn(boundaryCh) /\ f \notin FilesIn(dr.pending)
  BY <1>2 DEF PlaceInv
<1>4. Distinct(boundaryCh') /\ FilesIn(boundaryCh)' = FilesIn(boundaryCh) \cup {f}
  BY <1>1, <1>2, <1>3, AppendFiles DEF PlaceInv
<1> HIDE DEF f
<1>5. FilesIn(dr.pending)' = FilesIn(dr.pending) /\ InBatch' = InBatch
  BY Zenon DEF InBatch
<1>6. Waiting' = Waiting
  BY <1>2, <1>4, <1>5 DEF Waiting
<1>7. \A g \in (Waiting \cup InBatch)' : Passed(g)'
  BY <1>5, <1>6, PlaceTypes, Zenon DEF PlaceInv, PassedSame
<1>8. /\ (FilesIn(backlog) \cap FilesIn(boundaryCh) = {})'
      /\ (FilesIn(backlog) \cap FilesIn(dr.pending) = {})'
      /\ (FilesIn(boundaryCh) \cap FilesIn(dr.pending) = {})'
  BY <1>2, <1>3, <1>4, <1>5 DEF PlaceInv
<1>9. (Waiting \cap InBatch = {})'
  BY <1>5, <1>6 DEF PlaceInv
<1> QED
  BY <1>2, <1>4, <1>5, <1>6, <1>7, <1>8, <1>9, Zenon DEF PlaceInv

(* The drainer receives one.                                               *)
LEMMA ReceivePlaces ==
  ASSUME TypeInv, PlaceInv, PassedSame, BoundaryReceived
  PROVE  PlaceInv' /\ Waiting' = Waiting /\ InBatch' = InBatch
<1> DEFINE f == Head(boundaryCh).file
<1>1. boundaryCh \in Seq(Boundaries) /\ dr.pending \in Seq(Boundaries)
  BY DrainerFields DEF TypeInv
<1>2. /\ dr'.pending = Append(dr.pending, Head(boundaryCh)) /\ dr'.batch = dr.batch
      /\ boundaryCh # <<>> /\ boundaryCh' = Tail(boundaryCh)
  BY ReceivedStep
<1>3. /\ Distinct(boundaryCh') /\ FilesIn(boundaryCh)' = FilesIn(boundaryCh) \ {f}
      /\ Head(boundaryCh) \in Boundaries /\ f \in FilesIn(boundaryCh)
  BY <1>1, <1>2, TailFiles DEF PlaceInv
<1>4. f \notin FilesIn(backlog) /\ f \notin FilesIn(dr.pending)
  BY <1>3 DEF PlaceInv
<1>5. Distinct(dr'.pending) /\ FilesIn(dr.pending)' = FilesIn(dr.pending) \cup {f}
  BY <1>1, <1>2, <1>3, <1>4, AppendFiles DEF PlaceInv
<1> HIDE DEF f
<1>6. backlog' = backlog
  BY DEF BoundaryReceived, DrainerKeeps, iterVars
<1>7. FilesIn(backlog)' = FilesIn(backlog) /\ InBatch' = InBatch
  BY <1>2, <1>6, Zenon DEF InBatch
<1>8. Waiting' = Waiting
  BY <1>3, <1>5, <1>7 DEF Waiting
<1>9. \A g \in (Waiting \cup InBatch)' : Passed(g)'
  BY <1>7, <1>8, PlaceTypes, Zenon DEF PlaceInv, PassedSame
<1>10. /\ (FilesIn(backlog) \cap FilesIn(boundaryCh) = {})'
       /\ (FilesIn(backlog) \cap FilesIn(dr.pending) = {})'
       /\ (FilesIn(boundaryCh) \cap FilesIn(dr.pending) = {})'
  BY <1>3, <1>4, <1>5, <1>7 DEF PlaceInv
<1>11. (Waiting \cap InBatch = {})'
  BY <1>7, <1>8 DEF PlaceInv
<1> QED
  BY <1>2, <1>3, <1>5, <1>6, <1>7, <1>8, <1>9, <1>10, <1>11, Zenon DEF PlaceInv

(* It takes the head for the batch.                                        *)
LEMMA TakePlaces ==
  ASSUME TypeInv, PlaceInv, PassedSame, TakeHead,
         NEW f, f = Head(dr.pending).file
  PROVE  /\ PlaceInv' /\ Waiting' = Waiting \ {f} /\ InBatch' = InBatch \cup {f}
         /\ f \in Waiting /\ f \in Files
<1>1. dr.pending \in Seq(Boundaries) /\ dr.batch \in Seq(Files)
  BY DrainerFields
<1>2. /\ dr'.pending = Tail(dr.pending) /\ dr'.batch = Append(dr.batch, f)
      /\ dr.pending # <<>>
  BY TakeStep
<1>3. /\ Distinct(dr'.pending) /\ FilesIn(dr.pending)' = FilesIn(dr.pending) \ {f}
      /\ f \in FilesIn(dr.pending)
  BY <1>1, <1>2, TailFiles DEF PlaceInv
<1>4. f \in Waiting /\ f \in Files /\ f \notin InBatch
  BY <1>3, PlaceTypes DEF PlaceInv, Waiting
<1>5. Distinct(dr'.batch) /\ InBatch' = InBatch \cup {f}
  BY <1>1, <1>2, <1>4, AppendDistinct DEF PlaceInv, InBatch
<1>6. backlog' = backlog /\ boundaryCh' = boundaryCh
  BY DEF TakeHead, DrainerKeeps, iterVars
<1>7. FilesIn(backlog)' = FilesIn(backlog) /\ FilesIn(boundaryCh)' = FilesIn(boundaryCh)
  BY <1>6, Zenon
<1>8. Waiting' = Waiting \ {f}
  BY <1>3, <1>7 DEF Waiting, PlaceInv
<1>9. \A g \in (Waiting \cup InBatch)' : Passed(g)'
  BY <1>4, <1>5, <1>8, PlaceTypes, Zenon DEF PlaceInv, PassedSame
<1>10. /\ (FilesIn(backlog) \cap FilesIn(boundaryCh) = {})'
       /\ (FilesIn(backlog) \cap FilesIn(dr.pending) = {})'
       /\ (FilesIn(boundaryCh) \cap FilesIn(dr.pending) = {})'
  BY <1>3, <1>7 DEF PlaceInv
<1>11. (Waiting \cap InBatch = {})'
  BY <1>5, <1>8 DEF PlaceInv
<1> QED
  BY <1>3, <1>4, <1>5, <1>6, <1>8, <1>9, <1>10, <1>11, Zenon DEF PlaceInv

(* A committed file is announced.                                          *)
LEMMA NotifyPlaces ==
  ASSUME TypeInv, PlaceInv, PassedSame, Notify, dr.batch # <<>>,
         NEW f, f = Head(dr.batch)
  PROVE  /\ PlaceInv' /\ Waiting' = Waiting /\ InBatch' = InBatch \ {f}
         /\ f \in InBatch /\ f \in Files
<1>1. dr.batch \in Seq(Files)
  BY DrainerFields
<1>2. dr'.batch = Tail(dr.batch) /\ dr'.pending = dr.pending
  BY NotifyStep
<1>3. Distinct(dr'.batch) /\ InBatch' = InBatch \ {f} /\ f \in InBatch /\ f \in Files
  BY <1>1, <1>2, TailDistinct DEF PlaceInv, InBatch
<1>4. backlog' = backlog /\ boundaryCh' = boundaryCh
  BY DEF Notify, DrainerKeeps, iterVars
<1>5. Waiting' = Waiting
  BY <1>2, <1>4, Zenon DEF Waiting
<1>6. \A g \in (Waiting \cup InBatch)' : Passed(g)'
  BY <1>3, <1>5, PlaceTypes, Zenon DEF PlaceInv, PassedSame
<1>7. (Waiting \cap InBatch = {})'
  BY <1>3, <1>5 DEF PlaceInv
<1> QED
  BY <1>2, <1>3, <1>4, <1>5, <1>6, <1>7, Zenon DEF PlaceInv

(* Close drops the backlog of a cancelled caller.                          *)
LEMMA DropPlaces ==
  ASSUME TypeInv, PlaceInv, PassedSame, dr' = dr, backlog' = <<>>, boundaryCh' = boundaryCh
  PROVE  PlaceInv' /\ Waiting' \subseteq Waiting /\ InBatch' = InBatch
<1>1. FilesIn(backlog)' = {} /\ Distinct(backlog')
  BY DEF FilesIn, Distinct
<1>2. FilesIn(boundaryCh)' = FilesIn(boundaryCh) /\ FilesIn(dr.pending)' = FilesIn(dr.pending)
      /\ InBatch' = InBatch
  BY Zenon DEF InBatch
<1>3. Waiting' \subseteq Waiting
  BY <1>1, <1>2 DEF Waiting
<1>4. \A g \in (Waiting \cup InBatch)' : Passed(g)'
  BY <1>2, <1>3, PlaceTypes, Zenon DEF PlaceInv, PassedSame
<1>5. (Waiting \cap InBatch = {})'
  BY <1>2, <1>3 DEF PlaceInv
<1>6. /\ (FilesIn(backlog) \cap FilesIn(boundaryCh) = {})'
      /\ (FilesIn(backlog) \cap FilesIn(dr.pending) = {})'
      /\ (FilesIn(boundaryCh) \cap FilesIn(dr.pending) = {})'
  BY <1>1, <1>2 DEF PlaceInv
<1> QED
  BY <1>1, <1>2, <1>3, <1>4, <1>5, <1>6, Zenon DEF PlaceInv

(* The iterator is through with a file: its boundary is added, unless it   *)
(* had no blocks.                                                          *)
LEMMA EmitPlaces ==
  ASSUME TypeInv, PlaceInv, EmitBoundary
  PROVE  /\ PlaceInv' /\ InBatch' = InBatch /\ file \in Files /\ ~Passed(file)
         /\ \A f \in Files : Passed(f)' <=> Passed(f) \/ f = file
         /\ Waiting \subseteq Waiting' /\ Waiting' \subseteq Waiting \cup {file}
         /\ BlocksOf(file) # {} => file \in Waiting'
<1>1. file \in Files /\ iter = "blocks" /\ iter' = "drain" /\ file' = file /\ dr' = dr
  BY DEF EmitBoundary, IterKeeps
<1>2. ~Passed(file) /\ \A f \in Files : Passed(f)' <=> Passed(f) \/ f = file
  BY <1>1, LayoutType DEF Passed
<1>3. file \notin Waiting /\ file \notin InBatch
  BY <1>2 DEF PlaceInv
<1>4. backlog \in Seq(Boundaries) /\ boundaryCh \in Seq(Boundaries)
  BY DEF TypeInv
<1>5. Boundary(file) \in Boundaries /\ Boundary(file).file = file
  BY <1>1, BoundaryFields
<1>6. FilesIn(dr.pending)' = FilesIn(dr.pending) /\ InBatch' = InBatch
  BY <1>1, Zenon DEF InBatch
<1>7. /\ Distinct(backlog') /\ Distinct(boundaryCh')
      /\ FilesIn(backlog) \subseteq FilesIn(backlog)'
      /\ FilesIn(boundaryCh) \subseteq FilesIn(boundaryCh)'
      /\ FilesIn(backlog)' \subseteq FilesIn(backlog) \cup {file}
      /\ FilesIn(boundaryCh)' \subseteq FilesIn(boundaryCh) \cup {file}
      /\ (file \notin FilesIn(backlog)' \/ file \notin FilesIn(boundaryCh)')
      /\ BlocksOf(file) # {} => file \in FilesIn(backlog)' \cup FilesIn(boundaryCh)'
  <2>1. file \notin FilesIn(backlog) /\ file \notin FilesIn(boundaryCh)
    BY <1>3 DEF Waiting
  <2>2. CASE BlocksOf(file) = {} /\ UNCHANGED <<boundaryCh, backlog>>
    <3>1. FilesIn(backlog)' = FilesIn(backlog) /\ FilesIn(boundaryCh)' = FilesIn(boundaryCh)
      BY <2>2, Zenon
    <3> QED
      BY <2>1, <2>2, <3>1, Zenon DEF PlaceInv
  <2>3. CASE boundaryCh' = Append(boundaryCh, Boundary(file)) /\ UNCHANGED backlog
    <3>1. Distinct(boundaryCh') /\ FilesIn(boundaryCh)' = FilesIn(boundaryCh) \cup {file}
      BY <1>4, <1>5, <2>1, <2>3, AppendFiles DEF PlaceInv
    <3>2. FilesIn(backlog)' = FilesIn(backlog)
      BY <2>3, Zenon
    <3> QED
      BY <2>1, <2>3, <3>1, <3>2, Zenon DEF PlaceInv
  <2>4. CASE backlog' = Append(backlog, Boundary(file)) /\ UNCHANGED boundaryCh
    <3>1. Distinct(backlog') /\ FilesIn(backlog)' = FilesIn(backlog) \cup {file}
      BY <1>4, <1>5, <2>1, <2>4, AppendFiles DEF PlaceInv
    <3>2. FilesIn(boundaryCh)' = FilesIn(boundaryCh)
      BY <2>4, Zenon
    <3> QED
      BY <2>1, <2>4, <3>1, <3>2, Zenon DEF PlaceInv
  <2> QED
    BY <2>2, <2>3, <2>4, Zenon DEF EmitBoundary
<1>8. /\ Waiting \subseteq Waiting' /\ Waiting' \subseteq Waiting \cup {file}
      /\ BlocksOf(file) # {} => file \in Waiting'
  BY <1>6, <1>7, Zenon DEF Waiting
<1>9. \A g \in (Waiting \cup InBatch)' : Passed(g)'
  BY <1>1, <1>2, <1>6, <1>8, PlaceTypes, Zenon DEF PlaceInv
<1>10. (Waiting \cap InBatch = {})'
  BY <1>3, <1>6, <1>8, Zenon DEF PlaceInv
<1>11. /\ (FilesIn(backlog) \cap FilesIn(boundaryCh) = {})'
       /\ (FilesIn(backlog) \cap FilesIn(dr.pending) = {})'
       /\ (FilesIn(boundaryCh) \cap FilesIn(dr.pending) = {})'
  BY <1>3, <1>6, <1>7 DEF PlaceInv, Waiting
<1> QED
  BY <1>1, <1>2, <1>6, <1>7, <1>8, <1>9, <1>10, <1>11, Zenon DEF PlaceInv

-----------------------------------------------------------------------------
(* The steps that move no boundary and commit nothing.                     *)
Quiet ==
  /\ PlacesSame /\ PassedSame
  /\ UNCHANGED <<commits, notified>>
  /\ dr'.pc \in Collecting => dr.pc \in Collecting
  /\ dr'.pc = "notify" => dr.pc = "notify"
  /\ Healthy' => Healthy

LEMMA QuietSteps ==
  ASSUME TypeInv, IterInv, ControlInv,
         \/ NextBlock \/ AdvanceFile \/ CloseBoundaryCh \/ MainReturns
         \/ DrainerQuiet \/ DrainerStops \/ PipelineStep
         \/ (\E o \in {"ok", "err"} : RunReturns(o)) \/ CancelCaller \/ UNCHANGED vars
  PROVE  Quiet
<1>1. ASSUME UNCHANGED <<backlog, boundaryCh, dr, file, iter, commits, notified>>,
             Healthy' => Healthy
      PROVE  Quiet
  BY <1>1, Zenon DEF Quiet, PlacesSame, PassedSame, Passed
<1>2. ASSUME UNCHANGED <<backlog, boundaryCh, dr, file, iter, commits, notified, gerr, cancelled>>
      PROVE  Quiet
  <2>1. Healthy' => Healthy
    BY <1>2, Zenon DEF Healthy
  <2> QED
    BY <1>1, <1>2, <2>1, Zenon
<1>3. CASE NextBlock
  BY <1>2, <1>3, Zenon DEF NextBlock, Taken, IterKeeps, iterVars, joinVars
<1>4. CASE AdvanceFile
  <2>1. UNCHANGED <<backlog, boundaryCh, dr, commits, notified, gerr, cancelled>>
    BY <1>4 DEF AdvanceFile, IterKeeps, joinVars
  <2>2. file' = file + 1 /\ iter = "drain" /\ iter' # "drain" /\ file \in 0 .. N
    BY <1>4 DEF AdvanceFile, IterInv
  <2>3. PassedSame
    BY <2>2, LayoutType DEF PassedSame, Passed
  <2>4. Healthy' => Healthy
    BY <2>1, Zenon DEF Healthy
  <2> QED
    BY <2>1, <2>3, <2>4, Zenon DEF Quiet, PlacesSame
<1>5. CASE CloseBoundaryCh
  BY <1>2, <1>5, Zenon DEF CloseBoundaryCh, CloseKeeps
<1>6. CASE MainReturns
  <2>1. UNCHANGED <<backlog, boundaryCh, dr, file, iter, commits, notified, cancelled>>
    BY <1>6 DEF MainReturns, CloseKeeps
  <2>2. gerr' = FALSE => gerr = FALSE
    BY <1>6 DEF MainReturns, TypeInv
  <2>3. Healthy' => Healthy
    BY <2>1, <2>2, Zenon DEF Healthy
  <2> QED
    BY <1>1, <2>1, <2>3, Zenon
<1>7. CASE DrainerQuiet
  <2>1. UNCHANGED <<backlog, boundaryCh, file, iter, commits, notified, gerr, cancelled>>
    BY <1>7, Zenon DEF DrainerQuiet, BoundariesEnd, StopTaking, ReleaseSignal, DrainerKeeps,
      iterVars, joinVars
  <2>2. /\ dr'.pending = dr.pending /\ dr'.batch = dr.batch
        /\ dr.pc \in {"run", "drain", "wait"} /\ dr'.pc # "notify"
    BY Zenon, <1>7, EndStep, StopStep, SignalStep DEF DrainerQuiet
  <2>3. dr.pc \in Collecting /\ dr.pc # "fail"
    BY <2>2 DEF Collecting
  <2>4. Healthy' => Healthy
    BY <2>1, <2>3, Zenon DEF Healthy
  <2>5. PassedSame
    BY <2>1, Zenon DEF PassedSame, Passed
  <2> QED
    BY <2>1, <2>2, <2>3, <2>4, <2>5, Zenon DEF Quiet, PlacesSame
<1>8. CASE DrainerStops
  <2>1. UNCHANGED <<backlog, boundaryCh, file, iter, commits, notified, cancelled>>
        /\ (gerr = TRUE => gerr' = TRUE)
    BY <1>8, Zenon DEF DrainerStops, DrainerCancelled, DrainerFails, DrainerKeeps, iterVars,
      joinVars
  <2>2. /\ dr'.pending = dr.pending /\ dr'.batch = dr.batch
        /\ dr'.pc \in {"fail", "failed"} /\ (dr'.pc = "failed" => gerr' = TRUE)
    BY <1>8, StoppedStep, Zenon DEF DrainerStops
  <2>3. dr'.pc \notin Collecting /\ dr'.pc # "notify"
    BY <2>2 DEF Collecting
  <2>4. ~Healthy'
    BY <2>2 DEF Healthy
  <2>5. PassedSame
    BY <2>1, Zenon DEF PassedSame, Passed
  <2> QED
    BY <2>1, <2>2, <2>3, <2>4, <2>5, Zenon DEF Quiet, PlacesSame
<1>9. CASE PipelineStep
  <2>1. UNCHANGED <<backlog, boundaryCh, dr, file, iter, commits, notified, gerr, cancelled>>
    BY <1>9, Zenon DEF PipelineStep, TransferStep, DestinationWrites, BlockAcked, BlockAbandoned,
      PipelineFault, TransferKeeps, iterVars, joinVars
  <2> QED
    BY <1>2, <2>1, Zenon
<1>10. CASE \E o \in {"ok", "err"} : RunReturns(o)
  <2>1. UNCHANGED <<backlog, boundaryCh, dr, file, iter, commits, notified, gerr, cancelled>>
    BY <1>10, Zenon DEF RunReturns, TransferKeeps, iterVars
  <2> QED
    BY <1>2, <2>1, Zenon
<1>11. CASE CancelCaller
  <2>1. UNCHANGED <<backlog, boundaryCh, dr, file, iter, commits, notified>> /\ cancelled' = TRUE
    BY <1>11 DEF CancelCaller, iterVars
  <2>2. ~Healthy'
    BY <2>1 DEF Healthy
  <2> QED
    BY <1>1, <2>1, <2>2, Zenon
<1>12. CASE UNCHANGED vars
  BY <1>2, <1>12, Zenon DEF vars, iterVars, joinVars
<1> QED
  BY <1>3, <1>4, <1>5, <1>6, <1>7, <1>8, <1>9, <1>10, <1>11, <1>12, Zenon

LEMMA QuietKeeps ==
  ASSUME TypeInv, PlaceInv, CommitInv, KeptInv, Quiet
  PROVE  PlaceInv' /\ CommitInv' /\ KeptInv' /\ InBatch' = InBatch
<1>1. PlaceInv' /\ Waiting' = Waiting /\ InBatch' = InBatch
  BY SamePlaces, Zenon DEF Quiet
<1>2. CommitInv'
  BY <1>1, Zenon DEF CommitInv, Quiet, PassedSame
<1>3. KeptInv'
  BY <1>1, Zenon DEF KeptInv, Quiet, PassedSame
<1> QED
  BY <1>1, <1>2, <1>3

(* The steps that move boundaries and keep all of them.                    *)
LEMMA MovedKeeps ==
  ASSUME CommitInv, KeptInv, PassedSame, UNCHANGED <<commits, notified>>,
         Waiting' = Waiting, InBatch' = InBatch, Healthy' => Healthy,
         dr'.pc \in Collecting => dr.pc \in Collecting,
         dr'.pc = "notify" => dr.pc = "notify"
  PROVE  CommitInv' /\ KeptInv'
<1>1. CommitInv'
  BY Zenon DEF CommitInv, PassedSame
<1>2. KeptInv'
  BY Zenon DEF KeptInv, PassedSame
<1> QED
  BY <1>1, <1>2

LEMMA PlacesNext ==
  ASSUME TypeInv, IterInv, ControlInv, PlaceInv, CommitInv, KeptInv, [Next]_vars
  PROVE  PlaceInv' /\ CommitInv' /\ KeptInv'
<1> DEFINE Goal == PlaceInv' /\ CommitInv' /\ KeptInv'
<1>1. CASE \/ NextBlock \/ AdvanceFile \/ CloseBoundaryCh \/ MainReturns
           \/ DrainerQuiet \/ DrainerStops \/ PipelineStep
           \/ (\E o \in {"ok", "err"} : RunReturns(o)) \/ CancelCaller \/ UNCHANGED vars
  <2>1. Quiet
    BY <1>1, QuietSteps, Zenon
  <2> QED
    BY <2>1, QuietKeeps, Zenon
<1>2. CASE EmitBoundary
  <2>1. /\ PlaceInv' /\ InBatch' = InBatch /\ file \in Files /\ ~Passed(file)
        /\ \A f \in Files : Passed(f)' <=> Passed(f) \/ f = file
        /\ Waiting \subseteq Waiting' /\ Waiting' \subseteq Waiting \cup {file}
        /\ BlocksOf(file) # {} => file \in Waiting'
    BY <1>2, EmitPlaces
  <2>2. UNCHANGED <<commits, notified, dr, gerr, cancelled, file>>
    BY <1>2 DEF EmitBoundary, IterKeeps, joinVars
  <2>3. \A f \in Files : commits[f] > 0 => f # file
    BY <2>1, Zenon DEF CommitInv
  <2>4. CommitInv'
    BY <2>1, <2>2, <2>3, Zenon DEF CommitInv
  <2>5. Healthy' => Healthy
    BY <2>2, Zenon DEF Healthy
  <2>6. KeptInv'
    BY <2>1, <2>2, <2>5, Zenon DEF KeptInv
  <2> QED
    BY <2>1, <2>4, <2>6
<1>3. CASE DrainBacklog \/ FlushBoundary
  <2>1. UNCHANGED <<dr, commits, notified, file, iter, gerr, cancelled>> /\ backlog # <<>>
    BY <1>3, Zenon DEF DrainBacklog, FlushBoundary, IterKeeps, CloseKeeps, joinVars
  <2>2. PassedSame
    BY <2>1, Zenon DEF PassedSame, Passed
  <2>3. Healthy' => Healthy
    BY <2>1, Zenon DEF Healthy
  <2>4. CASE boundaryCh' = Append(boundaryCh, Head(backlog)) /\ backlog' = Tail(backlog)
    <3>1. PlaceInv' /\ Waiting' = Waiting /\ InBatch' = InBatch
      BY <2>1, <2>2, <2>4, MovePlaces
    <3> QED
      BY <2>1, <2>2, <2>3, <3>1, MovedKeeps, Zenon
  <2>5. CASE cancelled /\ backlog' = <<>> /\ UNCHANGED boundaryCh
    <3>1. PlaceInv' /\ Waiting' \subseteq Waiting /\ InBatch' = InBatch
      BY <2>1, <2>2, <2>5, DropPlaces
    <3>2. CommitInv'
      BY <2>1, <2>2, <3>1, Zenon DEF CommitInv, PassedSame
    <3>3. ~Healthy'
      BY <2>1, <2>5 DEF Healthy
    <3> QED
      BY <3>1, <3>2, <3>3, Zenon DEF KeptInv
  <2> QED
    BY <1>3, <2>4, <2>5, Zenon DEF DrainBacklog, FlushBoundary
<1> HIDE DEF Goal
<1>4. CASE BoundaryReceived \/ TakeHead \/ CommitSent \/ CommitFails \/ Notify
  <2>1. UNCHANGED <<file, iter, gerr, cancelled>>
    BY <1>4, Zenon DEF BoundaryReceived, TakeHead, CommitSent, CommitFails, Notify, DrainerKeeps,
      iterVars, joinVars
  <2>2. PassedSame
    BY <2>1, Zenon DEF PassedSame, Passed
  <2>3. CASE BoundaryReceived
    <3>1. PlaceInv' /\ Waiting' = Waiting /\ InBatch' = InBatch
      BY <2>2, <2>3, ReceivePlaces
    <3>2. dr.pc = "run" /\ dr'.pc = "drain"
      BY <2>3, ReceivedStep
    <3>3. dr.pc \in Collecting /\ dr'.pc # "notify"
      BY <3>2 DEF Collecting
    <3>4. Healthy' => Healthy
      BY <2>1, <3>2 DEF Healthy
    <3>5. UNCHANGED <<commits, notified>>
      BY <2>3 DEF BoundaryReceived
    <3> QED
      BY <2>2, <3>1, <3>3, <3>4, <3>5, MovedKeeps, Zenon DEF Goal
  <2>4. CASE TakeHead
    <3> DEFINE f == Head(dr.pending).file
    <3>1. /\ PlaceInv' /\ Waiting' = Waiting \ {f} /\ InBatch' = InBatch \cup {f}
          /\ f \in Waiting /\ f \in Files
      BY <2>2, <2>4, TakePlaces
    <3> HIDE DEF f
    <3>2. dr.pc = "drain" /\ dr'.pc # "notify"
      BY <2>4, TakeStep
    <3>3. dr.pc \in Collecting
      BY <3>2 DEF Collecting
    <3>4. UNCHANGED <<commits, notified>>
      BY <2>4 DEF TakeHead
    <3>5. commits[f] = 0
      <4>1. commits[f] \in Nat /\ ~(commits[f] > 0)
        BY <3>1 DEF TypeInv, CommitInv
      <4> QED
        BY <4>1
    <3>6. CommitInv'
      BY <2>2, <3>1, <3>2, <3>3, <3>4, <3>5, Zenon DEF CommitInv, PassedSame
    <3>7. Healthy' => Healthy
      BY <2>1, <3>2 DEF Healthy
    <3>8. KeptInv'
      BY <2>2, <3>1, <3>4, <3>7, Zenon DEF KeptInv, PassedSame
    <3> QED
      BY <3>1, <3>6, <3>8 DEF Goal
  <2>5. CASE CommitSent
    <3>1. /\ dr.pc = "send" /\ dr'.pc = "notify" /\ dr'.pending = dr.pending
          /\ dr'.batch = dr.batch
          /\ \A f \in Files : commits'[f] = IF f \in InBatch THEN commits[f] + 1 ELSE commits[f]
      BY <2>5, SentStep
    <3>2. backlog' = backlog /\ boundaryCh' = boundaryCh /\ notified' = notified
      BY <2>5 DEF CommitSent, DrainerKeeps, iterVars
    <3>3. PlaceInv' /\ Waiting' = Waiting /\ InBatch' = InBatch
      BY <2>2, <3>1, <3>2, SamePlaces, Zenon DEF PlacesSame
    <3>4. \A f \in InBatch : f \in Files /\ commits[f] = 0
      BY <3>1, PlaceTypes DEF CommitInv, Collecting
    <3>5. \A f \in Files : notified[f] \in Nat /\ commits[f] \in Nat
      BY DEF TypeInv
    <3>6. \A f \in Files : notified'[f] <= commits'[f] /\ commits'[f] <= 1
      BY <3>1, <3>2, <3>4, <3>5 DEF CommitInv
    <3>7. \A f \in InBatch : commits'[f] = 1 /\ notified'[f] = 0
      BY <3>1, <3>2, <3>4, <3>5 DEF CommitInv
    <3>8. \A f \in Files : commits'[f] > 0 => Passed(f) /\ f \notin Waiting
      BY <3>1, PlaceTypes DEF CommitInv, PlaceInv
    <3>9. dr'.pc \notin Collecting
      BY <3>1 DEF Collecting
    <3>10. CommitInv'
      BY <2>2, <3>3, <3>6, <3>7, <3>8, <3>9, Zenon DEF CommitInv, PassedSame
    <3>11. Healthy' => Healthy
      BY <2>1, <3>1 DEF Healthy
    <3>12. KeptInv'
      BY <2>2, <3>2, <3>3, <3>11, Zenon DEF KeptInv, PassedSame
    <3> QED
      BY <3>3, <3>10, <3>12 DEF Goal
  <2>6. CASE CommitFails
    <3>1. /\ dr.pc = "send" /\ dr'.pc = "fail" /\ dr'.pending = dr.pending
          /\ dr'.batch = dr.batch
          /\ \A f \in Files : commits'[f] = commits[f]
                              \/ (f \in InBatch /\ commits'[f] = commits[f] + 1)
      BY <2>6, CommitFailsStep
    <3>2. backlog' = backlog /\ boundaryCh' = boundaryCh /\ notified' = notified
      BY <2>6 DEF CommitFails, DrainerKeeps, iterVars
    <3>3. PlaceInv' /\ Waiting' = Waiting /\ InBatch' = InBatch
      BY <2>2, <3>1, <3>2, SamePlaces, Zenon DEF PlacesSame
    <3>4. \A f \in InBatch : f \in Files /\ commits[f] = 0
      BY <3>1, PlaceTypes DEF CommitInv, Collecting
    <3>5. \A f \in Files : notified[f] \in Nat /\ commits[f] \in Nat
      BY DEF TypeInv
    <3>6. \A f \in Files : notified'[f] <= commits'[f] /\ commits'[f] <= 1
      BY <3>1, <3>2, <3>4, <3>5 DEF CommitInv
    <3>7. \A f \in Files : commits'[f] > 0 => Passed(f) /\ f \notin Waiting
      BY <3>1, PlaceTypes DEF CommitInv, PlaceInv
    <3>8. dr'.pc \notin Collecting /\ dr'.pc # "notify" /\ ~Healthy'
      BY <3>1 DEF Collecting, Healthy
    <3>9. CommitInv'
      BY <2>2, <3>3, <3>6, <3>7, <3>8, Zenon DEF CommitInv, PassedSame
    <3> QED
      BY <3>3, <3>8, <3>9, Zenon DEF Goal, KeptInv
  <2>7. CASE Notify
    <3> DEFINE f == Head(dr.batch)
    <3>1. dr.batch # <<>>
      BY <2>7 DEF Notify, ControlInv, DrainerAt
    <3>2. /\ PlaceInv' /\ Waiting' = Waiting /\ InBatch' = InBatch \ {f}
          /\ f \in InBatch /\ f \in Files
      BY <2>2, <2>7, <3>1, NotifyPlaces
    <3>3. /\ dr.pc = "notify" /\ dr'.pc \in {"notify", "drain"}
          /\ \A g \in Files : notified'[g] = IF g = f THEN notified[g] + 1 ELSE notified[g]
          /\ dr'.pc = "drain" => dr'.batch = <<>>
      BY Zenon, <2>7, <3>1, NotifyStep
    <3> HIDE DEF f
    <3>4. commits' = commits
      BY <2>7 DEF Notify
    <3>5. \A g \in InBatch : commits[g] = 1 /\ notified[g] = 0 /\ g \in Files
      BY <3>3, PlaceTypes DEF CommitInv
    <3>6. \A g \in Files : notified'[g] <= commits'[g] /\ commits'[g] <= 1
      BY <3>2, <3>3, <3>4, <3>5 DEF CommitInv
    <3>7. dr'.pc \in Collecting => InBatch' = {}
      <4>1. dr'.pc \in Collecting => dr'.batch = <<>>
        BY <3>3 DEF Collecting
      <4>2. dr'.batch = <<>> => InBatch' = {}
        BY DEF InBatch, Range
      <4> QED
        BY <4>1, <4>2
    <3>8. \A g \in InBatch' : commits'[g] = 1 /\ notified'[g] = 0
      BY <3>2, <3>3, <3>4, <3>5
    <3>9. CommitInv'
      BY <2>2, <3>2, <3>4, <3>6, <3>7, <3>8, Zenon DEF CommitInv, PassedSame
    <3>10. Healthy' => Healthy
      BY <2>1, <3>3 DEF Healthy
    <3>11. notified'[f] = 1 /\ \A g \in Files : g # f => notified'[g] = notified[g]
      BY <3>2, <3>3, <3>5
    <3>12. KeptInv'
      BY <2>2, <3>2, <3>10, <3>11, Zenon DEF KeptInv, PassedSame
    <3> QED
      BY <3>2, <3>9, <3>12 DEF Goal
  <2> QED
    BY <1>4, <2>3, <2>4, <2>5, <2>6, <2>7, Zenon
<1> QED
  BY <1>1, <1>2, <1>3, <1>4, NextSplit, Zenon DEF Goal

-----------------------------------------------------------------------------
(* A released boundary's file is stored.                                   *)
LEMMA ReleasedIsStored ==
  ASSUME StoredInv, faulted = FALSE, NEW b \in Boundaries, IsReleased(b.last)
  PROVE  BlocksOf(b.file) \subseteq stored
<1>1. b.file \in Files /\ b.last = FirstID[b.file + 1] - 1
  BY BoundaryFields
<1>2. FirstID[b.file] \in Nat /\ FirstID[b.file + 1] \in Nat
  BY <1>1, FirstIDStep, LayoutType
<1>3. BlocksOf(b.file) \subseteq 0 .. b.last
  BY <1>1, <1>2 DEF BlocksOf
<1>4. 0 .. b.last \subseteq free /\ free \subseteq stored
  BY DEF IsReleased, StoredInv
<1> QED
  BY <1>3, <1>4

(* What may be in a batch or committed after a step, without new blocks.   *)
LEMMA StoredKeeps ==
  ASSUME StoredInv, UNCHANGED <<fed, stored, free, faulted, outcome>>,
         \A f \in Files : f \in InBatch' \/ commits'[f] > 0 => f \in InBatch \/ commits[f] > 0
  PROVE  StoredInv'
BY Zenon DEF StoredInv

LEMMA StoredNext ==
  ASSUME TypeInv, IterInv, ControlInv, PlaceInv, CommitInv, KeptInv, StoredInv, [Next]_vars
  PROVE  StoredInv'
<1>1. CASE Quiet
  <2>1. InBatch' = InBatch /\ commits' = commits
    BY <1>1, QuietKeeps, Zenon DEF Quiet
  <2>2. ASSUME UNCHANGED transferVars PROVE StoredInv'
    BY <2>1, <2>2, StoredKeeps, Zenon DEF transferVars
  <2>3. CASE NextBlock
    <3>1. outcome = "none" /\ UNCHANGED <<stored, free, faulted, outcome>>
      BY <2>3 DEF NextBlock, Taken
    <3> QED
      BY <2>1, <3>1 DEF StoredInv
  <2>4. CASE PipelineStep
    <3>1. /\ stored \subseteq stored' /\ fed' = fed /\ outcome' = outcome
          /\ faulted' = FALSE => faulted = FALSE
          /\ faulted' = FALSE => (free \subseteq stored => free' \subseteq stored')
      <4>1. CASE PipelineFault
        BY <4>1 DEF PipelineFault, Fault
      <4>2. ASSUME NEW id \in Blocks, TransferStep(id) \/ BlockAbandoned(id)
            PROVE  /\ stored \subseteq stored' /\ fed' = fed /\ outcome' = outcome
                   /\ faulted' = FALSE => faulted = FALSE
                   /\ faulted' = FALSE => (free \subseteq stored => free' \subseteq stored')
        <5>1. CASE DestinationWrites(id)
          BY <5>1 DEF DestinationWrites, Written
        <5>2. CASE BlockAcked(id)
          BY <5>2 DEF BlockAcked, Acked
        <5>3. CASE BlockAbandoned(id)
          BY <5>3 DEF BlockAbandoned, Abandoned
        <5> QED
          BY <4>2, <5>1, <5>2, <5>3, Zenon DEF TransferStep
      <4> QED
        BY <2>4, <4>1, <4>2, Zenon DEF PipelineStep
    <3> QED
      BY <2>1, <3>1 DEF StoredInv
  <2>5. CASE \E o \in {"ok", "err"} : RunReturns(o)
    <3>1. /\ UNCHANGED <<fed, stored, free, faulted>>
          /\ outcome' = "ok" => fed \subseteq stored
      BY <2>5 DEF RunReturns, Return
    <3> QED
      BY <2>1, <3>1, Zenon DEF StoredInv
  <2>6. CASE EmitBoundary \/ DrainBacklog \/ AdvanceFile
    BY <2>2, <2>6, Zenon DEF EmitBoundary, DrainBacklog, AdvanceFile
  <2>7. CASE FlushBoundary \/ CloseBoundaryCh \/ MainReturns
    BY <2>2, <2>7, Zenon DEF FlushBoundary, CloseBoundaryCh, MainReturns, CloseKeeps
  <2>8. CASE BoundaryReceived \/ DrainerQuiet \/ TakeHead \/ CommitSent \/ CommitFails \/ Notify
    BY <2>2, <2>8, Zenon DEF BoundaryReceived, DrainerQuiet, BoundariesEnd, StopTaking,
      ReleaseSignal, TakeHead, CommitSent, CommitFails, Notify, DrainerKeeps
  <2>9. CASE DrainerStops \/ CancelCaller
    BY <2>2, <2>9, Zenon DEF DrainerStops, DrainerCancelled, DrainerFails, CancelCaller,
      DrainerKeeps
  <2>10. CASE UNCHANGED vars
    BY <2>2, <2>10, Zenon DEF vars
  <2> QED
    BY <2>3, <2>4, <2>5, <2>6, <2>7, <2>8, <2>9, <2>10, NextSplit, Zenon
<1>2. CASE EmitBoundary
  <2>1. InBatch' = InBatch /\ UNCHANGED <<commits, transferVars>>
    BY <1>2, EmitPlaces DEF EmitBoundary, IterKeeps
  <2> QED
    BY <2>1, StoredKeeps, Zenon DEF transferVars
<1>3. CASE DrainBacklog \/ FlushBoundary
  <2>1. UNCHANGED <<dr, commits, transferVars>>
    BY <1>3, Zenon DEF DrainBacklog, FlushBoundary, IterKeeps, CloseKeeps
  <2>2. InBatch' = InBatch
    BY <2>1, Zenon DEF InBatch
  <2> QED
    BY <2>1, <2>2, StoredKeeps, Zenon DEF transferVars
<1>4. CASE BoundaryReceived
  <2>1. InBatch' = InBatch /\ UNCHANGED <<commits, transferVars>>
    BY <1>4, ReceivedStep, Zenon DEF BoundaryReceived, DrainerKeeps, InBatch
  <2> QED
    BY <2>1, StoredKeeps, Zenon DEF transferVars
<1>5. CASE TakeHead
  <2> DEFINE b == Head(dr.pending)
  <2>1. UNCHANGED <<file, iter, commits, transferVars>>
    BY <1>5 DEF TakeHead, DrainerKeeps, iterVars
  <2>2. PassedSame
    BY <2>1, Zenon DEF PassedSame, Passed
  <2>3. InBatch' = InBatch \cup {b.file}
    BY <1>5, <2>2, TakePlaces
  <2>4. b \in Boundaries /\ IsReleased(b.last)
    BY <1>5, TakeStep
  <2>5. faulted = FALSE => BlocksOf(b.file) \subseteq stored
    BY Zenon, <2>4, ReleasedIsStored
  <2> HIDE DEF b
  <2> QED
    BY <2>1, <2>3, <2>5, Zenon DEF StoredInv, transferVars
<1>6. CASE CommitSent
  <2>1. /\ dr'.batch = dr.batch
        /\ \A f \in Files : commits'[f] = IF f \in InBatch THEN commits[f] + 1 ELSE commits[f]
    BY <1>6, SentStep
  <2>2. UNCHANGED transferVars /\ InBatch' = InBatch
    BY <1>6, <2>1, Zenon DEF CommitSent, DrainerKeeps, InBatch
  <2>3. \A f \in Files : f \in InBatch' \/ commits'[f] > 0 => f \in InBatch \/ commits[f] > 0
    BY <2>1, <2>2, Zenon
  <2> QED
    BY <2>2, <2>3, StoredKeeps, Zenon DEF transferVars
<1>7. CASE CommitFails
  <2>1. /\ dr'.batch = dr.batch
        /\ \A f \in Files : commits'[f] = commits[f]
                            \/ (f \in InBatch /\ commits'[f] = commits[f] + 1)
    BY <1>7, CommitFailsStep
  <2>2. UNCHANGED transferVars /\ InBatch' = InBatch
    BY <1>7, <2>1, Zenon DEF CommitFails, DrainerKeeps, InBatch
  <2>3. \A f \in Files : f \in InBatch' \/ commits'[f] > 0 => f \in InBatch \/ commits[f] > 0
    BY <2>1, <2>2, Zenon
  <2> QED
    BY <2>2, <2>3, StoredKeeps, Zenon DEF transferVars
<1>8. CASE Notify
  <2>1. UNCHANGED <<file, iter, commits, transferVars>>
    BY <1>8 DEF Notify, DrainerKeeps, iterVars
  <2>2. PassedSame /\ dr.batch # <<>>
    BY <1>8, <2>1 DEF PassedSame, Passed, Notify, ControlInv, DrainerAt
  <2>3. InBatch' = InBatch \ {Head(dr.batch)}
    BY <1>8, <2>2, NotifyPlaces
  <2> QED
    BY <2>1, <2>3, StoredKeeps, Zenon DEF transferVars
<1> QED
  BY <1>1, <1>2, <1>3, <1>4, <1>5, <1>6, <1>7, <1>8, NextSplit, QuietSteps, Zenon

-----------------------------------------------------------------------------
LEMMA CephFSInit == Init => CephFSInv
<1> SUFFICES ASSUME Init PROVE CephFSInv
  OBVIOUS
<1>1. /\ fed = {} /\ stored = {} /\ free = {} /\ faulted = FALSE /\ outcome = "none"
      /\ file = 0 /\ iter = "drain" /\ backlog = <<>> /\ boundaryCh = <<>>
      /\ boundaryEnd = FALSE /\ releaseCh = FALSE
      /\ commits = [f \in Files |-> 0] /\ notified = [f \in Files |-> 0]
      /\ main = "run" /\ gerr = FALSE /\ cancelled = FALSE
  BY DEF Init, TransferInit
<1>2. /\ dr = [pc |-> "run", pending |-> <<>>, current |-> 0, batch |-> <<>>, flushing |-> FALSE]
      /\ dr.pc = "run" /\ dr.pending = <<>> /\ dr.batch = <<>> /\ dr.flushing = FALSE
  BY DEF Init
<1>3. dr \in DrainerType
  <2>1. <<>> \in Seq(Boundaries) /\ <<>> \in Seq(Files)
    OBVIOUS
  <2> QED
    BY <1>2, <2>1 DEF DrainerType, DrainerPc
<1>4. TypeInv
  <2>1. file \in 0 .. N + 1
    BY <1>1, LayoutType
  <2>2. backlog \in Seq(Boundaries) /\ boundaryCh \in Seq(Boundaries)
    BY <1>1
  <2>3. Len(boundaryCh) <= BoundaryCap
    BY <1>1, CephFSAssumption
  <2>4. commits \in [Files -> Nat] /\ notified \in [Files -> Nat]
    BY <1>1
  <2> QED
    BY Zenon, <1>1, <1>3, <2>1, <2>2, <2>3, <2>4 DEF TypeInv
<1>5. IterInv
  <2>1. reqID = 0
    BY <1>1, FS_EmptySet DEF reqID
  <2>2. fed = 0 .. reqID - 1
    BY <1>1, <2>1
  <2> HIDE DEF reqID
  <2> QED
    BY <1>1, <2>1, <2>2, FirstIDStep, LayoutType DEF IterInv
<1>6. Waiting = {} /\ InBatch = {}
  BY <1>1, <1>2 DEF Waiting, InBatch, FilesIn, Range
<1>7. PlaceInv
  <2>1. Distinct(<<>>) /\ FilesIn(<<>>) = {}
    BY DEF Distinct, FilesIn
  <2> QED
    BY <1>1, <1>2, <1>6, <2>1, Zenon DEF PlaceInv
<1>8. CommitInv
  BY <1>1, <1>6 DEF CommitInv
<1>9. StoredInv
  BY <1>1, <1>6 DEF StoredInv
<1>10. ControlInv
  BY <1>1, <1>2 DEF ControlInv
<1>11. KeptInv
  BY <1>1, LayoutType DEF KeptInv, Passed
<1> QED
  BY <1>4, <1>5, <1>7, <1>8, <1>9, <1>10, <1>11, Zenon DEF CephFSInv

LEMMA CephFSNext == CephFSInv /\ [Next]_vars => CephFSInv'
<1> SUFFICES ASSUME CephFSInv, [Next]_vars PROVE CephFSInv'
  OBVIOUS
<1>1. TypeInv /\ IterInv /\ PlaceInv /\ CommitInv /\ StoredInv /\ ControlInv /\ KeptInv
  BY Zenon DEF CephFSInv
<1>2. TypeInv' /\ IterInv' /\ ControlInv'
  BY <1>1, TypeNext, IterNext, ControlNext, Zenon
<1>3. PlaceInv' /\ CommitInv' /\ KeptInv'
  BY <1>1, PlacesNext, Zenon
<1>4. StoredInv'
  BY <1>1, StoredNext, Zenon
<1> QED
  BY <1>2, <1>3, <1>4, Zenon DEF CephFSInv

(* The inductive invariant of the iterator, the drainer and their join.    *)
THEOREM CephFSAlways == Spec => []CephFSInv
BY CephFSInit, CephFSNext, PTL DEF Spec

(* The channel never holds more boundaries than it has room for, and every *)
(* boundary in the program is one of a file.                               *)
THEOREM CephFSTypes == Spec => []TypeOK
<1>1. CephFSInv => TypeOK
  <2> SUFFICES ASSUME TypeInv PROVE TypeOK
    BY Zenon DEF CephFSInv
  <2>1. dr.pc \in DrainerPc /\ dr.pending \in Seq(Boundaries) /\ dr.batch \in Seq(Files)
        /\ dr.flushing \in BOOLEAN
    BY DrainerFields
  <2>2. backlog \in Seq(Boundaries) /\ boundaryCh \in Seq(Boundaries)
    BY DEF TypeInv
  <2>3. \A q \in Seq(Boundaries) : Range(q) \subseteq Boundaries
    BY DEF Range
  <2>4. Range(dr.batch) \subseteq Files
    BY <2>1 DEF Range
  <2>5. Range(backlog) \cup Range(boundaryCh) \cup Range(dr.pending)
          \subseteq {Boundary(f) : f \in Files}
    BY <2>1, <2>2, <2>3, Zenon DEF Boundaries
  <2> QED
    BY <2>1, <2>4, <2>5, Zenon DEF TypeInv, TypeOK, DrainerPc, N
<1> QED
  BY <1>1, CephFSAlways, PTL

(* commitDrainer commits a file only when every block of it is on the      *)
(* destination, unless the pipeline has failed: for every number of files  *)
(* and blocks, in whatever order acknowledgements and boundaries arrive.   *)
THEOREM CommitsAreStored == Spec => []CommittedIsStoredUnlessFaulted
<1>1. CephFSInv => CommittedIsStoredUnlessFaulted
  <2> SUFFICES ASSUME CephFSInv, faulted = FALSE PROVE CommittedIsStored
    <3>1. CephFSInv => faulted \in BOOLEAN
      BY Zenon DEF CephFSInv, TypeInv
    <3> QED
      BY Zenon, <3>1 DEF CommittedIsStoredUnlessFaulted
  <2> QED
    BY Zenon DEF CephFSInv, StoredInv, CommittedIsStored
<1> QED
  BY <1>1, CephFSAlways, PTL

(* No file is committed or announced twice, and when both goroutines of    *)
(* runSnapdiffBlockPipeline return nil without a cancelled caller, every   *)
(* file with blocks is stored, committed and announced.                    *)
THEOREM EveryFileCommitted == Spec => []CommitsExact
<1>1. CephFSInv => CommitsExact
  <2> SUFFICES ASSUME CephFSInv PROVE CommitsExact
    OBVIOUS
  <2>1. TypeInv /\ IterInv /\ PlaceInv /\ CommitInv /\ StoredInv /\ ControlInv /\ KeptInv
    BY Zenon DEF CephFSInv
  <2>2. \A f \in Files : commits[f] <= 1 /\ notified[f] <= commits[f]
    BY <2>1, Zenon DEF CommitInv
  <2>3. ASSUME Joined, gerr = FALSE, cancelled = FALSE, NEW f \in Files, BlocksOf(f) # {}
        PROVE  BlocksOf(f) \subseteq stored /\ commits[f] = 1 /\ notified[f] = 1
    <3>1. main = "returned" /\ dr.pc \in {"done", "failed"}
      BY <2>3 DEF Joined
    <3>2. dr.pc = "done"
      BY <2>1, <2>3, <3>1 DEF ControlInv
    <3>3. /\ dr.flushing = TRUE /\ dr.pending = <<>> /\ dr.batch = <<>> /\ boundaryCh = <<>>
          /\ backlog = <<>>
      BY <2>1, <3>2 DEF ControlInv
    <3>4. outcome = "ok"
      BY <2>1, <2>3, <3>1 DEF ControlInv, TypeInv
    <3>5. iter = "end" /\ file = N + 1 /\ reqID = FirstID[N + 1] /\ fed = 0 .. reqID - 1
      BY <2>1, <2>3, <3>4 DEF ControlInv, IterInv
    <3>6. fed = Blocks
      BY <3>5, CephFSAssumption, Zenon DEF N
    <3>7. BlocksOf(f) \subseteq stored
      BY <2>1, <3>4, <3>6, BlocksOfFile DEF StoredInv
    <3>8. Waiting = {} /\ InBatch = {}
      BY <3>3 DEF Waiting, InBatch, FilesIn, Range
    <3>9. Passed(f)
      BY <3>5, LayoutType DEF Passed
    <3>10. Healthy
      BY <2>3, <3>2 DEF Healthy
    <3>11. notified[f] = 1
      BY <2>1, <2>3, <3>8, <3>9, <3>10, Zenon DEF KeptInv
    <3>12. notified[f] <= commits[f] /\ commits[f] <= 1 /\ commits[f] \in Nat
      BY <2>1, <2>2 DEF TypeInv
    <3> QED
      BY <3>7, <3>11, <3>12
  <2>4. gerr \in BOOLEAN /\ cancelled \in BOOLEAN
    BY <2>1 DEF TypeInv
  <2>5. Joined /\ ~gerr /\ ~cancelled =>
          \A f \in Files : BlocksOf(f) # {} =>
            BlocksOf(f) \subseteq stored /\ commits[f] = 1 /\ notified[f] = 1
    <3> SUFFICES ASSUME Joined, ~gerr, ~cancelled, NEW f \in Files, BlocksOf(f) # {}
                 PROVE  BlocksOf(f) \subseteq stored /\ commits[f] = 1 /\ notified[f] = 1
      BY Zenon
    <3>1. gerr = FALSE /\ cancelled = FALSE
      BY <2>4
    <3> QED
      BY <2>3, <3>1, Zenon
  <2> QED
    BY <2>2, <2>5, Zenon DEF CommitsExact
<1> QED
  BY <1>1, CephFSAlways, PTL
=============================================================================
