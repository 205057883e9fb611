------------------------- MODULE PipelineInvariant -------------------------
(***************************************************************************)
(* The inductive invariant of Pipeline, for any number of readers and      *)
(* senders and every window, memory budget, batch size and set of blocks:  *)
(* where an id may be, and that the steps of the feeder, the readers, the  *)
(* streams and the errgroup keep it.  PipelineProofs has the other steps   *)
(* and the theorems.                                                       *)
(***************************************************************************)
EXTENDS Pipeline, TLAPS

-----------------------------------------------------------------------------
(* The invariant                                                           *)

(* Where a reader, a sender and an ack receiver can be, and the types of   *)
(* the state.                                                              *)
ReaderPc == {"idle", "mem", "memwait", "win", "winwait", "read", "emit", "drop", "failed", "done"}
SenderPc == {"open", "recv", "flush", "sent", "drop", "closed"}
AckPc == {"none", "recv", "release", "done"}
Chunk == [id : ReqIDs, n : Nat]

PipeTypes ==
  /\ base \in Nat /\ released \in [Slots -> BOOLEAN]
  /\ waiters \subseteq ReqIDs /\ granted \subseteq ReqIDs
  /\ nextID \in Nat /\ feeding \in BOOLEAN /\ readClosed \in BOOLEAN
  /\ chunkCh \in Seq(ReqIDs)
  /\ rd \in [Readers -> [pc : ReaderPc, id : ReqIDs \cup {-1}, mem : Nat, win : BOOLEAN]]
  /\ readCh \in Seq(Chunk)
  /\ snd \in [Senders -> [pc : SenderPc, batch : Seq(Chunk), cc : Chunk \cup {Nothing}]]
  /\ ack \in [Senders -> [pc : AckPc, ids : Seq(ReqIDs)]]
  /\ stream \in [Senders -> {"none", "open", "eof", "broken"}]
  /\ wire \in [Senders -> Seq(Seq(ReqIDs))] /\ acks \in [Senders -> Seq(Seq(ReqIDs))]
  /\ written \subseteq ReqIDs
  /\ errs \subseteq {"pipe", "read", "send"} \cup Senders
  /\ cancelled \in BOOLEAN /\ faulty \in BOOLEAN
  /\ result \in {"none", "ok", "err"}

(* The places an id goes through, and whose they are.                      *)
Spots == {"unfed", "chunkCh", "reader", "readCh", "batch", "cc", "wire", "acks", "ack", "free"}
Nobody == "nobody"
Owners == Readers \cup Senders \cup {Nobody}

(* Place k of x has the id. What a sender has put on the wire is the       *)
(* wire's, although its batch still lists it until its memory is released. *)
Has(k, x, id) ==
  \/ k = "unfed" /\ x = Nobody /\ nextID <= id
  \/ k = "chunkCh" /\ x = Nobody /\ id \in Range(chunkCh)
  \/ k = "reader" /\ x \in Readers /\ rd[x].id = id
  \/ k = "readCh" /\ x = Nobody /\ id \in Owned(readCh)
  \/ k = "batch" /\ x \in Senders /\ id \in SenderOwns(x)
  \/ k = "cc" /\ x \in Senders /\ snd[x].cc.id = id
  \/ k = "wire" /\ x \in Senders /\ id \in Flat(wire[x])
  \/ k = "acks" /\ x \in Senders /\ id \in Flat(acks[x])
  \/ k = "ack" /\ x \in Senders /\ id \in Range(ack[x].ids)
  \/ k = "free" /\ x = Nobody /\ id \in Freed

(* No id is at two places.                                                 *)
Exclusive ==
  \A id \in ReqIDs, k, l \in Spots, x, y \in Owners :
    Has(k, x, id) /\ Has(l, y, id) => k = l /\ x = y

(* No queue has an id twice, and there are no empty batches.               *)
Distinct(q) == \A i, j \in DOMAIN q : q[i] = q[j] => i = j
DistinctIDs(q) == \A i, j \in DOMAIN q : q[i].id = q[j].id => i = j
DistinctIn(w) ==
  \A i, j \in DOMAIN w : \A a \in DOMAIN w[i], b \in DOMAIN w[j] :
    w[i][a] = w[j][b] => i = j /\ a = b

NonEmpty(w) == \A i \in DOMAIN w : w[i] # <<>>

QueueInv ==
  /\ Distinct(chunkCh) /\ DistinctIDs(readCh)
  /\ \A s \in Senders : /\ DistinctIDs(snd[s].batch) /\ Distinct(ack[s].ids)
                        /\ DistinctIn(wire[s]) /\ DistinctIn(acks[s])
                        /\ NonEmpty(wire[s]) /\ NonEmpty(acks[s])

(* What the places say: an id is at one of them, one that has its slot is  *)
(* below the window's end, one that is acknowledged is written, and until  *)
(* something has been given up, every id is somewhere and the released     *)
(* ones are written.                                                       *)
Holding == {"readCh", "batch", "cc", "wire", "acks", "ack"}
Lossless ==
  /\ errs = {}
  /\ \A r \in Readers : rd[r].pc \notin {"drop", "failed"}
  /\ \A s \in Senders : snd[s].pc # "drop" /\ stream[s] # "broken"

PlacesInv ==
  /\ Exclusive
  /\ \A id \in ReqIDs, k \in Holding, x \in Owners : Has(k, x, id) => id < base + Limit
  /\ \A id \in ReqIDs, k \in {"acks", "ack"}, x \in Owners : Has(k, x, id) => id \in written
  /\ Lossless => \A id \in ReqIDs : \E k \in Spots, x \in Owners : Has(k, x, id)
  /\ Lossless => \A id \in ReqIDs : Has("free", Nobody, id) => id \in written

(* A reader that has its slot, and a waiter granted one, is below the      *)
(* window's end.                                                           *)
SlotInv ==
  /\ \A r \in Readers : rd[r].win = TRUE => rd[r].id < base + Limit
  /\ \A id \in granted : id < base + Limit

(* What a reader has at each of its steps.                                 *)
ReaderOK(w, failure) ==
  /\ w.pc \in {"idle", "failed", "done"} => w.id = -1 /\ w.win = FALSE
  /\ w.pc \notin {"idle", "failed", "done", "drop"} => w.id \in ReqIDs
  /\ w.pc \in {"mem", "memwait", "win", "winwait"} => w.win = FALSE
  /\ w.pc \in {"read", "emit"} => w.win = TRUE
  /\ w.win = TRUE => w.id \in ReqIDs
  /\ w.pc \in {"drop", "failed"} => failure = TRUE
ReaderInv == \A r \in Readers : ReaderOK(rd[r], faulty)

(* What a sender, its stream and its ack receiver have at each of their    *)
(* steps. A sender flushes without a chunk put aside only when readCh is   *)
(* closed and empty, and its ack receiver returns without an error only    *)
(* when every ack was received.                                            *)
SenderOK(s) ==
  /\ snd[s].pc \in {"open", "recv", "closed"} => snd[s].cc = Nothing
  /\ snd[s].pc \in {"open", "closed"} => snd[s].batch = <<>>
  /\ snd[s].pc \in {"flush", "sent"} => snd[s].batch # <<>>
  /\ snd[s].pc \in {"flush", "sent"} /\ snd[s].cc = Nothing => readClosed = TRUE /\ readCh = <<>>
  /\ snd[s].pc = "drop" => faulty = TRUE
  /\ snd[s].pc = "open" <=> ack[s].pc = "none"
  /\ snd[s].pc = "open" => stream[s] = "none"
  /\ ack[s].pc = "release" <=> ack[s].ids # <<>>
  /\ stream[s] = "none" => wire[s] = <<>> /\ acks[s] = <<>> /\ snd[s].pc \in {"open", "closed"}
  /\ stream[s] = "eof" => wire[s] = <<>> /\ snd[s].pc = "closed"
  /\ stream[s] = "broken" => faulty = TRUE
  /\ ack[s].pc = "done" => (stream[s] \in {"none", "eof"} /\ acks[s] = <<>>) \/ s \in errs
SenderInv == \A s \in Senders : SenderOK(s)

(* The order in which the stages end, as long as none has failed: the      *)
(* feeder at the end of the iterator, the readers when chunkCh is closed   *)
(* and empty, the senders when readCh is.                                  *)
ControlInv ==
  /\ feeding = FALSE => nextID \notin ReqIDs \/ errs # {}
  /\ readClosed = TRUE => \A r \in Readers : rd[r].pc = "done"
  /\ result # "none" => /\ feeding = FALSE /\ readClosed = TRUE
                        /\ \A s \in Senders : snd[s].pc = "closed" /\ ack[s].pc = "done"
  /\ errs # {} \/ cancelled = TRUE => faulty = TRUE
  /\ \/ \E r \in Readers : rd[r].pc # "done"
     \/ errs # {}
     \/ feeding = FALSE /\ chunkCh = <<>>
  /\ \/ \E s \in Senders : snd[s].pc # "closed"
     \/ errs # {}
     \/ readClosed = TRUE /\ readCh = <<>>

(* Only what was fed is written.                                           *)
WrittenFed == \A id \in written : id < nextID

(* The inductive invariant.                                                *)
PipeInv ==
  /\ PipeTypes /\ PlacesInv /\ QueueInv /\ SlotInv
  /\ ReaderInv /\ SenderInv /\ ControlInv /\ WrittenFed

-----------------------------------------------------------------------------
(* The ring of the window                                                  *)

(* The ring has at least one slot.                                         *)
LEMMA LimitPositive == Limit \in Nat /\ Limit > 0
BY MaxWindowAssumption DEF Limit

(* Quotient and remainder, for a divisor that is not a literal.            *)
LEMMA DivMod ==
  ASSUME NEW a \in Nat, NEW L \in Nat, L > 0
  PROVE  /\ a % L \in 0 .. L - 1
         /\ a \div L \in Nat
         /\ a = L * (a \div L) + (a % L)
BY Z3

(* A multiple of L strictly between -L and L is zero.                      *)
LEMMA SmallMultiple ==
  ASSUME NEW L \in Nat, NEW q \in Int, 0 - L < L * q, L * q < L
  PROVE  q = 0
<1>1. CASE q >= 1
  <2>1. PICK p \in Nat : q = p + 1
    BY <1>1
  <2>2. L * q = L * p + L
    BY <2>1
  <2>3. L * p >= 0
    BY <2>1
  <2>. QED BY <2>2, <2>3
<1>2. CASE q <= -1
  <2>1. PICK p \in Nat : q = 0 - (p + 1)
    BY <1>2
  <2>2. L * q = 0 - (L * p + L)
    BY <2>1
  <2>3. L * p >= 0
    BY <2>1
  <2>. QED BY <2>2, <2>3
<1>. QED BY <1>1, <1>2

(* The remainder of a division is unique.                                  *)
LEMMA SameRemainder ==
  ASSUME NEW L \in Nat, L > 0, NEW p \in Int, NEW q \in Int,
         NEW r \in 0 .. L - 1, NEW s \in 0 .. L - 1,
         L * p + r = L * q + s
  PROVE  r = s
<1>1. L * (p - q) = s - r
  OBVIOUS
<1>2. p - q = 0
  BY <1>1, SmallMultiple
<1>. QED BY <1>1, <1>2

(* Numbers less than L apart with the same remainder are equal.            *)
LEMMA ModInjective ==
  ASSUME NEW a \in Nat, NEW b \in Nat, NEW L \in Nat, L > 0,
         a % L = b % L, a < b + L, b < a + L
  PROVE  a = b
<1>1. b - a = L * ((b \div L) - (a \div L))
  BY DivMod
<1>2. (b \div L) - (a \div L) \in Int
  BY DivMod
<1>3. (b \div L) - (a \div L) = 0
  BY <1>1, <1>2, SmallMultiple
<1>. QED BY <1>1, <1>3

(* Adding the divisor does not change the remainder.                       *)
LEMMA ModPeriod ==
  ASSUME NEW a \in Nat, NEW L \in Nat, L > 0
  PROVE  (a + L) % L = a % L
<1>1. a + L = L * ((a \div L) + 1) + (a % L)
  BY DivMod
<1>2. a + L = L * ((a + L) \div L) + ((a + L) % L)
  BY DivMod
<1>3. /\ (a + L) % L \in 0 .. L - 1
      /\ a % L \in 0 .. L - 1
      /\ (a + L) \div L \in Int
      /\ (a \div L) + 1 \in Int
  BY DivMod
<1>. QED BY Zenon, <1>1, <1>2, <1>3, SameRemainder

(* reqID % limit is an index of the ring.                                  *)
LEMMA SlotType == ASSUME NEW n \in Nat PROVE Slot(n) \in Slots
BY LimitPositive, DivMod DEF Slot, Slots

(* Two ids of the same window have different slots of the ring.            *)
LEMMA SlotInjective ==
  ASSUME NEW b \in Nat, NEW m \in Nat, NEW n \in Nat,
         InWindow(m, b), InWindow(n, b), Slot(m) = Slot(n)
  PROVE  m = n
<1>1. m < n + Limit /\ n < m + Limit
  BY LimitPositive DEF InWindow
<1>2. m % Limit = n % Limit
  BY DEF Slot
<1>. QED BY Zenon, <1>1, <1>2, LimitPositive, ModInjective

(* The id one window later has the same slot.                              *)
LEMMA SlotPeriod == ASSUME NEW n \in Nat PROVE Slot(n + Limit) = Slot(n)
BY Zenon, LimitPositive, ModPeriod DEF Slot

(* Release of an id of the window whose flag is not set frees that id and  *)
(* no other: the flags that the advance loop clears stand for ids beyond   *)
(* the old window from then on.                                            *)
LEMMA ReleaseFrees ==
  ASSUME base \in Nat, released \in [Slots -> BOOLEAN], waiters \subseteq ReqIDs, NEW id \in ReqIDs,
         InWindow(id, base), ~released[Slot(id)], WinRelease(id)
  PROVE  /\ base' \in Nat /\ base <= base' /\ released' \in [Slots -> BOOLEAN]
         /\ Freed' = Freed \cup {id}
         /\ waiters' \subseteq waiters
         /\ granted' \subseteq granted \cup waiters
         /\ \A w \in granted' : w \in granted \/ w < base' + Limit
<1>. DEFINE flags == [released EXCEPT ![Slot(id)] = TRUE]
<1>1. PICK k \in 0 .. Limit :
        /\ Advances(flags, base, k)
        /\ base' = base + k
        /\ released' = Cleared(flags, base, k)
        /\ waiters' = waiters \ Woken(base + k)
        /\ granted' = granted \cup Woken(base + k)
  BY Zenon DEF WinRelease
<1>2. /\ k \in Nat /\ id \in Nat /\ k <= Limit /\ Limit \in Nat /\ Limit > 0
      /\ base' \in Nat /\ base <= base'
  BY <1>1, LimitPositive, ReqIDsAssumption
<1>3. flags \in [Slots -> BOOLEAN]
  BY <1>2, SlotType, Zenon
<1>4. \A n \in Nat : InWindow(n, base) =>
         (flags[Slot(n)] <=> (released[Slot(n)] \/ n = id))
  <2>. SUFFICES ASSUME NEW n \in Nat, InWindow(n, base)
                PROVE  flags[Slot(n)] <=> (released[Slot(n)] \/ n = id)
    OBVIOUS
  <2>1. Slot(n) \in Slots /\ Slot(id) \in Slots
    BY <1>2, SlotType
  <2>2. CASE n = id
    BY <2>1, <2>2
  <2>3. CASE n # id
    <3>1. Slot(n) # Slot(id)
      BY <1>2, <2>3, SlotInjective
    <3>. QED BY <2>1, <2>3, <3>1
  <2>. QED BY <2>2, <2>3
<1>5. \A n \in Nat : (base <= n /\ n < base + k) => flags[Slot(n)]
  <2>. SUFFICES ASSUME NEW n \in Nat, base <= n, n < base + k
                PROVE  flags[Slot(n)]
    OBVIOUS
  <2>1. n - base \in 0 .. k - 1 /\ base + (n - base) = n
    BY <1>2
  <2>. QED BY <1>1, <2>1 DEF Advances
<1>6. \A i \in Slots : released'[i] <=> (flags[i] /\ \A j \in 0 .. k - 1 : i # Slot(base + j))
  BY Zenon, <1>1, <1>3 DEF Cleared
<1>7. \A n \in Nat : (base + k <= n /\ n < base + Limit) => (released'[Slot(n)] <=> flags[Slot(n)])
  <2>. SUFFICES ASSUME NEW n \in Nat, base + k <= n, n < base + Limit
                PROVE  released'[Slot(n)] <=> flags[Slot(n)]
    OBVIOUS
  <2>1. \A j \in 0 .. k - 1 : Slot(n) # Slot(base + j)
    <3>. SUFFICES ASSUME NEW j \in 0 .. k - 1, Slot(n) = Slot(base + j) PROVE FALSE
      OBVIOUS
    <3>1. base + j \in Nat /\ InWindow(base + j, base) /\ InWindow(n, base) /\ n # base + j
      BY <1>2 DEF InWindow
    <3>. QED BY <3>1, SlotInjective
  <2>. QED BY <1>6, <2>1, SlotType
<1>8. \A n \in Nat : (base + Limit <= n /\ n < base + k + Limit) => ~released'[Slot(n)]
  <2>. SUFFICES ASSUME NEW n \in Nat, base + Limit <= n, n < base + k + Limit
                PROVE  ~released'[Slot(n)]
    OBVIOUS
  <2>1. PICK j \in 0 .. k - 1 : n = (base + j) + Limit
    <3>1. n - Limit - base \in 0 .. k - 1 /\ n = (base + (n - Limit - base)) + Limit
      BY <1>2
    <3>. QED BY <3>1
  <2>2. Slot(n) = Slot(base + j)
    BY <1>2, <2>1, SlotPeriod
  <2>. QED BY <1>6, <2>2, SlotType
<1>9. \A n \in ReqIDs :
         (n < base' \/ (InWindow(n, base') /\ released'[Slot(n)]))
           <=> (n < base \/ (InWindow(n, base) /\ released[Slot(n)])) \/ n = id
  <2>. SUFFICES ASSUME NEW n \in ReqIDs
                PROVE  (n < base' \/ (InWindow(n, base') /\ released'[Slot(n)]))
                         <=> (n < base \/ (InWindow(n, base) /\ released[Slot(n)])) \/ n = id
    OBVIOUS
  <2>1. n \in Nat
    BY ReqIDsAssumption
  <2>2. base' = base + k
    BY <1>1
  <2>3. CASE n < base
    BY <1>2, <2>1, <2>2, <2>3
  <2>4. CASE base <= n /\ n < base + k
    <3>1. InWindow(n, base) /\ flags[Slot(n)]
      BY <1>2, <1>5, <2>1, <2>4 DEF InWindow
    <3>. QED BY <1>4, <2>1, <2>2, <2>4, <3>1
  <2>5. CASE base + k <= n /\ n < base + Limit
    <3>1. InWindow(n, base) /\ InWindow(n, base') /\ ~(n < base) /\ ~(n < base')
      BY <1>2, <2>1, <2>2, <2>5 DEF InWindow
    <3>2. released'[Slot(n)] <=> (released[Slot(n)] \/ n = id)
      BY <1>4, <1>7, <2>1, <2>5, <3>1
    <3>. QED BY <3>1, <3>2
  <2>6. CASE base + Limit <= n
    <3>1. ~InWindow(n, base) /\ ~(n < base) /\ ~(n < base') /\ n # id
      BY <1>2, <2>1, <2>2, <2>6 DEF InWindow
    <3>2. InWindow(n, base') => n < base + k + Limit
      BY <1>2, <2>1, <2>2 DEF InWindow
    <3>. QED BY <1>8, <2>1, <2>6, <3>1, <3>2
  <2>. QED BY <1>2, <2>1, <2>3, <2>4, <2>5, <2>6
<1>10. Freed' = Freed \cup {id}
  <2>1. \A n \in ReqIDs : InWindow(n, base)' <=> InWindow(n, base')
    BY Zenon DEF InWindow, Limit
  <2>. QED BY Zenon, <1>9 DEF Freed, InWindow, Slot, Limit
<1>11. released' \in [Slots -> BOOLEAN]
  BY <1>1, Zenon DEF Cleared
<1>12. \A w \in Woken(base + k) : w \in waiters /\ w < base' + Limit
  <2>. SUFFICES ASSUME NEW w \in Woken(base + k) PROVE w \in waiters /\ w < base' + Limit
    OBVIOUS
  <2>1. w \in waiters /\ w \in Nat /\ w <= w
    BY ReqIDsAssumption DEF Woken
  <2>2. InWindow(w, base + k)
    BY <2>1 DEF Woken
  <2>. QED BY <1>1, <1>2, <2>1, <2>2 DEF InWindow
<1>. QED BY Zenon, <1>1, <1>2, <1>10, <1>11, <1>12

-----------------------------------------------------------------------------
(* Queues                                                                  *)

(* A send on a channel: the queue gets one element more, at its end.       *)
LEMMA AppendRange ==
  ASSUME NEW S, NEW q \in Seq(S), NEW e \in S
  PROVE  /\ Append(q, e) \in Seq(S) /\ Append(q, e) # <<>>
         /\ Range(Append(q, e)) = Range(q) \cup {e}
         /\ Distinct(q) /\ e \notin Range(q) => Distinct(Append(q, e))
<1>1. DOMAIN Append(q, e) = DOMAIN q \cup {Len(q) + 1} /\ Len(q) + 1 \notin DOMAIN q
      /\ Append(q, e) \in Seq(S) /\ Append(q, e) # <<>>
  OBVIOUS
<1>2. Append(q, e)[Len(q) + 1] = e /\ \A i \in DOMAIN q : Append(q, e)[i] = q[i]
  OBVIOUS
<1>3. Range(Append(q, e)) = Range(q) \cup {e}
  BY <1>1, <1>2, Zenon DEF Range
<1>4. ASSUME Distinct(q), e \notin Range(q) PROVE Distinct(Append(q, e))
  <2> SUFFICES ASSUME NEW i \in DOMAIN q \cup {Len(q) + 1}, NEW j \in DOMAIN q \cup {Len(q) + 1},
                      Append(q, e)[i] = Append(q, e)[j]
               PROVE  i = j
    BY <1>1, Zenon DEF Distinct
  <2>1. \A k \in DOMAIN q : q[k] # e
    BY <1>4 DEF Range
  <2> QED
    BY <1>2, <1>4, <2>1, Zenon DEF Distinct
<1> QED
  BY <1>1, <1>3, <1>4

(* A receive from a channel: the queue loses its head and nothing else.    *)
LEMMA TailRange ==
  ASSUME NEW S, NEW q \in Seq(S), q # <<>>
  PROVE  /\ Tail(q) \in Seq(S) /\ Head(q) \in S /\ Head(q) \in Range(q)
         /\ Range(Tail(q)) \subseteq Range(q)
         /\ Range(q) = Range(Tail(q)) \cup {Head(q)}
         /\ Distinct(q) => Distinct(Tail(q)) /\ Head(q) \notin Range(Tail(q))
<1>1. Len(q) \in Nat /\ Len(q) >= 1 /\ DOMAIN q = 1 .. Len(q)
      /\ DOMAIN Tail(q) = 1 .. Len(q) - 1 /\ Head(q) = q[1] /\ Tail(q) \in Seq(S) /\ Head(q) \in S
  OBVIOUS
<1>2. \A i \in 1 .. Len(q) - 1 : Tail(q)[i] = q[i + 1] /\ i + 1 \in 1 .. Len(q) /\ i + 1 # 1
  BY <1>1
<1>3. \A i \in DOMAIN q : q[i] = Head(q) \/ \E j \in DOMAIN Tail(q) : Tail(q)[j] = q[i]
  <2> TAKE i \in DOMAIN q
  <2>1. i = 1 \/ (i - 1 \in 1 .. Len(q) - 1 /\ (i - 1) + 1 = i)
    BY <1>1
  <2> QED
    BY <1>1, <1>2, <2>1
<1>4. Range(q) = Range(Tail(q)) \cup {Head(q)}
  <2>1. Range(q) \subseteq Range(Tail(q)) \cup {Head(q)}
    BY <1>3, Zenon DEF Range
  <2>2. Range(Tail(q)) \cup {Head(q)} \subseteq Range(q)
    BY <1>1, <1>2 DEF Range
  <2> QED
    BY <2>1, <2>2
<1>5. ASSUME Distinct(q) PROVE Distinct(Tail(q)) /\ Head(q) \notin Range(Tail(q))
  BY SMTT(30), <1>1, <1>2, <1>5 DEF Distinct, Range
<1> QED
  BY <1>1, <1>4, <1>5

(* Sequences are equal when their elements are.                            *)
LEMMA SameSeq ==
  ASSUME NEW S, NEW q \in Seq(S), NEW p \in Seq(S), Len(q) = Len(p),
         \A i \in 1 .. Len(q) : q[i] = p[i]
  PROVE  q = p
<1>1. q = [i \in 1 .. Len(q) |-> q[i]] /\ p = [i \in 1 .. Len(q) |-> p[i]]
  OBVIOUS
<1>2. [i \in 1 .. Len(q) |-> q[i]] = [i \in 1 .. Len(q) |-> p[i]]
  BY Zenon
<1> QED
  BY <1>1, <1>2, Zenon

(* A function on 1 .. n is a sequence.                                     *)
LEMMA IsSeq ==
  ASSUME NEW S, NEW n \in Nat, NEW f \in [1 .. n -> S]
  PROVE  f \in Seq(S) /\ Len(f) = n
  OBVIOUS

(* A queue of chunks and the queue of their ids.                           *)
LEMMA ChunkIDs ==
  ASSUME NEW q \in Seq(Chunk)
  PROVE  /\ HeldIDs(q) \in Seq(ReqIDs) /\ Owned(q) = Range(HeldIDs(q))
         /\ DistinctIDs(q) <=> Distinct(HeldIDs(q))
         /\ q = <<>> <=> HeldIDs(q) = <<>>
         /\ q # <<>> => HeldIDs(Tail(q)) = Tail(HeldIDs(q)) /\ Head(HeldIDs(q)) = Head(q).id
<1>1. Len(q) \in Nat /\ DOMAIN q = 1 .. Len(q) /\ \A i \in 1 .. Len(q) : q[i] \in Chunk
  OBVIOUS
<1>2. \A c \in Chunk : c.id \in ReqIDs
  BY DEF Chunk
<1>3. HeldIDs(q) \in Seq(ReqIDs) /\ Len(HeldIDs(q)) = Len(q)
  BY <1>1, <1>2 DEF HeldIDs
<1>4. DOMAIN HeldIDs(q) = DOMAIN q /\ \A i \in DOMAIN q : HeldIDs(q)[i] = q[i].id
  BY Zenon DEF HeldIDs
<1>5. Owned(q) = Range(HeldIDs(q))
  BY <1>4, Zenon DEF Owned, Range
<1>6. DistinctIDs(q) <=> Distinct(HeldIDs(q))
  BY <1>4, Zenon DEF DistinctIDs, Distinct
<1>7. q = <<>> <=> HeldIDs(q) = <<>>
  BY <1>1, <1>3
<1>8. ASSUME q # <<>> PROVE HeldIDs(Tail(q)) = Tail(HeldIDs(q)) /\ Head(HeldIDs(q)) = Head(q).id
  <2> DEFINE h == HeldIDs(q)
             t == HeldIDs(Tail(q))
  <2>1. Len(q) >= 1 /\ Tail(q) \in Seq(Chunk) /\ Len(Tail(q)) = Len(q) - 1
        /\ DOMAIN Tail(q) = 1 .. Len(q) - 1
        /\ \A i \in 1 .. Len(q) - 1 : Tail(q)[i] = q[i + 1] /\ i + 1 \in DOMAIN q
                                       /\ Tail(q)[i] \in Chunk
    BY <1>8, <1>1
  <2>2. t = [i \in 1 .. Len(q) - 1 |-> Tail(q)[i].id]
    BY <2>1, Zenon DEF HeldIDs
  <2>3. t \in Seq(ReqIDs) /\ Len(t) = Len(q) - 1 /\ \A i \in 1 .. Len(q) - 1 : t[i] = q[i + 1].id
    <3> DEFINE n == Len(q) - 1
    <3>1. n \in Nat /\ \A i \in 1 .. n : Tail(q)[i].id \in ReqIDs /\ Tail(q)[i].id = q[i + 1].id
      BY <1>1, <1>2, <2>1
    <3>2. t = [i \in 1 .. n |-> Tail(q)[i].id]
      BY <2>2, Zenon
    <3> HIDE DEF n, t
    <3>3. t \in [1 .. n -> ReqIDs] /\ \A i \in 1 .. n : t[i] = q[i + 1].id
      BY <3>1, <3>2, Zenon
    <3>4. t \in Seq(ReqIDs) /\ Len(t) = n
      BY <3>1, <3>3, IsSeq
    <3> QED
      BY <3>3, <3>4, Zenon DEF n, t
  <2>4. h \in Seq(ReqIDs) /\ Len(h) = Len(q) /\ \A i \in 1 .. Len(q) : h[i] = q[i].id
    BY <1>1, <1>3, <1>4
  <2> HIDE DEF h, t
  <2>5. h # <<>> /\ Head(h) = h[1] /\ Head(q) = q[1] /\ 1 \in 1 .. Len(q)
    BY <1>1, <2>1, <2>4
  <2>6. Tail(h) \in Seq(ReqIDs) /\ Len(Tail(h)) = Len(q) - 1
        /\ \A i \in 1 .. Len(q) - 1 : Tail(h)[i] = h[i + 1] /\ i + 1 \in 1 .. Len(q)
    BY <1>1, <2>1, <2>4, <2>5
  <2>7. t = Tail(h)
    BY Zenon, <2>3, <2>4, <2>6, SameSeq
  <2> QED
    BY <2>4, <2>5, <2>7 DEF h, t
<1> QED
  BY <1>3, <1>5, <1>6, <1>7, <1>8

(* Queues without elements.                                                *)
LEMMA EmptyQueues ==
  /\ Range(<<>>) = {} /\ Owned(<<>>) = {} /\ Flat(<<>>) = {}
  /\ Distinct(<<>>) /\ DistinctIDs(<<>>) /\ DistinctIn(<<>>) /\ NonEmpty(<<>>)
BY DEF Range, Owned, Flat, Distinct, DistinctIDs, DistinctIn, NonEmpty

(* AppendRange for a queue of chunks and the ids they carry.               *)
LEMMA AppendChunk ==
  ASSUME NEW q \in Seq(Chunk), NEW c \in Chunk
  PROVE  /\ Append(q, c) \in Seq(Chunk) /\ Append(q, c) # <<>>
         /\ Owned(Append(q, c)) = Owned(q) \cup {c.id}
         /\ DistinctIDs(q) /\ c.id \notin Owned(q) => DistinctIDs(Append(q, c))
<1>1. DOMAIN Append(q, c) = DOMAIN q \cup {Len(q) + 1} /\ Len(q) + 1 \notin DOMAIN q
      /\ Append(q, c) \in Seq(Chunk) /\ Append(q, c) # <<>>
  OBVIOUS
<1>2. Append(q, c)[Len(q) + 1] = c /\ \A i \in DOMAIN q : Append(q, c)[i] = q[i]
  OBVIOUS
<1>3. Owned(Append(q, c)) = Owned(q) \cup {c.id}
  BY <1>1, <1>2, ZenonT(30) DEF Owned
<1>4. ASSUME DistinctIDs(q), c.id \notin Owned(q) PROVE DistinctIDs(Append(q, c))
  <2> SUFFICES ASSUME NEW i \in DOMAIN q \cup {Len(q) + 1}, NEW j \in DOMAIN q \cup {Len(q) + 1},
                      Append(q, c)[i].id = Append(q, c)[j].id
               PROVE  i = j
    BY <1>1, Zenon DEF DistinctIDs
  <2>1. \A k \in DOMAIN q : q[k].id # c.id
    BY <1>4 DEF Owned
  <2> QED
    BY <1>2, <1>4, <2>1, Zenon DEF DistinctIDs
<1> QED
  BY <1>1, <1>3, <1>4

(* TailRange for a queue of chunks and the ids they carry.                 *)
LEMMA TailChunk ==
  ASSUME NEW q \in Seq(Chunk), q # <<>>
  PROVE  /\ Tail(q) \in Seq(Chunk) /\ Head(q) \in Chunk /\ Head(q).id \in ReqIDs /\ Head(q).n \in Nat
         /\ Owned(q) = Owned(Tail(q)) \cup {Head(q).id}
         /\ DistinctIDs(q) => DistinctIDs(Tail(q)) /\ Head(q).id \notin Owned(Tail(q))
<1>1. Tail(q) \in Seq(Chunk) /\ Head(q) \in Chunk
  BY TailRange
<1>2. Head(q).id \in ReqIDs /\ Head(q).n \in Nat
  BY <1>1 DEF Chunk
<1>3. /\ HeldIDs(q) \in Seq(ReqIDs) /\ Owned(q) = Range(HeldIDs(q))
      /\ DistinctIDs(q) <=> Distinct(HeldIDs(q))
      /\ HeldIDs(q) # <<>>
      /\ HeldIDs(Tail(q)) = Tail(HeldIDs(q)) /\ Head(HeldIDs(q)) = Head(q).id
  BY ChunkIDs
<1>4. /\ Owned(Tail(q)) = Range(HeldIDs(Tail(q)))
      /\ DistinctIDs(Tail(q)) <=> Distinct(HeldIDs(Tail(q)))
  BY Zenon, <1>1, ChunkIDs
<1>5. /\ Range(HeldIDs(q)) = Range(Tail(HeldIDs(q))) \cup {Head(HeldIDs(q))}
      /\ Distinct(HeldIDs(q)) => /\ Distinct(Tail(HeldIDs(q)))
                                 /\ Head(HeldIDs(q)) \notin Range(Tail(HeldIDs(q)))
  BY <1>3, TailRange
<1> QED
  BY <1>1, <1>2, <1>3, <1>4, <1>5, Zenon

(* A queue of batches of ids.                                              *)
LEMMA InOneBatch ==
  ASSUME NEW w, DistinctIn(w), NEW i \in DOMAIN w, NEW j \in DOMAIN w,
         NEW a \in DOMAIN w[i], NEW b \in DOMAIN w[j], w[i][a] = w[j][b]
  PROVE  i = j /\ a = b
BY DEF DistinctIn

(* An id is in a queue of batches when it is in one of the batches.        *)
LEMMA InFlat ==
  ASSUME NEW w, NEW e
  PROVE  e \in Flat(w) <=> \E i \in DOMAIN w : e \in Range(w[i])
BY Zenon DEF Flat

(* stream.Send of a batch, and the ack for one.                            *)
LEMMA AppendBatch ==
  ASSUME NEW w \in Seq(Seq(ReqIDs)), NEW b \in Seq(ReqIDs)
  PROVE  /\ Append(w, b) \in Seq(Seq(ReqIDs)) /\ Append(w, b) # <<>>
         /\ Flat(Append(w, b)) = Flat(w) \cup Range(b)
         /\ DistinctIn(w) /\ Distinct(b) /\ Flat(w) \cap Range(b) = {} => DistinctIn(Append(w, b))
         /\ NonEmpty(w) /\ b # <<>> => NonEmpty(Append(w, b))
<1>1. DOMAIN Append(w, b) = DOMAIN w \cup {Len(w) + 1} /\ Len(w) + 1 \notin DOMAIN w
      /\ Append(w, b) \in Seq(Seq(ReqIDs)) /\ Append(w, b) # <<>>
  BY SMTT(30)
<1>2. Append(w, b)[Len(w) + 1] = b /\ \A i \in DOMAIN w : Append(w, b)[i] = w[i]
  OBVIOUS
<1>3. Flat(Append(w, b)) = Flat(w) \cup Range(b)
  BY <1>1, <1>2, Zenon DEF Flat
<1>4. ASSUME DistinctIn(w), Distinct(b), Flat(w) \cap Range(b) = {} PROVE DistinctIn(Append(w, b))
  <2> DEFINE v == Append(w, b)
  <2>1. \A i \in DOMAIN w : \A c \in DOMAIN w[i], d \in DOMAIN b : w[i][c] # b[d]
    BY SMTT(30), <1>4 DEF Flat, Range
  <2> SUFFICES ASSUME NEW i \in DOMAIN w \cup {Len(w) + 1}, NEW j \in DOMAIN w \cup {Len(w) + 1},
                      NEW c \in DOMAIN v[i], NEW d \in DOMAIN v[j], v[i][c] = v[j][d]
               PROVE  i = j /\ c = d
    BY <1>1, Zenon DEF DistinctIn
  <2> HIDE DEF v
  <2>2. v[Len(w) + 1] = b /\ \A n \in DOMAIN w : v[n] = w[n]
    BY <1>2 DEF v
  <2>3. CASE i \in DOMAIN w /\ j \in DOMAIN w
    <3>1. c \in DOMAIN w[i] /\ d \in DOMAIN w[j] /\ w[i][c] = w[j][d]
      BY <2>2, <2>3
    <3> QED
      BY <2>3, <3>1, <1>4, ZenonT(30) DEF DistinctIn
  <2>4. CASE i \in DOMAIN w /\ j = Len(w) + 1
    BY <2>2, <2>4, <2>1, ZenonT(30)
  <2>5. CASE i = Len(w) + 1 /\ j \in DOMAIN w
    BY <2>2, <2>5, <2>1, Zenon
  <2>6. CASE i = Len(w) + 1 /\ j = Len(w) + 1
    BY <2>2, <2>6, <1>4, Zenon DEF Distinct
  <2> QED
    BY <2>3, <2>4, <2>5, <2>6, Zenon
<1>5. NonEmpty(w) /\ b # <<>> => NonEmpty(Append(w, b))
  BY <1>1, <1>2, Zenon DEF NonEmpty
<1> QED
  BY <1>1, <1>3, <1>4, <1>5

(* stream.Recv of a batch, and of an ack.                                  *)
LEMMA TailBatch ==
  ASSUME NEW w \in Seq(Seq(ReqIDs)), w # <<>>
  PROVE  /\ Tail(w) \in Seq(Seq(ReqIDs)) /\ Head(w) \in Seq(ReqIDs)
         /\ Flat(w) = Flat(Tail(w)) \cup Range(Head(w))
         /\ DistinctIn(w) => /\ DistinctIn(Tail(w)) /\ Distinct(Head(w))
                             /\ Flat(Tail(w)) \cap Range(Head(w)) = {}
         /\ NonEmpty(w) => NonEmpty(Tail(w)) /\ Head(w) # <<>>
<1>1. Len(w) \in Nat /\ Len(w) >= 1 /\ DOMAIN w = 1 .. Len(w)
      /\ DOMAIN Tail(w) = 1 .. Len(w) - 1 /\ Head(w) = w[1]
      /\ Tail(w) \in Seq(Seq(ReqIDs)) /\ Head(w) \in Seq(ReqIDs)
  OBVIOUS
<1>2. \A i \in DOMAIN Tail(w) : Tail(w)[i] = w[i + 1] /\ i + 1 \in DOMAIN w /\ i + 1 # 1
  BY <1>1
<1>3. \A i \in DOMAIN w : w[i] = Head(w) \/ \E j \in DOMAIN Tail(w) : Tail(w)[j] = w[i]
  <2> TAKE i \in DOMAIN w
  <2>1. i = 1 \/ (i - 1 \in 1 .. Len(w) - 1 /\ (i - 1) + 1 = i)
    BY <1>1
  <2> QED
    BY <1>1, <1>2, <2>1
<1>4. 1 \in DOMAIN w /\ w[1] = Head(w) /\ \A i, j \in DOMAIN Tail(w) : i + 1 = j + 1 => i = j
  BY <1>1
<1>5. Flat(w) = Flat(Tail(w)) \cup Range(Head(w))
  <2>1. Flat(w) \subseteq Flat(Tail(w)) \cup Range(Head(w))
    BY Zenon, <1>3, InFlat
  <2>2. Flat(Tail(w)) \cup Range(Head(w)) \subseteq Flat(w)
    BY Zenon, <1>2, <1>4, InFlat
  <2> QED
    BY <2>1, <2>2
<1>6. ASSUME DistinctIn(w)
      PROVE  DistinctIn(Tail(w)) /\ Distinct(Head(w)) /\ Flat(Tail(w)) \cap Range(Head(w)) = {}
  <2>1. DistinctIn(Tail(w))
    <3> SUFFICES ASSUME NEW i \in DOMAIN Tail(w), NEW j \in DOMAIN Tail(w),
                        NEW a \in DOMAIN Tail(w)[i], NEW b \in DOMAIN Tail(w)[j],
                        Tail(w)[i][a] = Tail(w)[j][b]
                 PROVE  i = j /\ a = b
      BY Zenon DEF DistinctIn
    <3>1. /\ i + 1 \in DOMAIN w /\ j + 1 \in DOMAIN w
          /\ a \in DOMAIN w[i + 1] /\ b \in DOMAIN w[j + 1] /\ w[i + 1][a] = w[j + 1][b]
      BY <1>2
    <3>2. i + 1 = j + 1 /\ a = b
      BY <1>6, <3>1, InOneBatch
    <3> QED
      BY <1>4, <3>2, Zenon
  <2>2. Distinct(Head(w))
    <3> SUFFICES ASSUME NEW a \in DOMAIN w[1], NEW b \in DOMAIN w[1], w[1][a] = w[1][b] PROVE a = b
      BY <1>4, Zenon DEF Distinct
    <3> QED
      BY <1>4, <1>6, InOneBatch
  <2>3. Flat(Tail(w)) \cap Range(Head(w)) = {}
    <3> SUFFICES ASSUME NEW i \in DOMAIN Tail(w), NEW a \in DOMAIN Tail(w)[i],
                        NEW b \in DOMAIN Head(w), Tail(w)[i][a] = Head(w)[b]
                 PROVE  FALSE
      BY Zenon DEF Flat, Range
    <3>1. i + 1 \in DOMAIN w /\ i + 1 # 1 /\ a \in DOMAIN w[i + 1] /\ w[i + 1][a] = w[1][b]
          /\ b \in DOMAIN w[1]
      BY <1>2, <1>4
    <3> QED
      BY <1>4, <1>6, <3>1, InOneBatch, Zenon
  <2> QED
    BY <2>1, <2>2, <2>3
<1>7. NonEmpty(w) => NonEmpty(Tail(w)) /\ Head(w) # <<>>
  BY <1>2, <1>4, Zenon DEF NonEmpty
<1> QED
  BY <1>1, <1>5, <1>6, <1>7

-----------------------------------------------------------------------------
(* Places                                                                  *)

(* What it is for an id to be at each of the places ...                    *)
LEMMA Cells ==
  ASSUME NEW x, NEW id
  PROVE  /\ Has("unfed", x, id) <=> x = Nobody /\ nextID <= id
         /\ Has("chunkCh", x, id) <=> x = Nobody /\ id \in Range(chunkCh)
         /\ Has("reader", x, id) <=> x \in Readers /\ rd[x].id = id
         /\ Has("readCh", x, id) <=> x = Nobody /\ id \in Owned(readCh)
         /\ Has("batch", x, id) <=> x \in Senders /\ id \in SenderOwns(x)
         /\ Has("cc", x, id) <=> x \in Senders /\ snd[x].cc.id = id
         /\ Has("wire", x, id) <=> x \in Senders /\ id \in Flat(wire[x])
         /\ Has("acks", x, id) <=> x \in Senders /\ id \in Flat(acks[x])
         /\ Has("ack", x, id) <=> x \in Senders /\ id \in Range(ack[x].ids)
         /\ Has("free", x, id) <=> x = Nobody /\ id \in Freed
BY Zenon DEF Has

(* ... and to be there after a step.                                       *)
LEMMA CellsPrimed ==
  ASSUME NEW x, NEW id
  PROVE  /\ Has("unfed", x, id)' <=> x = Nobody /\ nextID' <= id
         /\ Has("chunkCh", x, id)' <=> x = Nobody /\ id \in Range(chunkCh')
         /\ Has("reader", x, id)' <=> x \in Readers /\ rd'[x].id = id
         /\ Has("readCh", x, id)' <=> x = Nobody /\ id \in Owned(readCh')
         /\ Has("batch", x, id)' <=> x \in Senders /\ id \in SenderOwns(x)'
         /\ Has("cc", x, id)' <=> x \in Senders /\ snd'[x].cc.id = id
         /\ Has("wire", x, id)' <=> x \in Senders /\ id \in Flat(wire'[x])
         /\ Has("acks", x, id)' <=> x \in Senders /\ id \in Flat(acks'[x])
         /\ Has("ack", x, id)' <=> x \in Senders /\ id \in Range(ack'[x].ids)
         /\ Has("free", x, id)' <=> x = Nobody /\ id \in Freed'
BY DEF Has

(* The read channel as a place, before and after a step.                   *)
LEMMA AtReadCh ==
  ASSUME NEW x, NEW id
  PROVE  /\ Has("readCh", x, id) <=> x = Nobody /\ id \in Owned(readCh)
         /\ Has("readCh", x, id)' <=> x = Nobody /\ id \in Owned(readCh')
BY Cells, CellsPrimed, Zenon

(* The batch a sender builds as a place, before and after a step.          *)
LEMMA AtBatch ==
  ASSUME NEW x, NEW id
  PROVE  /\ Has("batch", x, id) <=> x \in Senders /\ id \in SenderOwns(x)
         /\ Has("batch", x, id)' <=> x \in Senders /\ id \in SenderOwns(x)'
BY Cells, CellsPrimed, Zenon

(* The chunk a sender carries over a flush, before and after a step.       *)
LEMMA AtCC ==
  ASSUME NEW x, NEW id
  PROVE  /\ Has("cc", x, id) <=> x \in Senders /\ snd[x].cc.id = id
         /\ Has("cc", x, id)' <=> x \in Senders /\ snd'[x].cc.id = id
BY Cells, CellsPrimed, Zenon

(* The unacknowledged requests as a place, before and after a step.        *)
LEMMA AtAck ==
  ASSUME NEW x, NEW id
  PROVE  /\ Has("ack", x, id) <=> x \in Senders /\ id \in Range(ack[x].ids)
         /\ Has("ack", x, id)' <=> x \in Senders /\ id \in Range(ack'[x].ids)
BY Cells, CellsPrimed, ZenonT(30)

(* A step that does not touch a place leaves there what was there.         *)
LEMMA Unmoved ==
  ASSUME NEW k \in Spots, NEW x, NEW id,
         k = "unfed" /\ x = Nobody => nextID' = nextID,
         k = "chunkCh" /\ x = Nobody => chunkCh' = chunkCh,
         k = "reader" /\ x \in Readers => rd'[x].id = rd[x].id,
         k = "readCh" /\ x = Nobody => readCh' = readCh,
         k = "batch" /\ x \in Senders => SenderOwns(x)' = SenderOwns(x),
         k = "cc" /\ x \in Senders => snd'[x].cc.id = snd[x].cc.id,
         k = "wire" /\ x \in Senders => wire'[x] = wire[x],
         k = "acks" /\ x \in Senders => acks'[x] = acks[x],
         k = "ack" /\ x \in Senders => ack'[x].ids = ack[x].ids,
         k = "free" /\ x = Nobody => Freed' = Freed
  PROVE  Has(k, x, id)' <=> Has(k, x, id)
BY SMTT(30), Cells, CellsPrimed DEF Spots

(* What a step does with an id: it leaves it where it is, brings it to one *)
(* place, or gives it up.                                                  *)
Stay(id) == \A k \in Spots, x \in Owners : Has(k, x, id)' <=> Has(k, x, id)
Goes(id, l, y) == \A k \in Spots, x \in Owners : Has(k, x, id)' <=> k = l /\ x = y
Gone(id) == \A k \in Spots, x \in Owners : ~Has(k, x, id)'
Arrives(id, l) ==
  /\ l \in Holding => id < base' + Limit
  /\ l \in {"acks", "ack"} => id \in written'
  /\ l = "free" /\ Lossless' => id \in written'
Handled(id) ==
  \/ Stay(id)
  \/ Gone(id) /\ ~Lossless'
  \/ \E l \in Spots, y \in Owners : Goes(id, l, y) /\ Arrives(id, l)
Carried == \A id \in ReqIDs : Handled(id)

Advance == base' \in Nat /\ base <= base' /\ written \subseteq written' /\ (Lossless' => Lossless)

(* A step that carries every id keeps what the places say.                 *)
LEMMA CarriedPlaces ==
  ASSUME base \in Nat, PlacesInv, Carried, Advance
  PROVE  PlacesInv'
<1>1. Holding \subseteq Spots /\ {"acks", "ack"} \subseteq Spots /\ "free" \in Spots /\ Nobody \in Owners
  BY DEF Holding, Spots, Owners
<1>2. \A id \in ReqIDs : id \in Nat
  BY ReqIDsAssumption
<1>3. Exclusive'
  <2> SUFFICES ASSUME NEW id \in ReqIDs, NEW k \in Spots, NEW l \in Spots, NEW x \in Owners, NEW y \in Owners,
                      Has(k, x, id)', Has(l, y, id)'
               PROVE  k = l /\ x = y
    BY Zenon DEF Exclusive
  <2>1. Handled(id)
    BY Zenon DEF Carried
  <2>2. CASE Stay(id)
    <3>1. Has(k, x, id) /\ Has(l, y, id)
      BY <2>2, Zenon DEF Stay
    <3>2. Exclusive
      BY Zenon DEF PlacesInv
    <3> QED
      BY <3>1, <3>2, Zenon DEF Exclusive
  <2>3. CASE Gone(id)
    BY <2>3, Zenon DEF Gone
  <2>4. CASE \E m \in Spots, z \in Owners : Goes(id, m, z)
    BY <2>4, Zenon DEF Goes
  <2> QED
    BY <2>1, <2>2, <2>3, <2>4, Zenon DEF Handled
<1>4. ASSUME NEW id \in ReqIDs, NEW k \in Holding, NEW x \in Owners, Has(k, x, id)'
      PROVE  id < base' + Limit
  <2>1. Handled(id)
    BY Zenon DEF Carried
  <2>2. CASE Stay(id)
    <3>1. Has(k, x, id)
      BY <1>1, <1>4, <2>2, Zenon DEF Stay
    <3>2. id < base + Limit
      BY <3>1, Zenon DEF PlacesInv
    <3> QED
      BY <1>2, <3>2, LimitPositive DEF Advance
  <2>3. CASE Gone(id)
    BY <1>1, <1>4, <2>3, Zenon DEF Gone
  <2>4. ASSUME NEW m \in Spots, NEW z \in Owners, Goes(id, m, z), Arrives(id, m)
        PROVE  id < base' + Limit
    BY <1>1, <1>4, <2>4, Zenon DEF Goes, Arrives
  <2> QED
    BY <2>1, <2>2, <2>3, <2>4, Zenon DEF Handled
<1>5. ASSUME NEW id \in ReqIDs, NEW k \in {"acks", "ack"}, NEW x \in Owners, Has(k, x, id)'
      PROVE  id \in written'
  <2>1. Handled(id)
    BY Zenon DEF Carried
  <2>2. CASE Stay(id)
    <3>1. Has(k, x, id)
      BY <1>1, <1>5, <2>2, Zenon DEF Stay
    <3>2. id \in written
      BY <3>1, Zenon DEF PlacesInv
    <3> QED
      BY <3>2, Zenon DEF Advance
  <2>3. CASE Gone(id)
    BY <1>1, <1>5, <2>3, Zenon DEF Gone
  <2>4. ASSUME NEW m \in Spots, NEW z \in Owners, Goes(id, m, z), Arrives(id, m)
        PROVE  id \in written'
    BY <1>1, <1>5, <2>4, Zenon DEF Goes, Arrives
  <2> QED
    BY <2>1, <2>2, <2>3, <2>4, Zenon DEF Handled
<1>6. ASSUME Lossless', NEW id \in ReqIDs
      PROVE  \E k \in Spots, x \in Owners : Has(k, x, id)'
  <2>1. Handled(id) /\ \E k \in Spots, x \in Owners : Has(k, x, id)
    BY <1>6, Zenon DEF Carried, PlacesInv, Advance
  <2>2. CASE Stay(id)
    BY <2>1, <2>2, Zenon DEF Stay
  <2>3. CASE \E m \in Spots, z \in Owners : Goes(id, m, z)
    BY <2>3, Zenon DEF Goes
  <2> QED
    BY <1>6, <2>1, <2>2, <2>3, Zenon DEF Handled
<1>7. ASSUME Lossless', NEW id \in ReqIDs, Has("free", Nobody, id)'
      PROVE  id \in written'
  <2>1. Handled(id)
    BY Zenon DEF Carried
  <2>2. CASE Stay(id)
    <3>1. Has("free", Nobody, id)
      BY <1>1, <1>7, <2>2, Zenon DEF Stay
    <3>2. id \in written
      BY <1>7, <3>1, Zenon DEF PlacesInv, Advance
    <3> QED
      BY <3>2, Zenon DEF Advance
  <2>3. ASSUME NEW m \in Spots, NEW z \in Owners, Goes(id, m, z), Arrives(id, m)
        PROVE  id \in written'
    BY <1>1, <1>7, <2>3, ZenonT(30) DEF Goes, Arrives
  <2> QED
    BY <1>7, <2>1, <2>2, <2>3, Zenon DEF Handled
<1> QED
  BY <1>3, <1>4, <1>5, <1>6, <1>7, Zenon DEF PlacesInv

(* A step that changes none of the places.                                 *)
LEMMA StayPut ==
  ASSUME nextID' = nextID, chunkCh' = chunkCh, \A r \in Readers : rd'[r].id = rd[r].id,
         readCh' = readCh,
         \A s \in Senders : SenderOwns(s)' = SenderOwns(s) /\ snd'[s].cc.id = snd[s].cc.id,
         wire' = wire, acks' = acks, \A s \in Senders : ack'[s].ids = ack[s].ids, Freed' = Freed
  PROVE  Carried
<1> SUFFICES ASSUME NEW id \in ReqIDs, NEW k \in Spots, NEW x \in Owners
             PROVE  Has(k, x, id)' <=> Has(k, x, id)
  BY Zenon DEF Carried, Handled, Stay
<1> QED
  BY Zenon, Unmoved

(* The ids of M move from one place to another.                            *)
Leave(M, k, x) ==
  /\ \A id \in M : id \in ReqIDs /\ Has(k, x, id)
  /\ \A id \in ReqIDs : Has(k, x, id)' <=> Has(k, x, id) /\ id \notin M
Enter(M, l, y) == \A id \in ReqIDs : Has(l, y, id)' <=> Has(l, y, id) \/ id \in M
Elsewhere(k, x, l, y) ==
  \A m \in Spots, z \in Owners : ~(m = k /\ z = x) /\ ~(m = l /\ z = y) =>
    \A id \in ReqIDs : Has(m, z, id)' <=> Has(m, z, id)

(* A step that moves M and leaves all other places alone carries every id. *)
LEMMA Move ==
  ASSUME PipeInv, NEW M, NEW k \in Spots, NEW x \in Owners, NEW l \in Spots, NEW y \in Owners,
         ~(k = l /\ x = y), Leave(M, k, x), Enter(M, l, y), Elsewhere(k, x, l, y)
  PROVE  \A id \in ReqIDs : IF id \in M THEN Goes(id, l, y) ELSE Stay(id)
<1> USE DEF Leave, Enter, Elsewhere
<1> TAKE id \in ReqIDs
<1>1. CASE id \in M
  <2> SUFFICES ASSUME NEW m \in Spots, NEW z \in Owners
               PROVE  Has(m, z, id)' <=> m = l /\ z = y
    BY <1>1, Zenon DEF Goes
  <2>1. Has(k, x, id) /\ ~Has(k, x, id)' /\ Has(l, y, id)'
    BY <1>1, Zenon
  <2>2. Has(m, z, id) => m = k /\ z = x
    BY <2>1, Zenon DEF PipeInv, PlacesInv, Exclusive
  <2> QED
    BY <2>1, <2>2, Zenon
<1>2. CASE id \notin M
  <2> SUFFICES ASSUME NEW m \in Spots, NEW z \in Owners
               PROVE  Has(m, z, id)' <=> Has(m, z, id)
    BY <1>2, Zenon DEF Stay
  <2> QED
    BY <1>2, Zenon
<1> QED
  BY <1>1, <1>2, Zenon

-----------------------------------------------------------------------------
(* The steps of the readers                                                *)

(* A step that leaves the senders alone and only adds errors.              *)
LEMMA SendersKept ==
  ASSUME SenderInv, UNCHANGED <<snd, ack, stream, wire, acks, readCh>>,
         readClosed = TRUE => readClosed' = TRUE, errs \subseteq errs', faulty = TRUE => faulty' = TRUE
  PROVE  SenderInv'
<1> SUFFICES ASSUME NEW s \in Senders PROVE SenderOK(s)'
  BY Zenon DEF SenderInv
<1>1. SenderOK(s)
  BY Zenon DEF SenderInv
<1> QED
  BY <1>1, Zenon DEF SenderOK

ReaderRec == [pc : ReaderPc, id : ReqIDs \cup {-1}, mem : Nat, win : BOOLEAN]

(* A step of reader r that takes it to w and leaves every id in its place. *)
LEMMA QuietReader ==
  ASSUME PipeInv, NEW r \in Readers, NEW w \in ReaderRec,
         rd' = [rd EXCEPT ![r] = w], w.id = rd[r].id, rd[r].pc # "done",
         UNCHANGED <<feedVars, readCh, readClosed, snd, ack, netVars, cancelled, result>>,
         UNCHANGED <<base, released>>, waiters' \subseteq ReqIDs, granted' \subseteq granted,
         errs \subseteq errs', errs' \subseteq errs \cup {"read"},
         faulty' \in BOOLEAN, faulty = TRUE => faulty' = TRUE, errs' # errs => faulty' = TRUE,
         ReaderOK(w, faulty'), w.win = TRUE => w.id < base + Limit,
         rd[r].pc \in {"drop", "failed"} => w.pc \in {"drop", "failed"} \/ errs' # {},
         w.pc = "done" => errs' # {} \/ (feeding = FALSE /\ chunkCh = <<>>)
  PROVE  PipeInv'
<1>1. PipeTypes /\ PlacesInv /\ QueueInv /\ SlotInv /\ ReaderInv /\ SenderInv /\ ControlInv /\ WrittenFed
  BY Zenon DEF PipeInv
<1>2. /\ nextID' = nextID /\ feeding' = feeding /\ chunkCh' = chunkCh /\ readCh' = readCh
      /\ readClosed' = readClosed /\ snd' = snd /\ ack' = ack /\ stream' = stream /\ wire' = wire
      /\ acks' = acks /\ written' = written /\ cancelled' = cancelled /\ result' = result
      /\ base' = base /\ released' = released
  BY Zenon DEF feedVars, netVars
<1>3. /\ rd \in [Readers -> ReaderRec] /\ rd' \in [Readers -> ReaderRec]
      /\ rd'[r] = w /\ \A q \in Readers : q # r => rd'[q] = rd[q]
  BY <1>1, Zenon DEF PipeTypes, ReaderRec
<1>4. PipeTypes'
  <2>1. errs' \subseteq {"pipe", "read", "send"} \cup Senders /\ granted' \subseteq ReqIDs
    BY ZenonT(30), <1>1 DEF PipeTypes
  <2> QED
    BY <1>1, <1>2, <1>3, <2>1, Zenon DEF PipeTypes, ReaderRec
<1>5. Carried
  <2>1. \A q \in Readers : rd'[q].id = rd[q].id
    BY <1>3, Zenon
  <2>2. Freed' = Freed
    BY <1>2, Zenon DEF Freed
  <2>3. \A s \in Senders : SenderOwns(s)' = SenderOwns(s) /\ snd'[s].cc.id = snd[s].cc.id
                           /\ ack'[s].ids = ack[s].ids
    BY <1>2, Zenon DEF SenderOwns, SenderAt
  <2> QED
    BY Zenon, <1>2, <2>1, <2>2, <2>3, StayPut
<1>6. Lossless' => Lossless
  <2> SUFFICES ASSUME Lossless' PROVE Lossless
    BY Zenon
  <2>1. errs = {} /\ errs' = {}
    BY Zenon DEF Lossless
  <2>2. rd[r].pc \notin {"drop", "failed"}
    BY Zenon, <1>3, <2>1 DEF Lossless
  <2> QED
    BY <1>2, <1>3, <2>1, <2>2, Zenon DEF Lossless
<1>7. PlacesInv'
  <2>1. Advance
    BY <1>1, <1>2, <1>6 DEF PipeTypes, Advance
  <2> QED
    BY Zenon, <1>1, <1>5, <2>1, CarriedPlaces DEF PipeTypes
<1>8. QueueInv' /\ WrittenFed'
  BY <1>1, <1>2, Zenon DEF QueueInv, WrittenFed
<1>9. SlotInv'
  BY <1>1, <1>2, <1>3 DEF SlotInv
<1>10. ReaderInv'
  <2>1. \A q \in Readers : q # r => ReaderOK(rd[q], faulty')
    BY Zenon, <1>1 DEF ReaderInv, ReaderOK
  <2> QED
    BY <1>3, <2>1, Zenon DEF ReaderInv
<1>11. SenderInv'
  BY Zenon, <1>1, <1>2, SendersKept
<1>12. ControlInv'
  <2>1. readClosed = FALSE /\ result = "none"
    BY Zenon, <1>1 DEF ControlInv, PipeTypes
  <2>2. errs' # {} \/ cancelled' = TRUE => faulty' = TRUE
    BY <1>1, <1>2 DEF ControlInv
  <2>3. (\E q \in Readers : rd'[q].pc # "done") \/ errs' # {} \/ (feeding' = FALSE /\ chunkCh' = <<>>)
    BY <1>2, <1>3, Zenon
  <2>4. (\E s \in Senders : snd'[s].pc # "closed") \/ errs' # {}
    BY Zenon, <1>1, <1>2, <2>1 DEF ControlInv
  <2>5. feeding' = FALSE => nextID' \notin ReqIDs \/ errs' # {}
    BY <1>1, <1>2 DEF ControlInv
  <2> QED
    BY Zenon, <1>2, <2>1, <2>2, <2>3, <2>4, <2>5 DEF ControlInv
<1> QED
  BY <1>4, <1>7, <1>8, <1>9, <1>10, <1>11, <1>12, Zenon DEF PipeInv

(* What is known of a reader, and of its record after a step.              *)
LEMMA ReaderAt ==
  ASSUME PipeInv, NEW r \in Readers
  PROVE  /\ rd[r] \in ReaderRec /\ rd[r].pc \in ReaderPc /\ rd[r].id \in ReqIDs \cup {-1}
         /\ rd[r].mem \in Nat /\ rd[r].win \in BOOLEAN /\ ReaderOK(rd[r], faulty)
         /\ rd[r].win = TRUE => rd[r].id < base + Limit
         /\ \A pc : rd' = [rd EXCEPT ![r].pc = pc] => rd' = [rd EXCEPT ![r] = [rd[r] EXCEPT !.pc = pc]]
         /\ waiters \subseteq ReqIDs /\ faulty \in BOOLEAN /\ base \in Nat
<1>1. rd \in [Readers -> ReaderRec] /\ waiters \subseteq ReqIDs /\ faulty \in BOOLEAN /\ base \in Nat
  BY Zenon DEF PipeInv, PipeTypes, ReaderRec
<1>2. rd[r] \in ReaderRec
  BY <1>1, Zenon
<1>3. rd[r].pc \in ReaderPc /\ rd[r].id \in ReqIDs \cup {-1} /\ rd[r].mem \in Nat /\ rd[r].win \in BOOLEAN
  BY <1>2 DEF ReaderRec
<1>4. ReaderOK(rd[r], faulty) /\ (rd[r].win = TRUE => rd[r].id < base + Limit)
  BY Zenon DEF PipeInv, ReaderInv, SlotInv
<1>5. \A pc : rd' = [rd EXCEPT ![r].pc = pc] => rd' = [rd EXCEPT ![r] = [rd[r] EXCEPT !.pc = pc]]
  BY <1>1, <1>2, Zenon
<1> QED
  BY <1>1, <1>2, <1>3, <1>4, <1>5, Zenon

(* chunkCh is closed and empty: the read worker returns nil.               *)
LEMMA ReadDrainedInv ==
  ASSUME PipeInv, NEW r \in Readers, ReadDrained(r)
  PROVE  PipeInv'
<1> DEFINE w == [rd[r] EXCEPT !.pc = "done"]
<1>1. rd' = [rd EXCEPT ![r] = w] /\ rd[r].pc = "idle" /\ chunkCh = <<>> /\ feeding = FALSE
  BY ReaderAt DEF ReadDrained, GoesTo, At, PipeInv, PipeTypes
<1>2. /\ w \in ReaderRec /\ w.id = rd[r].id /\ w.pc = "done" /\ w.win = rd[r].win
  BY Zenon, ReaderAt DEF ReaderRec, ReaderPc
<1>3. ReaderOK(w, faulty)
  BY Zenon, <1>1, <1>2, ReaderAt DEF ReaderOK
<1>4. /\ UNCHANGED <<feedVars, readCh, readClosed, snd, ack, netVars, cancelled, result>>
      /\ UNCHANGED <<base, released>> /\ waiters' \subseteq ReqIDs /\ granted' \subseteq granted
      /\ errs' = errs /\ faulty' = faulty
  BY ReaderAt, Zenon DEF ReadDrained, ReaderKeeps, winVars
<1> HIDE DEF w
<1> QED
  BY Zenon, <1>1, <1>2, <1>3, <1>4, ReaderAt, QuietReader

(* The reader takes its memory, parks for it, or goes on to the window.    *)
LEMMA ReadMemInv ==
  ASSUME PipeInv, NEW r \in Readers, ReadMem(r)
  PROVE  PipeInv'
<1> DEFINE n == Size[rd[r].id]
           w == [rd[r] EXCEPT !.pc = "win", !.mem = n]
           v == [rd[r] EXCEPT !.pc = "memwait"]
<1>1. /\ UNCHANGED <<feedVars, readCh, readClosed, snd, ack, netVars, cancelled, result>>
      /\ UNCHANGED <<base, released>> /\ waiters' \subseteq ReqIDs /\ granted' \subseteq granted
      /\ errs' = errs /\ faulty' = faulty
  BY ReaderAt, Zenon DEF ReadMem, ReaderKeeps, winVars
<1>2. /\ rd[r].pc \in {"mem", "memwait"}
      /\ rd' = [rd EXCEPT ![r].pc = "win", ![r].mem = n] \/ rd' = [rd EXCEPT ![r].pc = "memwait"]
  BY Zenon DEF ReadMem, At, GoesTo
<1>3. rd[r].id \in ReqIDs /\ rd[r].win = FALSE
  BY Zenon, <1>2, ReaderAt DEF ReaderOK
<1>4. n \in Nat
  BY <1>3, PipelineAssumption, CapacityAssumption
<1>5. rd' = [rd EXCEPT ![r] = w] \/ rd' = [rd EXCEPT ![r] = v]
  BY <1>2, ReaderAt, Zenon DEF PipeInv, PipeTypes
<1>6. /\ w \in ReaderRec /\ w.id = rd[r].id /\ w.pc = "win" /\ w.win = FALSE
      /\ v \in ReaderRec /\ v.id = rd[r].id /\ v.pc = "memwait" /\ v.win = FALSE
  BY Zenon, <1>3, <1>4, ReaderAt DEF ReaderRec, ReaderPc
<1>7. ReaderOK(w, faulty) /\ ReaderOK(v, faulty)
  BY <1>3, <1>6 DEF ReaderOK
<1> HIDE DEF w, v, n
<1>8. CASE rd' = [rd EXCEPT ![r] = w]
  BY Zenon, <1>1, <1>2, <1>6, <1>7, <1>8, ReaderAt, QuietReader
<1>9. CASE rd' = [rd EXCEPT ![r] = v]
  BY Zenon, <1>1, <1>2, <1>6, <1>7, <1>9, ReaderAt, QuietReader
<1> QED
  BY <1>5, <1>8, <1>9

(* The reader takes its slot, parks for it, or is woken with it.           *)
LEMMA ReadWinInv ==
  ASSUME PipeInv, NEW r \in Readers, ReadWin(r)
  PROVE  PipeInv'
<1> DEFINE id == rd[r].id
           pc == IF Kind[id] = "zero" THEN "emit" ELSE "read"
           w == [rd[r] EXCEPT !.pc = pc, !.win = TRUE]
           v == [rd[r] EXCEPT !.pc = "winwait"]
<1>1. /\ UNCHANGED <<feedVars, readCh, readClosed, snd, ack, netVars, cancelled, result>>
      /\ errs' = errs /\ faulty' = faulty
  BY Zenon DEF ReadWin, ReaderKeeps
<1>2. /\ rd[r].pc \in {"win", "winwait"}
      /\ \/ /\ rd' = [rd EXCEPT ![r].pc = pc, ![r].win = TRUE] /\ (InWindow(id, base) \/ id \in granted)
            /\ waiters' = waiters /\ granted' \subseteq granted
         \/ rd' = [rd EXCEPT ![r].pc = "winwait"] /\ waiters' = waiters \cup {id} /\ granted' = granted
      /\ UNCHANGED <<base, released>>
  BY Zenon DEF ReadWin, At, GoesTo, WinAcquire, WinPark, WinWake
<1>3. id \in ReqIDs /\ rd[r].win = FALSE
  BY Zenon, <1>2, ReaderAt DEF ReaderOK
<1>4. /\ UNCHANGED <<base, released>> /\ waiters' \subseteq ReqIDs /\ granted' \subseteq granted
  BY Zenon, <1>2, <1>3, ReaderAt
<1>5. \/ rd' = [rd EXCEPT ![r] = w] /\ (InWindow(id, base) \/ id \in granted)
      \/ rd' = [rd EXCEPT ![r] = v]
  BY <1>2, ReaderAt, Zenon DEF PipeInv, PipeTypes
<1>6. /\ w \in ReaderRec /\ w.id = rd[r].id /\ w.pc \in {"emit", "read"} /\ w.win = TRUE
      /\ v \in ReaderRec /\ v.id = rd[r].id /\ v.pc = "winwait" /\ v.win = FALSE
  BY Zenon, <1>3, ReaderAt DEF ReaderRec, ReaderPc
<1>7. ReaderOK(w, faulty) /\ ReaderOK(v, faulty)
  BY <1>3, <1>6 DEF ReaderOK
<1>8. InWindow(id, base) \/ id \in granted => id < base + Limit
  BY DEF InWindow, PipeInv, SlotInv
<1> HIDE DEF w, v, pc
<1>9. CASE rd' = [rd EXCEPT ![r] = w] /\ (InWindow(id, base) \/ id \in granted)
  BY Zenon, <1>1, <1>2, <1>4, <1>6, <1>7, <1>8, <1>9, ReaderAt, QuietReader
<1>10. CASE rd' = [rd EXCEPT ![r] = v]
  BY Zenon, <1>1, <1>2, <1>4, <1>6, <1>7, <1>10, ReaderAt, QuietReader
<1> QED
  BY <1>5, <1>9, <1>10

(* The reader has read its block.                                          *)
LEMMA ReadAtInv ==
  ASSUME PipeInv, NEW r \in Readers, ReadAt(r)
  PROVE  PipeInv'
<1> DEFINE w == [rd[r] EXCEPT !.pc = "emit", !.mem = 0]
           v == [rd[r] EXCEPT !.pc = "emit"]
<1>1. /\ UNCHANGED <<feedVars, readCh, readClosed, snd, ack, netVars, cancelled, result>>
      /\ UNCHANGED <<base, released>> /\ waiters' \subseteq ReqIDs /\ granted' \subseteq granted
      /\ errs' = errs /\ faulty' = faulty
  BY ReaderAt, Zenon DEF ReadAt, ReaderKeeps, winVars
<1>2. /\ rd[r].pc = "read"
      /\ rd' = [rd EXCEPT ![r].pc = "emit", ![r].mem = 0] \/ rd' = [rd EXCEPT ![r].pc = "emit"]
  BY Zenon DEF ReadAt, At, GoesTo
<1>3. rd[r].id \in ReqIDs /\ rd[r].win = TRUE
  BY Zenon, <1>2, ReaderAt DEF ReaderOK
<1>4. rd' = [rd EXCEPT ![r] = w] \/ rd' = [rd EXCEPT ![r] = v]
  BY <1>2, ReaderAt, Zenon DEF PipeInv, PipeTypes
<1>5. /\ w \in ReaderRec /\ w.id = rd[r].id /\ w.pc = "emit" /\ w.win = TRUE
      /\ v \in ReaderRec /\ v.id = rd[r].id /\ v.pc = "emit" /\ v.win = TRUE
  BY Zenon, <1>3, ReaderAt DEF ReaderRec, ReaderPc
<1>6. ReaderOK(w, faulty) /\ ReaderOK(v, faulty)
  BY <1>3, <1>5 DEF ReaderOK
<1> HIDE DEF w, v
<1>7. CASE rd' = [rd EXCEPT ![r] = w]
  BY Zenon, <1>1, <1>2, <1>3, <1>5, <1>6, <1>7, ReaderAt, QuietReader
<1>8. CASE rd' = [rd EXCEPT ![r] = v]
  BY Zenon, <1>1, <1>2, <1>3, <1>5, <1>6, <1>8, ReaderAt, QuietReader
<1> QED
  BY <1>4, <1>7, <1>8

(* ReadAt returns an error: the reader goes to give its chunk up.          *)
LEMMA ReadFailsInv ==
  ASSUME PipeInv, NEW r \in Readers, ReadFails(r)
  PROVE  PipeInv'
<1> DEFINE w == [rd[r] EXCEPT !.pc = "drop"]
<1>1. /\ UNCHANGED <<feedVars, readCh, readClosed, snd, ack, netVars, cancelled, result>>
      /\ UNCHANGED <<base, released>> /\ waiters' \subseteq ReqIDs /\ granted' \subseteq granted
      /\ errs' = errs /\ faulty' = TRUE
  BY ReaderAt, Zenon DEF ReadFails, winVars
<1>2. rd[r].pc = "read" /\ rd' = [rd EXCEPT ![r] = w]
  BY ReaderAt, Zenon DEF ReadFails, At, GoesTo
<1>3. /\ w \in ReaderRec /\ w.id = rd[r].id /\ w.pc = "drop" /\ w.win = rd[r].win
  BY Zenon, ReaderAt DEF ReaderRec, ReaderPc
<1>4. ReaderOK(w, TRUE)
  BY Zenon, <1>2, <1>3, ReaderAt DEF ReaderOK
<1> HIDE DEF w
<1> QED
  BY Zenon, <1>1, <1>2, <1>3, <1>4, ReaderAt, QuietReader

(* A parked or sending reader finds its context cancelled.                 *)
LEMMA ReadCancelledInv ==
  ASSUME PipeInv, NEW r \in Readers, ReadCancelled(r)
  PROVE  PipeInv'
<1> DEFINE w == [rd[r] EXCEPT !.pc = "drop"]
<1>1. /\ UNCHANGED <<feedVars, readCh, readClosed, snd, ack, netVars, cancelled, result>>
      /\ errs' = errs /\ faulty' = faulty
  BY Zenon DEF ReadCancelled, ReaderKeeps
<1>2. /\ UNCHANGED <<base, released>> /\ granted' = granted
      /\ waiters' = waiters \/ waiters' = waiters \ {rd[r].id}
  BY Zenon DEF ReadCancelled, winVars, WinCancel
<1>3. rd[r].pc \in {"idle", "emit", "memwait", "winwait"} /\ rd' = [rd EXCEPT ![r] = w]
  BY ReaderAt, Zenon DEF ReadCancelled, At, GoesTo
<1>4. /\ w \in ReaderRec /\ w.id = rd[r].id /\ w.pc = "drop" /\ w.win = rd[r].win
  BY Zenon, ReaderAt DEF ReaderRec, ReaderPc
<1>5. faulty = TRUE
  BY DEF ReadCancelled, ReadDone, PipeDone, PipeInv, ControlInv
<1>6. ReaderOK(w, TRUE)
  BY Zenon, <1>3, <1>4, ReaderAt DEF ReaderOK
<1>7. waiters' \subseteq ReqIDs /\ granted' \subseteq granted
  BY Zenon, <1>2, ReaderAt
<1> HIDE DEF w
<1> QED
  BY Zenon, <1>1, <1>2, <1>3, <1>4, <1>5, <1>6, <1>7, ReaderAt, QuietReader

(* A reader that has given up its chunk returns its error.                 *)
LEMMA ReadReturnsInv ==
  ASSUME PipeInv, NEW r \in Readers, ReadReturns(r)
  PROVE  PipeInv'
<1> DEFINE w == [rd[r] EXCEPT !.pc = "done"]
<1>1. /\ UNCHANGED <<feedVars, readCh, readClosed, snd, ack, netVars, cancelled, result>>
      /\ UNCHANGED <<base, released>> /\ waiters' \subseteq ReqIDs /\ granted' \subseteq granted
      /\ errs' = errs \cup {"read"} /\ faulty' = faulty
  BY ReaderAt, Zenon DEF ReadReturns, ReaderKeeps, winVars
<1>2. rd[r].pc = "failed" /\ rd' = [rd EXCEPT ![r] = w]
  BY ReaderAt, Zenon DEF ReadReturns, At, GoesTo
<1>3. /\ w \in ReaderRec /\ w.id = rd[r].id /\ w.pc = "done" /\ w.win = rd[r].win
  BY Zenon, ReaderAt DEF ReaderRec, ReaderPc
<1>4. faulty = TRUE /\ ReaderOK(w, TRUE)
  BY Zenon, <1>2, <1>3, ReaderAt DEF ReaderOK
<1>5. errs' # {} /\ errs \subseteq errs' /\ errs' \subseteq errs \cup {"read"}
  BY <1>1
<1> HIDE DEF w
<1> QED
  BY Zenon, <1>1, <1>2, <1>3, <1>4, <1>5, ReaderAt, QuietReader

-----------------------------------------------------------------------------
(* Ids that move from the iterator to readCh                               *)

SenderRec == [pc : SenderPc, batch : Seq(Chunk), cc : Chunk \cup {Nothing}]
AckRec == [pc : AckPc, ids : Seq(ReqIDs)]

(* What an update of one field of a sender or of an ack receiver yields.   *)
LEMMA SenderTypes ==
  ASSUME PipeInv
  PROVE  /\ snd \in [Senders -> SenderRec] /\ ack \in [Senders -> AckRec]
         /\ stream \in [Senders -> {"none", "open", "eof", "broken"}]
         /\ errs \subseteq {"pipe", "read", "send"} \cup Senders
         /\ feeding \in BOOLEAN /\ readClosed \in BOOLEAN /\ cancelled \in BOOLEAN /\ faulty \in BOOLEAN
         /\ result \in {"none", "ok", "err"}
         /\ SenderInv /\ ControlInv
         /\ written \subseteq ReqIDs /\ \A id \in written : id < nextID
BY Zenon DEF PipeInv, PipeTypes, SenderRec, AckRec, WrittenFed

(* An id that is at one place is at no other.                              *)
LEMMA OnlyHere ==
  ASSUME PipeInv, NEW id \in ReqIDs, NEW k \in Spots, NEW x \in Owners, Has(k, x, id),
         NEW l \in Spots, NEW y \in Owners, ~(k = l /\ x = y)
  PROVE  ~Has(l, y, id)
BY Zenon DEF PipeInv, PlacesInv, Exclusive

(* The names of the places, and who may have them.                         *)
LEMMA SpotsOwners ==
  /\ \A k \in {"unfed", "chunkCh", "reader", "readCh", "batch", "cc", "wire", "acks", "ack", "free"} :
       k \in Spots
  /\ Nobody \in Owners /\ Readers \subseteq Owners /\ Senders \subseteq Owners
BY Zenon DEF Spots, Owners

(* The feeder hands the next id of the iterator to chunkCh.                *)
LEMMA FeedInv ==
  ASSUME PipeInv, Feed
  PROVE  PipeInv'
<1>1. PipeTypes /\ PlacesInv /\ QueueInv /\ SlotInv /\ ReaderInv /\ SenderInv /\ ControlInv /\ WrittenFed
  BY Zenon DEF PipeInv
<1>2. /\ feeding' = feeding /\ readCh' = readCh /\ rd' = rd
      /\ readClosed' = readClosed /\ snd' = snd /\ ack' = ack /\ stream' = stream /\ wire' = wire
      /\ acks' = acks /\ written' = written /\ cancelled' = cancelled /\ result' = result
      /\ base' = base /\ released' = released /\ waiters' = waiters /\ granted' = granted
      /\ errs' = errs /\ faulty' = faulty
  BY Zenon DEF Feed, readVars, netVars, winVars, ctlVars
<1>3. nextID \in ReqIDs /\ chunkCh' = Append(chunkCh, nextID) /\ nextID' = nextID + 1 /\ feeding = TRUE
  BY Zenon, <1>1 DEF Feed, PipeTypes
<1>4. Has("unfed", Nobody, nextID)
  BY <1>1, Cells DEF PipeTypes
<1>5. nextID \notin Range(chunkCh)
  BY <1>3, <1>4, OnlyHere, Cells, SpotsOwners, ZenonT(30)
<1>6. /\ chunkCh' \in Seq(ReqIDs) /\ Range(chunkCh') = Range(chunkCh) \cup {nextID} /\ Distinct(chunkCh')
  BY <1>1, <1>3, <1>5, AppendRange DEF PipeTypes, QueueInv
<1>7. PipeTypes'
  <2>1. nextID' \in Nat
    BY <1>1, <1>3 DEF PipeTypes
  <2> QED
    BY <1>1, <1>2, <1>6, <2>1, Zenon DEF PipeTypes
<1>8. \A id \in ReqIDs : IF id \in {nextID} THEN Goes(id, "chunkCh", Nobody) ELSE Stay(id)
  <2>1. Leave({nextID}, "unfed", Nobody)
    <3>1. \A id \in ReqIDs : nextID' <= id <=> nextID <= id /\ id # nextID
      BY SMTT(30), <1>1, <1>3, ReqIDsAssumption DEF PipeTypes
    <3> QED
      BY Zenon, <1>3, <1>4, <3>1, Cells, CellsPrimed DEF Leave
  <2>2. Enter({nextID}, "chunkCh", Nobody)
    BY ZenonT(30), <1>6, Cells, CellsPrimed DEF Enter
  <2>3. Elsewhere("unfed", Nobody, "chunkCh", Nobody)
    <3> SUFFICES ASSUME NEW m \in Spots, NEW z \in Owners, ~(m = "unfed" /\ z = Nobody),
                        ~(m = "chunkCh" /\ z = Nobody), NEW id \in ReqIDs
                 PROVE  Has(m, z, id)' <=> Has(m, z, id)
      BY Zenon DEF Elsewhere
    <3>1. Freed' = Freed
      BY <1>2, Zenon DEF Freed
    <3>2. z \in Senders => SenderOwns(z)' = SenderOwns(z)
      BY <1>2, Zenon DEF SenderOwns, SenderAt
    <3> QED
      BY Zenon, <1>2, <3>1, <3>2, Unmoved
  <2> QED
    BY Zenon, <2>1, <2>2, <2>3, Move, SpotsOwners
<1>9. PlacesInv'
  <2>1. Carried
    <3>1. Arrives(nextID, "chunkCh")
      BY Zenon DEF Arrives, Holding
    <3> QED
      BY <1>8, <3>1, SpotsOwners, Zenon DEF Carried, Handled
  <2>2. Advance
    BY <1>1, <1>2 DEF PipeTypes, Advance, Lossless
  <2> QED
    BY <1>1, <2>1, <2>2, CarriedPlaces DEF PipeTypes
<1>10. QueueInv' /\ SlotInv' /\ ReaderInv'
  BY <1>1, <1>2, <1>6, Zenon DEF QueueInv, SlotInv, ReaderInv
<1>11. SenderInv'
  BY <1>1, <1>2, ZenonT(30) DEF SenderInv, SenderOK
<1>12. ControlInv'
  BY Zenon, <1>1, <1>2, <1>3 DEF ControlInv
<1>13. WrittenFed'
  <2>1. \A id \in written : id \in Nat
    BY <1>1, ReqIDsAssumption DEF PipeTypes
  <2> QED
    BY <1>1, <1>2, <1>3, <2>1 DEF WrittenFed, PipeTypes
<1> QED
  BY <1>7, <1>9, <1>10, <1>11, <1>12, <1>13, Zenon DEF PipeInv

(* A reader takes an id from chunkCh.                                      *)
LEMMA ReadTakeInv ==
  ASSUME PipeInv, NEW r \in Readers, ReadTake(r)
  PROVE  PipeInv'
<1> DEFINE h == Head(chunkCh)
           w == [pc |-> IF Kind[h] = "zero" THEN "win" ELSE "mem", id |-> h, mem |-> 0, win |-> FALSE]
<1>1. PipeTypes /\ PlacesInv /\ QueueInv /\ SlotInv /\ ReaderInv /\ SenderInv /\ ControlInv /\ WrittenFed
  BY Zenon DEF PipeInv
<1>2. /\ nextID' = nextID /\ feeding' = feeding /\ readCh' = readCh
      /\ readClosed' = readClosed /\ snd' = snd /\ ack' = ack /\ stream' = stream /\ wire' = wire
      /\ acks' = acks /\ written' = written /\ cancelled' = cancelled /\ result' = result
      /\ base' = base /\ released' = released /\ waiters' = waiters /\ granted' = granted
      /\ errs' = errs /\ faulty' = faulty
  BY Zenon DEF ReadTake, ReaderKeeps, netVars, winVars
<1>3. chunkCh # <<>> /\ chunkCh' = Tail(chunkCh) /\ rd[r].pc = "idle" /\ rd' = [rd EXCEPT ![r] = w]
  BY Zenon DEF ReadTake, At
<1>4. /\ chunkCh' \in Seq(ReqIDs) /\ h \in ReqIDs /\ Range(chunkCh) = Range(chunkCh') \cup {h}
      /\ Distinct(chunkCh') /\ h \notin Range(chunkCh')
  BY Zenon, <1>1, <1>3, TailRange DEF PipeTypes, QueueInv
<1>5. /\ w \in ReaderRec /\ w.id = h /\ w.pc \in {"win", "mem"} /\ w.win = FALSE
  BY <1>4 DEF ReaderRec, ReaderPc
<1> HIDE DEF w, h
<1>6. /\ rd \in [Readers -> ReaderRec] /\ rd' \in [Readers -> ReaderRec]
      /\ rd'[r] = w /\ \A q \in Readers : q # r => rd'[q] = rd[q]
  BY <1>1, <1>3, <1>5, Zenon DEF PipeTypes, ReaderRec
<1>7. PipeTypes'
  BY <1>1, <1>2, <1>4, <1>6, ZenonT(30) DEF PipeTypes, ReaderRec
<1>8. Has("chunkCh", Nobody, h)
  BY <1>4, Cells
<1>9. \A id \in ReqIDs : IF id \in {h} THEN Goes(id, "reader", r) ELSE Stay(id)
  <2>1. Leave({h}, "chunkCh", Nobody)
    BY ZenonT(30), <1>4, <1>8, Cells, CellsPrimed DEF Leave
  <2>2. Enter({h}, "reader", r)
    <3>1. rd[r].id \notin ReqIDs
      <4>1. rd[r].id = -1
        BY ZenonT(30), <1>3, ReaderAt DEF ReaderOK
      <4> QED
        BY <4>1, ReqIDsAssumption
    <3> QED
      BY <1>5, <1>6, <3>1, Cells, CellsPrimed DEF Enter
  <2>3. Elsewhere("chunkCh", Nobody, "reader", r)
    <3> SUFFICES ASSUME NEW m \in Spots, NEW z \in Owners, ~(m = "chunkCh" /\ z = Nobody),
                        ~(m = "reader" /\ z = r), NEW id \in ReqIDs
                 PROVE  Has(m, z, id)' <=> Has(m, z, id)
      BY Zenon DEF Elsewhere
    <3>1. Freed' = Freed
      BY <1>2, Zenon DEF Freed
    <3>2. z \in Senders => SenderOwns(z)' = SenderOwns(z)
      BY <1>2, Zenon DEF SenderOwns, SenderAt
    <3>3. z \in Readers /\ z # r => rd'[z].id = rd[z].id
      BY Zenon, <1>6
    <3> QED
      BY Zenon, <1>2, <3>1, <3>2, <3>3, Unmoved
  <2> QED
    BY ZenonT(30), <2>1, <2>2, <2>3, Move, SpotsOwners
<1>10. PlacesInv'
  <2>1. Carried
    <3>1. Arrives(h, "reader")
      BY Zenon DEF Arrives, Holding
    <3> QED
      BY <1>9, <3>1, SpotsOwners, Zenon DEF Carried, Handled
  <2>2. Lossless' => Lossless
    BY Zenon, <1>2, <1>3, <1>6 DEF Lossless
  <2>3. Advance
    BY <1>1, <1>2, <2>2 DEF PipeTypes, Advance
  <2> QED
    BY <1>1, <2>1, <2>3, CarriedPlaces DEF PipeTypes
<1>11. QueueInv' /\ WrittenFed'
  BY <1>1, <1>2, <1>4, Zenon DEF QueueInv, WrittenFed
<1>12. SlotInv'
  BY <1>1, <1>2, <1>5, <1>6 DEF SlotInv
<1>13. ReaderInv'
  <2>1. ReaderOK(w, faulty)
    BY <1>4, <1>5 DEF ReaderOK
  <2> QED
    BY <1>1, <1>2, <1>6, <2>1, Zenon DEF ReaderInv
<1>14. SenderInv'
  BY <1>1, <1>2, ZenonT(30) DEF SenderInv, SenderOK
<1>15. ControlInv'
  <2>1. rd'[r].pc # "done" /\ readClosed = FALSE /\ result = "none"
    BY Zenon, <1>1, <1>3, <1>5, <1>6 DEF ControlInv, PipeTypes
  <2> QED
    BY Zenon, <1>1, <1>2, <2>1 DEF ControlInv
<1> QED
  BY <1>7, <1>10, <1>11, <1>12, <1>13, <1>14, <1>15, Zenon DEF PipeInv

(* A reader sends its chunk, with the slot and the memory, to readCh.      *)
LEMMA EmitInv ==
  ASSUME PipeInv, NEW r \in Readers, Emit(r)
  PROVE  PipeInv'
<1> DEFINE i == rd[r].id
           c == Held(i, rd[r].mem)
           w == [pc |-> "idle", id |-> -1, mem |-> 0, win |-> FALSE]
<1>1. PipeTypes /\ PlacesInv /\ QueueInv /\ SlotInv /\ ReaderInv /\ SenderInv /\ ControlInv /\ WrittenFed
  BY Zenon DEF PipeInv
<1>2. /\ nextID' = nextID /\ feeding' = feeding /\ chunkCh' = chunkCh
      /\ readClosed' = readClosed /\ snd' = snd /\ ack' = ack /\ stream' = stream /\ wire' = wire
      /\ acks' = acks /\ written' = written /\ cancelled' = cancelled /\ result' = result
      /\ base' = base /\ released' = released /\ waiters' = waiters /\ granted' = granted
      /\ errs' = errs /\ faulty' = faulty
  BY Zenon DEF Emit, feedVars, netVars, winVars, ctlVars
<1>3. readCh' = Append(readCh, c) /\ rd[r].pc = "emit" /\ rd' = [rd EXCEPT ![r] = w]
  BY Zenon DEF Emit, At
<1>4. i \in ReqIDs /\ rd[r].win = TRUE /\ i < base + Limit
  BY Zenon, <1>3, ReaderAt DEF ReaderOK
<1>5. c \in Chunk /\ c.id = i
  BY Zenon, <1>4, ReaderAt DEF Held, Chunk
<1>6. w \in ReaderRec /\ w.id = -1 /\ w.pc = "idle" /\ w.win = FALSE
  BY DEF ReaderRec, ReaderPc
<1> HIDE DEF w, c
<1>7. /\ rd \in [Readers -> ReaderRec] /\ rd' \in [Readers -> ReaderRec]
      /\ rd'[r] = w /\ \A q \in Readers : q # r => rd'[q] = rd[q]
  BY <1>1, <1>3, <1>6, Zenon DEF PipeTypes, ReaderRec
<1>8. Has("reader", r, i)
  BY Zenon, Cells
<1> HIDE DEF i
<1>9. i \notin Owned(readCh)
  BY SMTT(30), <1>4, <1>8, OnlyHere, Cells, SpotsOwners
<1>10. readCh' \in Seq(Chunk) /\ Owned(readCh') = Owned(readCh) \cup {i} /\ DistinctIDs(readCh')
  BY <1>1, <1>3, <1>5, <1>9, AppendChunk DEF PipeTypes, QueueInv
<1>11. PipeTypes'
  BY <1>1, <1>2, <1>7, <1>10, Zenon DEF PipeTypes, ReaderRec
<1>12. -1 \notin ReqIDs
  BY ReqIDsAssumption
<1>13. \A id \in ReqIDs : IF id \in {i} THEN Goes(id, "readCh", Nobody) ELSE Stay(id)
  <2>1. Leave({i}, "reader", r)
    <3>1. \A id \in ReqIDs : Has("reader", r, id) <=> id = i
      BY Zenon, Cells DEF i
    <3> QED
      BY Zenon, <1>4, <1>6, <1>7, <1>12, <3>1, CellsPrimed DEF Leave
  <2>2. Enter({i}, "readCh", Nobody)
    BY ZenonT(30), <1>10, Cells, CellsPrimed DEF Enter
  <2>3. Elsewhere("reader", r, "readCh", Nobody)
    <3> SUFFICES ASSUME NEW m \in Spots, NEW z \in Owners, ~(m = "reader" /\ z = r),
                        ~(m = "readCh" /\ z = Nobody), NEW id \in ReqIDs
                 PROVE  Has(m, z, id)' <=> Has(m, z, id)
      BY Zenon DEF Elsewhere
    <3>1. Freed' = Freed
      BY <1>2, Zenon DEF Freed
    <3>2. z \in Senders => SenderOwns(z)' = SenderOwns(z)
      BY <1>2, Zenon DEF SenderOwns, SenderAt
    <3>3. z \in Readers /\ z # r => rd'[z].id = rd[z].id
      BY Zenon, <1>7
    <3> QED
      BY Zenon, <1>2, <3>1, <3>2, <3>3, Unmoved
  <2> QED
    BY ZenonT(30), <2>1, <2>2, <2>3, Move, SpotsOwners
<1>14. PlacesInv'
  <2>1. Carried
    <3>1. Arrives(i, "readCh")
      BY Zenon, <1>2, <1>4 DEF Arrives, Holding
    <3> QED
      BY <1>13, <3>1, SpotsOwners, Zenon DEF Carried, Handled
  <2>2. Lossless' => Lossless
    BY Zenon, <1>2, <1>3, <1>7 DEF Lossless
  <2>3. Advance
    BY <1>1, <1>2, <2>2 DEF PipeTypes, Advance
  <2> QED
    BY <1>1, <2>1, <2>3, CarriedPlaces DEF PipeTypes
<1>15. QueueInv' /\ WrittenFed'
  BY <1>1, <1>2, <1>10, Zenon DEF QueueInv, WrittenFed
<1>16. SlotInv'
  BY <1>1, <1>2, <1>6, <1>7 DEF SlotInv
<1>17. ReaderInv'
  <2>1. ReaderOK(w, faulty)
    BY <1>6 DEF ReaderOK
  <2> QED
    BY <1>1, <1>2, <1>7, <2>1, Zenon DEF ReaderInv
<1>18. readClosed = FALSE /\ result = "none"
  BY ZenonT(30), <1>3, SenderTypes DEF ControlInv
<1>19. SenderInv'
  <2> SUFFICES ASSUME NEW s \in Senders PROVE SenderOK(s)'
    BY Zenon DEF SenderInv
  <2>1. SenderOK(s)
    BY <1>1, Zenon DEF SenderInv
  <2> QED
    BY <1>2, <1>18, <2>1 DEF SenderOK
<1>20. ControlInv'
  <2>1. rd'[r].pc # "done"
    BY <1>6, <1>7
  <2> QED
    BY Zenon, <1>1, <1>2, <1>18, <2>1 DEF ControlInv
<1> QED
  BY <1>11, <1>14, <1>15, <1>16, <1>17, <1>19, <1>20, Zenon DEF PipeInv

(* An id is a number, and the -1 of an idle reader is none.                *)
LEMMA IDs == -1 \notin ReqIDs /\ \A id \in ReqIDs : id \in Nat /\ id \in Int
BY ReqIDsAssumption

(* An id below the end of the window stays below it.                       *)
LEMMA Further ==
  ASSUME NEW n \in Int, NEW b \in Nat, NEW c \in Nat, NEW l \in Nat, b <= c, n < b + l
  PROVE  n < c + l
  OBVIOUS

(* The release of an id that is held.                                      *)
LEMMA ReleaseHeld ==
  ASSUME PipeInv, NEW i \in ReqIDs, NEW k \in Spots, NEW x \in Owners, k # "free", Has(k, x, i),
         i < base + Limit, WinRelease(i)
  PROVE  /\ base' \in Nat /\ base <= base' /\ released' \in [Slots -> BOOLEAN]
         /\ Freed' = Freed \cup {i} /\ i \notin Freed
         /\ waiters' \subseteq ReqIDs /\ granted' \subseteq ReqIDs
         /\ \A w \in granted' : w < base' + Limit
<1>1. base \in Nat /\ released \in [Slots -> BOOLEAN] /\ waiters \subseteq ReqIDs /\ granted \subseteq ReqIDs
      /\ i \in Nat /\ \A w \in granted : w < base + Limit
  BY IDs, Zenon DEF PipeInv, PipeTypes, SlotInv
<1>2. i \notin Freed
  BY Zenon, OnlyHere, Cells, SpotsOwners
<1>3. InWindow(i, base) /\ ~released[Slot(i)]
  BY <1>1, <1>2 DEF Freed, InWindow
<1>4. /\ base' \in Nat /\ base <= base' /\ released' \in [Slots -> BOOLEAN]
      /\ Freed' = Freed \cup {i} /\ waiters' \subseteq waiters /\ granted' \subseteq granted \cup waiters
      /\ \A w \in granted' : w \in granted \/ w < base' + Limit
  BY <1>1, <1>3, ReleaseFrees
<1>5. \A w \in granted' : w < base' + Limit
  <2> TAKE w \in granted'
  <2>1. w \in Nat /\ (w < base + Limit \/ w < base' + Limit)
    BY <1>1, <1>4, ReqIDsAssumption
  <2>2. base \in Nat /\ base' \in Nat /\ base <= base' /\ Limit \in Nat
    BY <1>1, <1>4, LimitPositive, Zenon
  <2>3. w \in Int
    BY <2>1
  <2> QED
    BY <2>1, <2>2, <2>3, Further, Zenon
<1> QED
  BY <1>1, <1>2, <1>4, <1>5

(* The reader gives up its chunk: it releases the slot if it has one, and  *)
(* its memory.                                                             *)
LEMMA ReadDropInv ==
  ASSUME PipeInv, NEW r \in Readers, ReadDrop(r)
  PROVE  /\ PipeInv'
         /\ rd[r].win = TRUE => rd[r].id \in ReqIDs \ Freed /\ rd[r].id < nextID
                                /\ Freed' = Freed \cup {rd[r].id}
         /\ rd[r].win = FALSE => Freed' = Freed
<1> DEFINE i == rd[r].id
           w == [pc |-> "failed", id |-> -1, mem |-> 0, win |-> FALSE]
<1>1. PipeTypes /\ PlacesInv /\ QueueInv /\ SlotInv /\ ReaderInv /\ SenderInv /\ ControlInv /\ WrittenFed
  BY Zenon DEF PipeInv
<1>2. /\ nextID' = nextID /\ feeding' = feeding /\ chunkCh' = chunkCh /\ readCh' = readCh
      /\ readClosed' = readClosed /\ snd' = snd /\ ack' = ack /\ stream' = stream /\ wire' = wire
      /\ acks' = acks /\ written' = written /\ cancelled' = cancelled /\ result' = result
      /\ errs' = errs /\ faulty' = faulty
  BY Zenon DEF ReadDrop, ReaderKeeps, feedVars, netVars
<1>3. /\ rd[r].pc = "drop" /\ rd' = [rd EXCEPT ![r] = w]
      /\ IF rd[r].win THEN WinRelease(rd[r].id) ELSE UNCHANGED winVars
  BY Zenon DEF ReadDrop, At
<1>4. w \in ReaderRec /\ w.id = -1 /\ w.pc = "failed" /\ w.win = FALSE
  BY DEF ReaderRec, ReaderPc
<1> HIDE DEF w
<1>5. /\ rd \in [Readers -> ReaderRec] /\ rd' \in [Readers -> ReaderRec]
      /\ rd'[r] = w /\ \A q \in Readers : q # r => rd'[q] = rd[q]
  BY <1>1, <1>3, <1>4, ZenonT(30) DEF PipeTypes, ReaderRec
<1>6. Has("reader", r, i)
  BY Cells
<1>7. \/ /\ rd[r].win = TRUE /\ i \in ReqIDs /\ i < base + Limit /\ WinRelease(i)
      \/ rd[r].win = FALSE /\ UNCHANGED winVars
  BY Zenon, <1>3, ReaderAt DEF ReaderOK
<1>8. ASSUME rd[r].win = TRUE, i \in ReqIDs, i < base + Limit, WinRelease(i)
      PROVE  /\ base' \in Nat /\ base <= base' /\ released' \in [Slots -> BOOLEAN]
             /\ Freed' = Freed \cup {i} /\ i \notin Freed
             /\ waiters' \subseteq ReqIDs /\ granted' \subseteq ReqIDs
             /\ \A g \in granted' : g < base' + Limit
  BY <1>6, <1>8, ReleaseHeld, SpotsOwners
<1>9. ASSUME rd[r].win = FALSE, UNCHANGED winVars
      PROVE  /\ base' = base /\ released' = released /\ waiters' = waiters /\ granted' = granted
             /\ Freed' = Freed
  BY <1>9, Zenon DEF winVars, Freed
<1>10. /\ base' \in Nat /\ base <= base' /\ released' \in [Slots -> BOOLEAN]
       /\ waiters' \subseteq ReqIDs /\ granted' \subseteq ReqIDs
       /\ \A g \in granted' : g < base' + Limit
  <2>1. CASE rd[r].win = TRUE /\ i \in ReqIDs /\ i < base + Limit /\ WinRelease(i)
    BY <1>8, <2>1, Zenon
  <2>2. CASE rd[r].win = FALSE /\ UNCHANGED winVars
    <3>1. base \in Nat /\ base <= base
      BY <1>1 DEF PipeTypes
    <3> QED
      BY <1>1, <1>9, <2>2, <3>1, Zenon DEF PipeTypes, SlotInv
  <2> QED
    BY <1>7, <2>1, <2>2, Zenon
<1>11. PipeTypes'
  BY <1>1, <1>2, <1>5, <1>10, Zenon DEF PipeTypes, ReaderRec
<1>12. -1 \notin ReqIDs
  BY ReqIDsAssumption
<1>13. ~Lossless'
  BY <1>4, <1>5, Zenon DEF Lossless
<1>14. \A id \in ReqIDs : Has("reader", r, id) <=> id = i
  BY Cells
<1> HIDE DEF i
<1>15. \A id \in ReqIDs : ~Has("reader", r, id)'
  BY Zenon, <1>4, <1>5, <1>12, CellsPrimed
<1>16. Elsewhere("reader", r, "free", Nobody)
  <2> SUFFICES ASSUME NEW m \in Spots, NEW z \in Owners, ~(m = "reader" /\ z = r),
                      ~(m = "free" /\ z = Nobody), NEW id \in ReqIDs
               PROVE  Has(m, z, id)' <=> Has(m, z, id)
    BY Zenon DEF Elsewhere
  <2>1. z \in Senders => SenderOwns(z)' = SenderOwns(z)
    BY <1>2, Zenon DEF SenderOwns, SenderAt
  <2>2. m = "reader" /\ z \in Readers => rd'[z].id = rd[z].id
    BY Zenon, <1>5
  <2> QED
    BY Zenon, <1>2, <2>1, <2>2, Unmoved
<1>17. Carried
  <2>1. CASE rd[r].win = TRUE /\ i \in ReqIDs /\ i < base + Limit /\ WinRelease(i)
    <3>1. Leave({i}, "reader", r)
      BY <2>1, <1>14, <1>15 DEF Leave
    <3>2. Enter({i}, "free", Nobody)
      BY Zenon, <1>8, <2>1, Cells, CellsPrimed DEF Enter
    <3>3. \A id \in ReqIDs : IF id \in {i} THEN Goes(id, "free", Nobody) ELSE Stay(id)
      BY Zenon, <1>16, <3>1, <3>2, Move, SpotsOwners
    <3>4. Arrives(i, "free")
      BY <1>13 DEF Arrives, Holding
    <3> QED
      BY <3>3, <3>4, SpotsOwners, Zenon DEF Carried, Handled
  <2>2. CASE rd[r].win = FALSE /\ UNCHANGED winVars
    <3> SUFFICES ASSUME NEW id \in ReqIDs PROVE Handled(id)
      BY Zenon DEF Carried
    <3>1. Has("free", Nobody, id)' <=> Has("free", Nobody, id)
      BY Zenon, <1>9, <2>2, Cells, CellsPrimed
    <3>2. CASE id = i
      <4> SUFFICES ASSUME NEW m \in Spots, NEW z \in Owners PROVE ~Has(m, z, id)'
        BY <1>13, Zenon DEF Handled, Gone
      <4>1. ~(m = "reader" /\ z = r) => ~Has(m, z, id)
        BY <1>14, <3>2, OnlyHere, SpotsOwners
      <4> QED
        BY <1>15, <1>16, <3>1, <4>1, Zenon DEF Elsewhere
    <3>3. CASE id # i
      <4> SUFFICES ASSUME NEW m \in Spots, NEW z \in Owners PROVE Has(m, z, id)' <=> Has(m, z, id)
        BY Zenon DEF Handled, Stay
      <4> QED
        BY <1>14, <1>15, <1>16, <3>1, <3>3, Zenon DEF Elsewhere
    <3> QED
      BY <3>2, <3>3
  <2> QED
    BY Zenon, <1>7, <2>1, <2>2 DEF i
<1>18. PlacesInv'
  <2>1. Advance
    BY <1>2, <1>10, <1>13 DEF Advance
  <2> QED
    BY <1>1, <1>17, <2>1, CarriedPlaces DEF PipeTypes
<1>19. QueueInv' /\ WrittenFed'
  BY <1>1, <1>2, Zenon DEF QueueInv, WrittenFed
<1>20. SlotInv'
  <2> SUFFICES ASSUME NEW q \in Readers, rd'[q].win = TRUE PROVE rd'[q].id < base' + Limit
    BY <1>10, Zenon DEF SlotInv
  <2>1. rd[q].win = TRUE /\ rd'[q].id = rd[q].id /\ rd[q].id < base + Limit /\ rd[q].id \in ReqIDs
    BY Zenon, <1>1, <1>4, <1>5, ReaderAt DEF SlotInv, ReaderOK
  <2>2. base \in Nat /\ base' \in Nat /\ base <= base' /\ Limit \in Nat /\ rd[q].id \in Int
    <3>1. base \in Nat /\ base' \in Nat /\ base <= base' /\ Limit \in Nat
      BY <1>1, <1>10, LimitPositive, Zenon DEF PipeTypes
    <3>2. rd[q].id \in Int
      BY <2>1, IDs, Zenon
    <3> QED
      BY <3>1, <3>2, Zenon
  <2> QED
    BY <2>1, <2>2, Further, Zenon
<1>21. ReaderInv'
  <2>1. ReaderOK(w, faulty)
    BY Zenon, <1>3, <1>4, ReaderAt DEF ReaderOK
  <2> QED
    BY <1>1, <1>2, <1>5, <2>1, Zenon DEF ReaderInv
<1>22. SenderInv'
  BY <1>1, <1>2, ZenonT(30) DEF SenderInv, SenderOK
<1>23. ControlInv'
  <2>1. rd'[r].pc # "done" /\ readClosed = FALSE /\ result = "none"
    BY <1>1, <1>3, <1>4, <1>5 DEF ControlInv, PipeTypes
  <2> QED
    BY Zenon, <1>1, <1>2, <2>1 DEF ControlInv
<1>24. i \in ReqIDs => i < nextID
  <2> SUFFICES ASSUME i \in ReqIDs PROVE i < nextID
    OBVIOUS
  <2>1. ~Has("unfed", Nobody, i)
    BY ZenonT(30), <1>14, OnlyHere, SpotsOwners
  <2>2. ~(nextID <= i)
    BY <2>1, Cells
  <2>3. nextID \in Nat /\ i \in Nat
    BY <1>1, IDs, Zenon DEF PipeTypes
  <2> QED
    BY <2>2, <2>3
<1>25. /\ rd[r].win = TRUE => i \in ReqIDs \ Freed /\ i < nextID /\ Freed' = Freed \cup {i}
       /\ rd[r].win = FALSE => Freed' = Freed
  BY Zenon, <1>7, <1>8, <1>9, <1>24 DEF i
<1> QED
  BY <1>11, <1>18, <1>19, <1>20, <1>21, <1>22, <1>23, <1>25, Zenon DEF PipeInv, i

-----------------------------------------------------------------------------
(* Steps that change neither a place nor the window                        *)

(* A step that changes no place and not the window, if it keeps what       *)
(* SenderInv and ControlInv say.                                           *)
LEMMA Quiet ==
  ASSUME PipeInv, UNCHANGED <<nextID, chunkCh, rd, readCh, wire, acks, base, released, waiters, granted>>,
         written \subseteq written', written' \subseteq ReqIDs, \A id \in written' : id < nextID,
         snd' \in [Senders -> SenderRec], ack' \in [Senders -> AckRec],
         \A s \in Senders : /\ snd'[s].batch = snd[s].batch /\ snd'[s].cc = snd[s].cc
                            /\ ack'[s].ids = ack[s].ids /\ (snd'[s].pc = "sent" <=> snd[s].pc = "sent")
                            /\ snd[s].pc = "drop" => snd'[s].pc = "drop" \/ errs' # {}
                            /\ stream[s] = "broken" => stream'[s] = "broken",
         stream' \in [Senders -> {"none", "open", "eof", "broken"}],
         errs \subseteq errs', errs' \subseteq {"pipe", "read", "send"} \cup Senders,
         feeding' \in BOOLEAN, readClosed' \in BOOLEAN, cancelled' \in BOOLEAN, faulty' \in BOOLEAN,
         result' \in {"none", "ok", "err"}, faulty = TRUE => faulty' = TRUE
  PROVE  /\ PipeTypes' /\ PlacesInv' /\ QueueInv' /\ SlotInv' /\ ReaderInv' /\ WrittenFed'
         /\ Freed' = Freed
<1>1. PipeTypes /\ PlacesInv /\ QueueInv /\ SlotInv /\ ReaderInv /\ WrittenFed
  BY Zenon DEF PipeInv
<1>2. PipeTypes'
  BY <1>1, Zenon DEF PipeTypes, SenderRec, AckRec
<1>3. Freed' = Freed
  BY Zenon DEF Freed
<1>4. Carried
  <2>1. \A s \in Senders : SenderOwns(s)' = SenderOwns(s) /\ snd'[s].cc.id = snd[s].cc.id
    <3> SUFFICES ASSUME NEW s \in Senders
                 PROVE  SenderOwns(s)' = SenderOwns(s) /\ snd'[s].cc.id = snd[s].cc.id
      OBVIOUS
    <3>1. snd'[s].batch = snd[s].batch /\ snd'[s].cc = snd[s].cc /\ (snd'[s].pc = "sent" <=> snd[s].pc = "sent")
      BY Zenon
    <3>2. SenderOwns(s)' = SenderOwns(s)
      BY <3>1, Zenon DEF SenderOwns, SenderAt
    <3> QED
      BY <3>1, <3>2, ZenonT(30)
  <2>2. \A s \in Senders : ack'[s].ids = ack[s].ids
    BY Zenon
  <2>3. /\ nextID' = nextID /\ chunkCh' = chunkCh /\ readCh' = readCh /\ wire' = wire /\ acks' = acks
        /\ \A r \in Readers : rd'[r].id = rd[r].id
    BY Zenon
  <2> QED
    BY <1>3, <2>1, <2>2, <2>3, StayPut, Zenon
<1>5. Advance
  <2>1. Lossless' => Lossless
    <3> SUFFICES ASSUME Lossless' PROVE Lossless
      BY Zenon
    <3>1. errs = {} /\ errs' = {}
      BY Zenon DEF Lossless
    <3> QED
      BY <3>1, Zenon DEF Lossless
  <2> QED
    BY <1>1, <2>1 DEF PipeTypes, Advance
<1>6. PlacesInv'
  BY <1>1, <1>4, <1>5, CarriedPlaces DEF PipeTypes
<1>7. QueueInv' /\ WrittenFed' /\ SlotInv'
  <2>1. \A s \in Senders : DistinctIDs(snd'[s].batch) /\ Distinct(ack'[s].ids)
    BY <1>1, Zenon DEF QueueInv
  <2> QED
    BY <1>1, <2>1, Zenon DEF QueueInv, WrittenFed, SlotInv
<1>8. ReaderInv'
  <2>1. \A r \in Readers : ReaderOK(rd[r], faulty) /\ rd'[r] = rd[r]
    BY <1>1, Zenon DEF ReaderInv
  <2>2. \A r \in Readers : ReaderOK(rd[r], faulty')
    BY <2>1, Zenon DEF ReaderOK
  <2> QED
    BY <2>1, <2>2, Zenon DEF ReaderInv
<1> QED
  BY <1>1, <1>2, <1>3, <1>6, <1>7, <1>8, Zenon

(* The feeder closes chunkCh, at the end of the iterator or on             *)
(* cancellation.                                                           *)
LEMMA FeederReturnsInv ==
  ASSUME PipeInv, FeederReturns
  PROVE  PipeInv' /\ Freed' = Freed
<1>1. /\ feeding = TRUE /\ feeding' = FALSE
      /\ \/ nextID \notin ReqIDs /\ errs' = errs
         \/ nextID \in ReqIDs /\ PipeDone /\ errs' = errs \cup {"pipe"}
  BY SenderTypes DEF FeederReturns
<1>2. /\ UNCHANGED <<nextID, chunkCh, rd, readCh, wire, acks, written, base, released, waiters, granted>>
      /\ UNCHANGED <<snd, ack, stream, readClosed, cancelled, faulty, result>>
  BY Zenon DEF FeederReturns, winVars, readVars, netVars
<1>3. errs \subseteq errs' /\ errs' \subseteq {"pipe", "read", "send"} \cup Senders
  BY <1>1, SenderTypes
<1>4. PipeDone => faulty = TRUE
  BY Zenon, SenderTypes DEF PipeDone, ControlInv
<1>5. /\ PipeTypes' /\ PlacesInv' /\ QueueInv' /\ SlotInv' /\ ReaderInv' /\ WrittenFed' /\ Freed' = Freed
  BY Zenon, <1>1, <1>2, <1>3, SenderTypes, Quiet
<1>6. SenderInv'
  BY Zenon, <1>2, <1>3, SenderTypes, SendersKept
<1>7. ControlInv'
  BY ZenonT(30), <1>1, <1>2, <1>3, <1>4, SenderTypes DEF ControlInv
<1> QED
  BY <1>5, <1>6, <1>7, Zenon DEF PipeInv

(* The last reader has returned and readCh is closed.                      *)
LEMMA CloseReadChInv ==
  ASSUME PipeInv, CloseReadCh
  PROVE  PipeInv' /\ Freed' = Freed
<1>1. readClosed = FALSE /\ readClosed' = TRUE /\ \A r \in Readers : rd[r].pc = "done"
  BY SenderTypes DEF CloseReadCh, At
<1>2. /\ UNCHANGED <<nextID, chunkCh, rd, readCh, wire, acks, written, base, released, waiters, granted>>
      /\ UNCHANGED <<snd, ack, stream, feeding, errs, cancelled, faulty, result>>
  BY Zenon DEF CloseReadCh, winVars, feedVars, netVars, ctlVars
<1>3. /\ PipeTypes' /\ PlacesInv' /\ QueueInv' /\ SlotInv' /\ ReaderInv' /\ WrittenFed' /\ Freed' = Freed
  BY Zenon, <1>1, <1>2, SenderTypes, Quiet
<1>4. SenderInv'
  BY Zenon, <1>1, <1>2, SenderTypes, SendersKept
<1>5. ControlInv'
  BY Zenon, <1>1, <1>2, SenderTypes DEF ControlInv
<1> QED
  BY <1>3, <1>4, <1>5, Zenon DEF PipeInv

(* ReadStageFails, SendStageFails and WorkerFails record an error.         *)
LEMMA ErrorRecorded ==
  ASSUME PipeInv, errs # {}, NEW e \in {"pipe", "send"}, errs' = errs \cup {e},
         UNCHANGED <<feedVars, readVars, snd, ack, netVars, cancelled, faulty, result, winVars>>
  PROVE  PipeInv' /\ Freed' = Freed
<1>1. /\ UNCHANGED <<nextID, chunkCh, rd, readCh, wire, acks, written, base, released, waiters, granted>>
      /\ UNCHANGED <<snd, ack, stream, feeding, readClosed, cancelled, faulty, result>>
  BY Zenon DEF winVars, feedVars, readVars, netVars
<1>2. errs \subseteq errs' /\ errs' \subseteq {"pipe", "read", "send"} \cup Senders
  BY SenderTypes
<1>3. /\ PipeTypes' /\ PlacesInv' /\ QueueInv' /\ SlotInv' /\ ReaderInv' /\ WrittenFed' /\ Freed' = Freed
  BY Zenon, <1>1, <1>2, SenderTypes, Quiet
<1>4. SenderInv'
  BY Zenon, <1>1, <1>2, SenderTypes, SendersKept
<1>5. ControlInv'
  BY Zenon, <1>1, <1>2, SenderTypes DEF ControlInv
<1> QED
  BY <1>3, <1>4, <1>5, Zenon DEF PipeInv

(* A failed stage cancels the group.                                       *)
LEMMA StageFailsInv ==
  ASSUME PipeInv, ReadStageFails \/ SendStageFails \/ \E s \in Senders : WorkerFails(s)
  PROVE  PipeInv' /\ Freed' = Freed
<1>1. \E e \in {"pipe", "send"} : errs # {} /\ errs' = errs \cup {e}
  BY DEF ReadStageFails, SendStageFails, WorkerFails
<1>2. UNCHANGED <<feedVars, readVars, snd, ack, netVars, cancelled, faulty, result, winVars>>
  BY Zenon DEF ReadStageFails, SendStageFails, WorkerFails, AckKeeps, netVars
<1> QED
  BY <1>1, <1>2, ErrorRecorded

(* The caller's context is cancelled.                                      *)
LEMMA CancelInv ==
  ASSUME PipeInv, Cancel
  PROVE  PipeInv' /\ Freed' = Freed
<1>1. /\ UNCHANGED <<nextID, chunkCh, rd, readCh, wire, acks, written, base, released, waiters, granted>>
      /\ UNCHANGED <<snd, ack, stream, feeding, readClosed, errs, result>>
  BY Zenon DEF Cancel, winVars, feedVars, readVars, netVars
<1>2. cancelled' = TRUE /\ faulty' = TRUE
  BY Zenon DEF Cancel
<1>3. /\ PipeTypes' /\ PlacesInv' /\ QueueInv' /\ SlotInv' /\ ReaderInv' /\ WrittenFed' /\ Freed' = Freed
  BY <1>1, <1>2, SenderTypes, Quiet
<1>4. SenderInv'
  BY Zenon, <1>1, <1>2, SenderTypes, SendersKept
<1>5. ControlInv'
  BY Zenon, <1>1, <1>2, SenderTypes DEF ControlInv
<1> QED
  BY <1>3, <1>4, <1>5, Zenon DEF PipeInv

(* Run returns: every stage and every ack receiver has returned.           *)
LEMMA RunReturnsInv ==
  ASSUME PipeInv, RunReturns
  PROVE  PipeInv' /\ Freed' = Freed
<1>1. /\ UNCHANGED <<nextID, chunkCh, rd, readCh, wire, acks, written, base, released, waiters, granted>>
      /\ UNCHANGED <<snd, ack, stream, feeding, readClosed, errs, cancelled, faulty>>
  BY Zenon DEF RunReturns, winVars, feedVars, readVars, netVars
<1>2. /\ result' \in {"ok", "err"} /\ feeding = FALSE /\ readClosed = TRUE
      /\ \A s \in Senders : snd[s].pc = "closed" /\ ack[s].pc = "done"
  BY SenderTypes DEF RunReturns, SenderFinished, SenderAt
<1>3. /\ PipeTypes' /\ PlacesInv' /\ QueueInv' /\ SlotInv' /\ ReaderInv' /\ WrittenFed' /\ Freed' = Freed
  BY Zenon, <1>1, <1>2, SenderTypes, Quiet
<1>4. SenderInv'
  BY Zenon, <1>1, SenderTypes, SendersKept
<1>5. ControlInv'
  BY Zenon, <1>1, <1>2, SenderTypes DEF ControlInv
<1> QED
  BY <1>3, <1>4, <1>5, Zenon DEF PipeInv

(* An update of the pc of one sender.                                      *)
LEMMA SenderGoesTo ==
  ASSUME PipeInv, NEW s \in Senders, NEW pc \in SenderPc, snd' = [snd EXCEPT ![s].pc = pc]
  PROVE  /\ snd' \in [Senders -> SenderRec] /\ snd'[s].pc = pc
         /\ snd'[s].batch = snd[s].batch /\ snd'[s].cc = snd[s].cc
         /\ \A q \in Senders : q # s => snd'[q] = snd[q]
<1>1. snd \in [Senders -> SenderRec] /\ snd[s] \in SenderRec
  BY SenderTypes
<1>2. snd' = [snd EXCEPT ![s] = [snd[s] EXCEPT !.pc = pc]]
  BY <1>1, Zenon
<1>3. /\ [snd[s] EXCEPT !.pc = pc] \in SenderRec /\ [snd[s] EXCEPT !.pc = pc].pc = pc
      /\ [snd[s] EXCEPT !.pc = pc].batch = snd[s].batch /\ [snd[s] EXCEPT !.pc = pc].cc = snd[s].cc
  BY Zenon, <1>1 DEF SenderRec
<1> QED
  BY <1>1, <1>2, <1>3, Zenon

(* An update of the pc of one ack receiver.                                *)
LEMMA AckGoesTo ==
  ASSUME PipeInv, NEW s \in Senders, NEW pc \in AckPc, ack' = [ack EXCEPT ![s].pc = pc]
  PROVE  /\ ack' \in [Senders -> AckRec] /\ ack'[s].pc = pc
         /\ ack'[s].ids = ack[s].ids
         /\ \A q \in Senders : q # s => ack'[q] = ack[q]
<1>1. ack \in [Senders -> AckRec] /\ ack[s] \in AckRec
  BY SenderTypes
<1>2. ack' = [ack EXCEPT ![s] = [ack[s] EXCEPT !.pc = pc]]
  BY <1>1, Zenon
<1>3. /\ [ack[s] EXCEPT !.pc = pc] \in AckRec /\ [ack[s] EXCEPT !.pc = pc].pc = pc
      /\ [ack[s] EXCEPT !.pc = pc].ids = ack[s].ids
  BY <1>1 DEF AckRec
<1> QED
  BY <1>1, <1>2, <1>3, Zenon

(* A step of sender s that leaves the others alone.                        *)
LEMMA OtherSenders ==
  ASSUME SenderInv, NEW s \in Senders,
         \A q \in Senders : q # s => /\ snd'[q] = snd[q] /\ ack'[q] = ack[q] /\ stream'[q] = stream[q]
                                     /\ wire'[q] = wire[q] /\ acks'[q] = acks[q],
         readClosed' = readClosed, readCh = <<>> => readCh' = <<>>, errs \subseteq errs', faulty = TRUE => faulty' = TRUE,
         SenderOK(s)'
  PROVE  SenderInv'
<1> SUFFICES ASSUME NEW q \in Senders, q # s PROVE SenderOK(q)'
  BY Zenon DEF SenderInv
<1>1. SenderOK(q)
  BY Zenon DEF SenderInv
<1> QED
  BY <1>1, Zenon DEF SenderOK

(* A sender opens its stream and starts the ack receiver.                  *)
LEMMA OpenStreamInv ==
  ASSUME PipeInv, NEW s \in Senders, OpenStream(s)
  PROVE  PipeInv' /\ Freed' = Freed
<1>1. /\ UNCHANGED <<nextID, chunkCh, rd, readCh, wire, acks, written, base, released, waiters, granted>>
      /\ UNCHANGED <<feeding, readClosed, errs, cancelled, faulty, result>>
  BY Zenon DEF OpenStream, winVars, feedVars, readVars, ctlVars
<1>2. /\ snd[s].pc = "open" /\ snd' = [snd EXCEPT ![s].pc = "recv"] /\ ack' = [ack EXCEPT ![s].pc = "recv"]
      /\ stream' = [stream EXCEPT ![s] = "open"]
  BY Zenon DEF OpenStream, SenderAt
<1>3. /\ snd' \in [Senders -> SenderRec] /\ snd'[s].pc = "recv"
      /\ snd'[s].batch = snd[s].batch /\ snd'[s].cc = snd[s].cc
      /\ \A q \in Senders : q # s => snd'[q] = snd[q]
  BY Zenon, <1>2, SenderGoesTo DEF SenderPc
<1>4. /\ ack' \in [Senders -> AckRec] /\ ack'[s].pc = "recv"
      /\ ack'[s].ids = ack[s].ids
      /\ \A q \in Senders : q # s => ack'[q] = ack[q]
  BY Zenon, <1>2, AckGoesTo DEF AckPc
<1>5. /\ stream' \in [Senders -> {"none", "open", "eof", "broken"}] /\ stream'[s] = "open"
      /\ \A q \in Senders : q # s => stream'[q] = stream[q]
  BY <1>2, SenderTypes
<1>6. SenderOK(s) /\ ack[s].pc = "none" /\ ack[s].ids = <<>> /\ stream[s] = "none"
  BY Zenon, <1>2, SenderTypes DEF SenderInv, SenderOK
<1>7. /\ PipeTypes' /\ PlacesInv' /\ QueueInv' /\ SlotInv' /\ ReaderInv' /\ WrittenFed' /\ Freed' = Freed
  <2>1. \A q \in Senders : /\ snd'[q].batch = snd[q].batch /\ snd'[q].cc = snd[q].cc
                           /\ ack'[q].ids = ack[q].ids /\ (snd'[q].pc = "sent" <=> snd[q].pc = "sent")
                           /\ snd[q].pc = "drop" => snd'[q].pc = "drop" \/ errs' # {}
                           /\ stream[q] = "broken" => stream'[q] = "broken"
    BY <1>2, <1>3, <1>4, <1>5, <1>6
  <2> QED
    BY Zenon, <1>1, <1>3, <1>4, <1>5, <2>1, SenderTypes, Quiet
<1>8. SenderInv'
  <2>1. SenderOK(s)'
    BY Zenon, <1>1, <1>2, <1>3, <1>4, <1>5, <1>6 DEF SenderOK
  <2> QED
    BY Zenon, <1>1, <1>3, <1>4, <1>5, <2>1, SenderTypes, OtherSenders
<1>9. ControlInv'
  BY Zenon, <1>1, <1>2, <1>3, <1>4, SenderTypes DEF ControlInv
<1> QED
  BY <1>7, <1>8, <1>9, Zenon DEF PipeInv

(* StreamFactory returns an error: the sender returns without an ack       *)
(* receiver.                                                               *)
LEMMA OpenFailsInv ==
  ASSUME PipeInv, NEW s \in Senders, OpenFails(s)
  PROVE  PipeInv' /\ Freed' = Freed
<1>1. /\ UNCHANGED <<nextID, chunkCh, rd, readCh, wire, acks, written, base, released, waiters, granted>>
      /\ UNCHANGED <<feeding, readClosed, stream, cancelled, result>>
  BY Zenon DEF OpenFails, winVars, feedVars, readVars, netVars
<1>2. /\ snd[s].pc = "open" /\ snd' = [snd EXCEPT ![s].pc = "closed"] /\ ack' = [ack EXCEPT ![s].pc = "done"]
      /\ errs' = errs \cup {"send"} /\ faulty' = TRUE
  BY Zenon DEF OpenFails, SenderAt
<1>3. /\ snd' \in [Senders -> SenderRec] /\ snd'[s].pc = "closed"
      /\ snd'[s].batch = snd[s].batch /\ snd'[s].cc = snd[s].cc
      /\ \A q \in Senders : q # s => snd'[q] = snd[q]
  BY Zenon, <1>2, SenderGoesTo DEF SenderPc
<1>4. /\ ack' \in [Senders -> AckRec] /\ ack'[s].pc = "done"
      /\ ack'[s].ids = ack[s].ids
      /\ \A q \in Senders : q # s => ack'[q] = ack[q]
  BY Zenon, <1>2, AckGoesTo DEF AckPc
<1>5. /\ errs \subseteq errs' /\ errs' \subseteq {"pipe", "read", "send"} \cup Senders /\ errs' # {}
  BY <1>2, SenderTypes
<1>6. SenderOK(s) /\ ack[s].pc = "none" /\ ack[s].ids = <<>> /\ stream[s] = "none" /\ acks[s] = <<>>
  BY Zenon, <1>2, SenderTypes DEF SenderInv, SenderOK
<1>7. /\ PipeTypes' /\ PlacesInv' /\ QueueInv' /\ SlotInv' /\ ReaderInv' /\ WrittenFed' /\ Freed' = Freed
  <2>1. \A q \in Senders : /\ snd'[q].batch = snd[q].batch /\ snd'[q].cc = snd[q].cc
                           /\ ack'[q].ids = ack[q].ids /\ (snd'[q].pc = "sent" <=> snd[q].pc = "sent")
                           /\ snd[q].pc = "drop" => snd'[q].pc = "drop" \/ errs' # {}
                           /\ stream[q] = "broken" => stream'[q] = "broken"
    BY Zenon, <1>1, <1>2, <1>3, <1>4, <1>5, <1>6
  <2> QED
    BY Zenon, <1>1, <1>2, <1>3, <1>4, <1>5, <2>1, SenderTypes, Quiet
<1>8. SenderInv'
  <2>1. SenderOK(s)'
    BY <1>1, <1>2, <1>3, <1>4, <1>5, <1>6 DEF SenderOK
  <2> QED
    BY Zenon, <1>1, <1>2, <1>3, <1>4, <1>5, <2>1, SenderTypes, OtherSenders
<1>9. ControlInv'
  <2>1. result = "none"
    BY Zenon, <1>2, SenderTypes DEF ControlInv
  <2> QED
    BY Zenon, <1>1, <1>2, <1>5, <2>1, SenderTypes DEF ControlInv
<1> QED
  BY <1>7, <1>8, <1>9, Zenon DEF PipeInv

(* A step that changes only the pc of a sender, and perhaps errs.          *)
LEMMA SenderPcInv ==
  ASSUME PipeInv, NEW s \in Senders, NEW pc \in SenderPc, snd' = [snd EXCEPT ![s].pc = pc],
         UNCHANGED <<feedVars, rd, readCh, readClosed, ack, netVars, cancelled, faulty, result, winVars>>,
         snd[s].pc \in {"recv", "flush", "drop"}, pc \in {"flush", "drop", "closed"},
         errs \subseteq errs', errs' \subseteq errs \cup {s}, errs' # errs => faulty = TRUE,
         pc = "flush" => snd[s].batch # <<>> /\ readClosed = TRUE /\ readCh = <<>>,
         pc = "drop" => faulty = TRUE,
         pc = "closed" => /\ snd[s].batch = <<>> /\ snd[s].cc = Nothing
                          /\ errs' # {} \/ (readClosed = TRUE /\ readCh = <<>>),
         snd[s].pc = "drop" => errs' # {}
  PROVE  PipeInv' /\ Freed' = Freed
<1>1. /\ UNCHANGED <<nextID, chunkCh, rd, readCh, wire, acks, written, base, released, waiters, granted>>
      /\ UNCHANGED <<feeding, readClosed, ack, stream, cancelled, faulty, result>>
  BY Zenon DEF winVars, feedVars, netVars
<1>2. /\ snd' \in [Senders -> SenderRec] /\ snd'[s].pc = pc
      /\ snd'[s].batch = snd[s].batch /\ snd'[s].cc = snd[s].cc
      /\ \A q \in Senders : q # s => snd'[q] = snd[q]
  BY Zenon, SenderGoesTo
<1>3. errs' \subseteq {"pipe", "read", "send"} \cup Senders
  BY SenderTypes
<1>4. SenderOK(s)
  BY SenderTypes DEF SenderInv
<1>5. /\ PipeTypes' /\ PlacesInv' /\ QueueInv' /\ SlotInv' /\ ReaderInv' /\ WrittenFed' /\ Freed' = Freed
  <2>1. \A q \in Senders : /\ snd'[q].batch = snd[q].batch /\ snd'[q].cc = snd[q].cc
                           /\ ack'[q].ids = ack[q].ids /\ (snd'[q].pc = "sent" <=> snd[q].pc = "sent")
                           /\ snd[q].pc = "drop" => snd'[q].pc = "drop" \/ errs' # {}
                           /\ stream[q] = "broken" => stream'[q] = "broken"
    BY <1>1, <1>2
  <2>2. /\ ack' \in [Senders -> AckRec] /\ stream' \in [Senders -> {"none", "open", "eof", "broken"}]
        /\ feeding' \in BOOLEAN /\ readClosed' \in BOOLEAN /\ cancelled' \in BOOLEAN /\ faulty' \in BOOLEAN
        /\ result' \in {"none", "ok", "err"} /\ (faulty = TRUE => faulty' = TRUE)
        /\ written \subseteq written' /\ written' \subseteq ReqIDs /\ \A id \in written' : id < nextID
    BY <1>1, SenderTypes, Zenon
  <2> QED
    BY <1>1, <1>2, <1>3, <2>1, <2>2, Quiet, Zenon
<1>6. SenderInv'
  <2>1. SenderOK(s)'
    BY <1>1, <1>2, <1>4 DEF SenderOK
  <2> QED
    BY Zenon, <1>1, <1>2, <2>1, SenderTypes, OtherSenders
<1>7. ControlInv'
  <2>1. result = "none"
    BY Zenon, SenderTypes DEF ControlInv
  <2>2. (errs' # {} \/ cancelled' = TRUE) => faulty' = TRUE
    BY Zenon, <1>1, SenderTypes DEF ControlInv
  <2>3. (\E q \in Senders : snd'[q].pc # "closed") \/ errs' # {} \/ (readClosed' = TRUE /\ readCh' = <<>>)
    BY <1>1, <1>2
  <2> QED
    BY Zenon, <1>1, <2>1, <2>2, <2>3, SenderTypes DEF ControlInv
<1> QED
  BY <1>5, <1>6, <1>7, Zenon DEF PipeInv

(* The steps of a sender that change only where it is.                     *)
LEMMA SenderQuietInv ==
  ASSUME PipeInv, NEW s \in Senders, SendDrained(s) \/ SendCancelled(s) \/ SendReturns(s)
  PROVE  PipeInv' /\ Freed' = Freed
<1>1. /\ UNCHANGED <<feedVars, rd, readCh, readClosed, ack, netVars, cancelled, faulty, result, winVars>>
  BY Zenon DEF SendDrained, SendCancelled, SendReturns, SenderKeeps
<1>2. SenderOK(s) /\ ControlInv
  BY SenderTypes DEF SenderInv
<1>3. CASE SendDrained(s)
  <2> DEFINE pc == IF snd[s].batch = <<>> THEN "closed" ELSE "flush"
  <2>1. /\ snd[s].pc = "recv" /\ readCh = <<>> /\ readClosed = TRUE /\ errs' = errs
        /\ snd' = [snd EXCEPT ![s].pc = pc]
    BY <1>3, SenderTypes DEF SendDrained, SenderAt
  <2>2. snd[s].cc = Nothing
    BY Zenon, <1>2, <2>1 DEF SenderOK
  <2>3. /\ pc \in SenderPc /\ pc \in {"flush", "drop", "closed"} /\ pc # "drop"
        /\ pc = "flush" => snd[s].batch # <<>>
        /\ pc = "closed" => snd[s].batch = <<>>
    BY DEF SenderPc
  <2> HIDE DEF pc
  <2> QED
    BY Zenon, <1>1, <2>1, <2>2, <2>3, SenderPcInv
<1>4. CASE SendCancelled(s)
  <2>1. snd[s].pc = "recv" /\ errs' = errs /\ snd' = [snd EXCEPT ![s].pc = "drop"] /\ WorkerDone(s)
    BY <1>4, Zenon DEF SendCancelled, SenderAt
  <2>2. faulty = TRUE
    BY <1>2, <2>1 DEF WorkerDone, SendDone, PipeDone, ControlInv
  <2> QED
    BY Zenon, <1>1, <2>1, <2>2, SenderPcInv DEF SenderPc
<1>5. CASE SendReturns(s)
  <2>1. /\ snd[s].pc = "drop" /\ errs' = errs \cup {s} /\ snd' = [snd EXCEPT ![s].pc = "closed"]
        /\ snd[s].batch = <<>> /\ snd[s].cc = Nothing
    BY <1>5, Zenon DEF SendReturns, SenderAt
  <2>2. faulty = TRUE
    BY <1>2, <2>1 DEF SenderOK
  <2> QED
    BY Zenon, <1>1, <2>1, <2>2, SenderPcInv DEF SenderPc
<1> QED
  BY <1>3, <1>4, <1>5

(* stream.Send fails: the sender goes to give its batch up.                *)
LEMMA FlushFails ==
  ASSUME PipeInv, NEW s \in Senders, Flush(s), stream[s] # "open"
  PROVE  PipeInv' /\ Freed' = Freed
<1>1. /\ UNCHANGED <<feedVars, rd, readCh, readClosed, ack, netVars, cancelled, faulty, result, winVars>>
      /\ snd[s].pc = "flush" /\ errs' = errs /\ snd' = [snd EXCEPT ![s].pc = "drop"] /\ stream[s] = "broken"
  BY Zenon DEF Flush, SenderAt, SenderKeeps, netVars
<1>2. faulty = TRUE
  BY Zenon, <1>1, SenderTypes DEF SenderInv, SenderOK
<1> QED
  BY Zenon, <1>1, <1>2, SenderPcInv DEF SenderPc

(* The ack receiver returns, at io.EOF, on a broken stream or on           *)
(* cancellation.                                                           *)
LEMMA AckReturnsInv ==
  ASSUME PipeInv, NEW s \in Senders, AckReturns(s)
  PROVE  PipeInv' /\ Freed' = Freed
<1>1. /\ UNCHANGED <<nextID, chunkCh, rd, readCh, wire, acks, written, base, released, waiters, granted>>
      /\ UNCHANGED <<feeding, readClosed, snd, stream, cancelled, faulty, result>>
  BY Zenon DEF AckReturns, AckKeeps, winVars, feedVars, readVars
<1>2. /\ ack[s].pc = "recv" /\ ack' = [ack EXCEPT ![s].pc = "done"]
      /\ \/ acks[s] = <<>> /\ stream[s] = "eof" /\ errs' = errs
         \/ (stream[s] = "broken" \/ WorkerDone(s)) /\ errs' = errs \cup {s}
  BY Zenon DEF AckReturns
<1>3. /\ ack' \in [Senders -> AckRec] /\ ack'[s].pc = "done"
      /\ ack'[s].ids = ack[s].ids
      /\ \A q \in Senders : q # s => ack'[q] = ack[q]
  BY Zenon, <1>2, AckGoesTo DEF AckPc
<1>4. SenderOK(s) /\ ControlInv
  BY SenderTypes DEF SenderInv
<1>5. errs' # errs => faulty = TRUE
  BY <1>2, <1>4 DEF SenderOK, WorkerDone, SendDone, PipeDone, ControlInv
<1>6. /\ errs \subseteq errs' /\ errs' \subseteq {"pipe", "read", "send"} \cup Senders
      /\ (acks[s] = <<>> /\ stream[s] = "eof") \/ s \in errs'
  BY <1>2, SenderTypes
<1>7. /\ PipeTypes' /\ PlacesInv' /\ QueueInv' /\ SlotInv' /\ ReaderInv' /\ WrittenFed' /\ Freed' = Freed
  <2>1. \A q \in Senders : /\ snd'[q].batch = snd[q].batch /\ snd'[q].cc = snd[q].cc
                           /\ ack'[q].ids = ack[q].ids /\ (snd'[q].pc = "sent" <=> snd[q].pc = "sent")
                           /\ snd[q].pc = "drop" => snd'[q].pc = "drop" \/ errs' # {}
                           /\ stream[q] = "broken" => stream'[q] = "broken"
    BY <1>1, <1>3
  <2>2. /\ snd' \in [Senders -> SenderRec] /\ stream' \in [Senders -> {"none", "open", "eof", "broken"}]
        /\ feeding' \in BOOLEAN /\ readClosed' \in BOOLEAN /\ cancelled' \in BOOLEAN /\ faulty' \in BOOLEAN
        /\ result' \in {"none", "ok", "err"} /\ (faulty = TRUE => faulty' = TRUE)
        /\ written \subseteq written' /\ written' \subseteq ReqIDs /\ \A id \in written' : id < nextID
    BY <1>1, SenderTypes, Zenon
  <2> QED
    BY <1>1, <1>3, <1>6, <2>1, <2>2, Quiet, ZenonT(30)
<1>8. SenderInv'
  <2>1. SenderOK(s)'
    BY Zenon, <1>1, <1>2, <1>3, <1>4, <1>6 DEF SenderOK
  <2> QED
    BY Zenon, <1>1, <1>3, <1>6, <2>1, SenderTypes, OtherSenders
<1>9. ControlInv'
  <2>1. result = "none"
    BY ZenonT(30), <1>2, <1>4 DEF ControlInv
  <2>2. (errs' # {} \/ cancelled' = TRUE) => faulty' = TRUE
    BY <1>1, <1>4, <1>5 DEF ControlInv
  <2> QED
    BY Zenon, <1>1, <1>4, <1>6, <2>1, <2>2 DEF ControlInv
<1> QED
  BY <1>7, <1>8, <1>9, Zenon DEF PipeInv

(* A step that changes only the stream of sender s, and perhaps writes.    *)
LEMMA StreamInv ==
  ASSUME PipeInv, NEW s \in Senders, NEW t \in {"eof", "broken"}, stream[s] = "open",
         stream' = [stream EXCEPT ![s] = t],
         UNCHANGED <<feedVars, readVars, snd, ack, wire, acks, errs, cancelled, result, winVars>>,
         written \subseteq written', written' \subseteq ReqIDs, \A id \in written' : id < nextID,
         faulty' \in BOOLEAN, faulty = TRUE => faulty' = TRUE, t = "broken" => faulty' = TRUE,
         t = "eof" => snd[s].pc = "closed" /\ wire[s] = <<>>
  PROVE  PipeInv' /\ Freed' = Freed
<1>1. /\ UNCHANGED <<nextID, chunkCh, rd, readCh, wire, acks, base, released, waiters, granted>>
      /\ UNCHANGED <<feeding, readClosed, snd, ack, errs, cancelled, result>>
  BY Zenon DEF winVars, feedVars, readVars
<1>2. /\ stream' \in [Senders -> {"none", "open", "eof", "broken"}] /\ stream'[s] = t
      /\ \A q \in Senders : q # s => stream'[q] = stream[q]
  BY ZenonT(30), SenderTypes
<1>3. SenderOK(s) /\ ControlInv
  BY SenderTypes DEF SenderInv
<1>4. /\ PipeTypes' /\ PlacesInv' /\ QueueInv' /\ SlotInv' /\ ReaderInv' /\ WrittenFed' /\ Freed' = Freed
  <2>1. \A q \in Senders : /\ snd'[q].batch = snd[q].batch /\ snd'[q].cc = snd[q].cc
                           /\ ack'[q].ids = ack[q].ids /\ (snd'[q].pc = "sent" <=> snd[q].pc = "sent")
                           /\ snd[q].pc = "drop" => snd'[q].pc = "drop" \/ errs' # {}
                           /\ stream[q] = "broken" => stream'[q] = "broken"
    BY <1>1, <1>2
  <2>2. /\ snd' \in [Senders -> SenderRec] /\ ack' \in [Senders -> AckRec]
        /\ feeding' \in BOOLEAN /\ readClosed' \in BOOLEAN /\ cancelled' \in BOOLEAN
        /\ result' \in {"none", "ok", "err"}
        /\ errs \subseteq errs' /\ errs' \subseteq {"pipe", "read", "send"} \cup Senders
    BY <1>1, SenderTypes, Zenon
  <2> QED
    BY <1>1, <1>2, <2>1, <2>2, Quiet, ZenonT(30)
<1>5. SenderInv'
  <2>1. SenderOK(s)'
    BY Zenon, <1>1, <1>2, <1>3 DEF SenderOK
  <2> QED
    BY ZenonT(30), <1>1, <1>2, <2>1, SenderTypes, OtherSenders
<1>6. ControlInv'
  BY Zenon, <1>1, <1>3 DEF ControlInv
<1> QED
  BY <1>4, <1>5, <1>6, Zenon DEF PipeInv

(* The destination ends the stream after the sender closed it and all is   *)
(* written.                                                                *)
LEMMA ServerReturnsInv ==
  ASSUME PipeInv, NEW s \in Senders, ServerReturns(s)
  PROVE  PipeInv' /\ Freed' = Freed
<1>1. /\ UNCHANGED <<feedVars, readVars, snd, ack, wire, acks, errs, cancelled, result, winVars>>
      /\ written' = written /\ faulty' = faulty /\ stream' = [stream EXCEPT ![s] = "eof"]
      /\ stream[s] = "open" /\ snd[s].pc = "closed" /\ wire[s] = <<>>
  BY Zenon DEF ServerReturns, NetKeeps, SenderAt
<1> QED
  BY Zenon, <1>1, SenderTypes, StreamInv

(* What is on the wire has been fed.                                       *)
LEMMA WireFed ==
  ASSUME PipeInv, NEW s \in Senders, wire[s] # <<>>
  PROVE  /\ Range(Head(wire[s])) \subseteq {id \in ReqIDs : id < nextID}
         /\ Head(wire[s]) \in Seq(ReqIDs)
<1>1. wire[s] \in Seq(Seq(ReqIDs)) /\ nextID \in Nat
  BY Zenon DEF PipeInv, PipeTypes
<1>2. Head(wire[s]) \in Seq(ReqIDs) /\ Flat(wire[s]) = Flat(Tail(wire[s])) \cup Range(Head(wire[s]))
  BY Zenon, <1>1, TailBatch
<1>3. Range(Head(wire[s])) \subseteq ReqIDs
  BY <1>2 DEF Range
<1>4. ASSUME NEW id \in Range(Head(wire[s])) PROVE id < nextID
  <2>1. id \in ReqIDs /\ Has("wire", s, id)
    BY ZenonT(30), <1>2, <1>3, Cells
  <2>2. ~(nextID <= id)
    BY <2>1, OnlyHere, Cells, SpotsOwners
  <2> QED
    BY <1>1, <2>1, <2>2, IDs
<1> QED
  BY Zenon, <1>2, <1>3, <1>4

(* A stream breaks at any time.                                            *)
LEMMA StreamBreaksInv ==
  ASSUME PipeInv, NEW s \in Senders, StreamBreaks(s)
  PROVE  /\ PipeInv' /\ Freed' = Freed
         /\ \E W \in SUBSET {id \in ReqIDs : id < nextID} : written' = written \cup W
<1>1. /\ UNCHANGED <<feedVars, readVars, snd, ack, wire, acks, errs, cancelled, result, winVars>>
      /\ faulty' = TRUE /\ stream' = [stream EXCEPT ![s] = "broken"]
      /\ stream[s] = "open"
  BY Zenon DEF StreamBreaks, NetKeeps
<1>2. PICK W \in SUBSET (IF wire[s] = <<>> THEN {} ELSE Range(Head(wire[s]))) : written' = written \cup W
  BY Zenon DEF StreamBreaks
<1>3. W \subseteq {id \in ReqIDs : id < nextID}
  BY Zenon, <1>2, WireFed
<1>4. written \subseteq written' /\ written' \subseteq ReqIDs /\ \A id \in written' : id < nextID
  BY Zenon, <1>2, <1>3, SenderTypes
<1> QED
  BY Zenon, <1>1, <1>2, <1>3, <1>4, StreamInv

(* The id of a chunk, and of Nothing.                                      *)
LEMMA ChunkOrNothing ==
  /\ Nothing.id = -1 /\ Nothing.n = 0
  /\ \A c \in Chunk \cup {Nothing} : (c = Nothing <=> c \notin Chunk) /\ (c \in Chunk <=> c.id \in ReqIDs)
<1>1. Nothing.id = -1 /\ Nothing.n = 0
  BY DEF Nothing, Held
<1>2. \A c \in Chunk : c.id \in ReqIDs
  BY DEF Chunk
<1> QED
  BY <1>1, <1>2, IDs, Zenon

(* What is known of a sender and of the ids it has.                        *)
LEMMA SenderFacts ==
  ASSUME PipeInv, NEW s \in Senders
  PROVE  /\ snd[s] \in SenderRec /\ snd[s].pc \in SenderPc /\ snd[s].batch \in Seq(Chunk)
         /\ snd[s].cc \in Chunk \cup {Nothing}
         /\ ack[s] \in AckRec /\ ack[s].pc \in AckPc /\ ack[s].ids \in Seq(ReqIDs)
         /\ wire[s] \in Seq(Seq(ReqIDs)) /\ acks[s] \in Seq(Seq(ReqIDs))
         /\ DistinctIDs(snd[s].batch) /\ Distinct(ack[s].ids) /\ DistinctIn(wire[s]) /\ DistinctIn(acks[s])
         /\ NonEmpty(wire[s]) /\ NonEmpty(acks[s]) /\ SenderOK(s)
<1>1. /\ snd[s] \in SenderRec /\ ack[s] \in AckRec
      /\ wire[s] \in Seq(Seq(ReqIDs)) /\ acks[s] \in Seq(Seq(ReqIDs))
  BY SenderTypes, Zenon DEF PipeInv, PipeTypes
<1>2. /\ DistinctIDs(snd[s].batch) /\ Distinct(ack[s].ids) /\ DistinctIn(wire[s]) /\ DistinctIn(acks[s])
      /\ NonEmpty(wire[s]) /\ NonEmpty(acks[s]) /\ SenderOK(s)
  BY Zenon DEF PipeInv, QueueInv, SenderInv
<1>3. snd[s].pc \in SenderPc /\ snd[s].batch \in Seq(Chunk) /\ snd[s].cc \in Chunk \cup {Nothing}
  BY <1>1 DEF SenderRec
<1>4. ack[s].pc \in AckPc /\ ack[s].ids \in Seq(ReqIDs)
  BY <1>1 DEF AckRec
<1> QED
  BY <1>1, <1>2, <1>3, <1>4, Zenon

(* A sender takes a chunk from readCh: into the batch, or aside when the   *)
(* batch is full.                                                          *)
LEMMA SendTakeInv ==
  ASSUME PipeInv, NEW s \in Senders, SendTake(s)
  PROVE  PipeInv' /\ Freed' = Freed
<1> DEFINE h == Head(readCh)
           v == [snd[s] EXCEPT !.pc = "flush", !.cc = h]
           w == [snd[s] EXCEPT !.batch = Append(@, h)]
<1>1. PipeTypes /\ PlacesInv /\ QueueInv /\ SlotInv /\ ReaderInv /\ SenderInv /\ ControlInv /\ WrittenFed
  BY Zenon DEF PipeInv
<1>2. /\ nextID' = nextID /\ feeding' = feeding /\ chunkCh' = chunkCh /\ rd' = rd
      /\ readClosed' = readClosed /\ ack' = ack /\ stream' = stream /\ wire' = wire
      /\ acks' = acks /\ written' = written /\ cancelled' = cancelled /\ result' = result
      /\ base' = base /\ released' = released /\ waiters' = waiters /\ granted' = granted
      /\ errs' = errs /\ faulty' = faulty
  BY Zenon DEF SendTake, SenderKeeps, feedVars, netVars, winVars
<1>3. /\ snd[s].pc = "recv" /\ readCh # <<>> /\ readCh' = Tail(readCh)
      /\ (snd' = [snd EXCEPT ![s] = v] /\ snd[s].batch # <<>>) \/ snd' = [snd EXCEPT ![s] = w]
  <2>1. /\ snd[s].pc = "recv" /\ readCh # <<>> /\ readCh' = Tail(readCh)
        /\ snd' = [snd EXCEPT ![s] = IF MustFlush(snd[s].batch, h.n) THEN v ELSE w]
    BY DEF SendTake, SenderAt
  <2>2. MustFlush(snd[s].batch, h.n) => snd[s].batch # <<>>
    BY Zenon DEF MustFlush
  <2> HIDE DEF h, v, w
  <2> QED
    BY <2>1, <2>2, Zenon
<1>4. /\ readCh' \in Seq(Chunk) /\ h \in Chunk /\ h.id \in ReqIDs
      /\ Owned(readCh) = Owned(readCh') \cup {h.id}
      /\ DistinctIDs(readCh') /\ h.id \notin Owned(readCh')
  BY Zenon, <1>1, <1>3, TailChunk DEF PipeTypes, QueueInv
<1> HIDE DEF h
<1>5. Has("readCh", Nobody, h.id)
  BY Zenon, <1>4, Cells
<1>6. /\ snd[s].batch \in Seq(Chunk) /\ DistinctIDs(snd[s].batch) /\ SenderOK(s) /\ snd[s].cc = Nothing
      /\ SenderOwns(s) = Owned(snd[s].batch)
  BY ZenonT(30), <1>3, SenderFacts DEF SenderOK, SenderOwns, SenderAt
<1>7. h.id \notin Owned(snd[s].batch) /\ h.id < base + Limit
  <2>1. ~Has("batch", s, h.id)
    BY Zenon, <1>4, <1>5, OnlyHere, SpotsOwners
  <2>2. h.id < base + Limit
    BY <1>1, <1>4, <1>5, SpotsOwners, Zenon DEF PlacesInv, Holding
  <2> QED
    BY Zenon, <1>6, <2>1, <2>2, AtBatch
<1>8. /\ Append(snd[s].batch, h) \in Seq(Chunk) /\ Append(snd[s].batch, h) # <<>>
      /\ Owned(Append(snd[s].batch, h)) = Owned(snd[s].batch) \cup {h.id}
      /\ DistinctIDs(Append(snd[s].batch, h))
  BY <1>4, <1>6, <1>7, AppendChunk
<1>9. /\ v \in SenderRec /\ v.pc = "flush" /\ v.batch = snd[s].batch /\ v.cc = h
      /\ w \in SenderRec /\ w.pc = "recv" /\ w.batch = Append(snd[s].batch, h) /\ w.cc = Nothing
  BY Zenon, <1>3, <1>4, <1>6, <1>8, SenderFacts DEF SenderRec, SenderPc
<1> HIDE DEF v, w
<1>10. PICK u \in {v, w} : snd' = [snd EXCEPT ![s] = u] /\ (u = v => snd[s].batch # <<>>)
  BY Zenon, <1>3, <1>9
<1>11. /\ snd' \in [Senders -> SenderRec] /\ snd'[s] = u /\ \A q \in Senders : q # s => snd'[q] = snd[q]
  BY <1>9, <1>10, SenderTypes
<1>12. PipeTypes'
  BY <1>1, <1>2, <1>4, <1>11, Zenon DEF PipeTypes, SenderRec
<1>13. \A q \in Senders : q # s => SenderOwns(q)' = SenderOwns(q)
  BY <1>11, Zenon DEF SenderOwns, SenderAt
<1>14. SenderOwns(s)' = Owned(u.batch)
  BY <1>9, <1>11 DEF SenderOwns, SenderAt
<1>15. Freed' = Freed
  BY <1>2, ZenonT(30) DEF Freed
<1>16. Leave({h.id}, "readCh", Nobody)
  BY Zenon, <1>4, <1>5, AtReadCh DEF Leave
<1>17. ASSUME NEW m \in Spots, NEW z \in Owners, ~(m = "readCh" /\ z = Nobody),
              ~(m \in {"cc", "batch"} /\ z = s), NEW id \in ReqIDs
       PROVE  Has(m, z, id)' <=> Has(m, z, id)
  <2>1. \A q \in Senders : q # s => snd'[q].cc.id = snd[q].cc.id
    BY Zenon, <1>11
  <2> QED
    BY Zenon, <1>2, <1>13, <1>15, <1>17, <2>1, Unmoved
<1>18. Carried
  <2>1. CASE u = v
    <3>1. Enter({h.id}, "cc", s)
      <4>1. \A id \in ReqIDs : snd[s].cc.id # id
        BY Zenon, <1>6, ChunkOrNothing, IDs
      <4>2. snd'[s].cc.id = h.id
        BY Zenon, <1>9, <1>11, <2>1
      <4> QED
        BY Zenon, <4>1, <4>2, AtCC DEF Enter
    <3>2. \A id \in ReqIDs : Has("batch", s, id)' <=> Has("batch", s, id)
      BY Zenon, <1>6, <1>9, <1>14, <2>1, AtBatch
    <3>3. Elsewhere("readCh", Nobody, "cc", s)
      BY <1>17, <3>2 DEF Elsewhere
    <3>4. \A id \in ReqIDs : IF id \in {h.id} THEN Goes(id, "cc", s) ELSE Stay(id)
      BY Zenon, <1>16, <3>1, <3>3, Move, SpotsOwners
    <3>5. Arrives(h.id, "cc")
      BY <1>2, <1>7 DEF Arrives, Holding
    <3> QED
      BY <3>4, <3>5, SpotsOwners, ZenonT(30) DEF Carried, Handled
  <2>2. CASE u = w
    <3>1. Enter({h.id}, "batch", s)
      <4>1. SenderOwns(s)' = SenderOwns(s) \cup {h.id}
        BY <1>6, <1>8, <1>9, <1>14, <2>2, ZenonT(30)
      <4> QED
        BY Zenon, <4>1, Cells, CellsPrimed DEF Enter
    <3>2. \A id \in ReqIDs : Has("cc", s, id)' <=> Has("cc", s, id)
      BY ZenonT(30), <1>6, <1>9, <1>11, <2>2, AtCC
    <3>3. Elsewhere("readCh", Nobody, "batch", s)
      BY <1>17, <3>2 DEF Elsewhere
    <3>4. \A id \in ReqIDs : IF id \in {h.id} THEN Goes(id, "batch", s) ELSE Stay(id)
      BY Zenon, <1>16, <3>1, <3>3, Move, SpotsOwners
    <3>5. Arrives(h.id, "batch")
      BY Zenon, <1>2, <1>7 DEF Arrives, Holding
    <3> QED
      BY <3>4, <3>5, SpotsOwners, ZenonT(30) DEF Carried, Handled
  <2> QED
    BY <2>1, <2>2
<1>19. PlacesInv'
  <2>1. Lossless' => Lossless
    BY Zenon, <1>2, <1>3, <1>11 DEF Lossless
  <2>2. Advance
    BY <1>1, <1>2, <2>1 DEF PipeTypes, Advance
  <2> QED
    BY Zenon, <1>1, <1>18, <2>2, CarriedPlaces DEF PipeTypes
<1>20. QueueInv'
  <2>1. DistinctIDs(u.batch)
    BY Zenon, <1>6, <1>8, <1>9
  <2> QED
    BY <1>1, <1>2, <1>4, <1>11, <2>1, Zenon DEF QueueInv
<1>21. SlotInv' /\ ReaderInv' /\ WrittenFed'
  BY <1>1, <1>2, Zenon DEF SlotInv, ReaderInv, WrittenFed
<1>22. SenderInv'
  <2>1. h # Nothing
    BY Zenon, <1>4, ChunkOrNothing
  <2>2. SenderOK(s)'
    BY ZenonT(30), <1>2, <1>3, <1>6, <1>8, <1>9, <1>10, <1>11, <2>1 DEF SenderOK
  <2> QED
    BY Zenon, <1>1, <1>2, <1>3, <1>11, <2>2, OtherSenders
<1>23. ControlInv'
  <2>1. result = "none" /\ snd'[s].pc # "closed"
    BY Zenon, <1>1, <1>3, <1>9, <1>10, <1>11 DEF ControlInv
  <2> QED
    BY ZenonT(30), <1>1, <1>2, <2>1 DEF ControlInv
<1> QED
  BY <1>12, <1>15, <1>19, <1>20, <1>21, <1>22, <1>23, Zenon DEF PipeInv
=============================================================================
